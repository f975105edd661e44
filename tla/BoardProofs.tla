---------------------------- MODULE BoardProofs -----------------------------
(***************************************************************************)
(* The theorems of the parts of the board, for every value of their        *)
(* constants.  Each part has an inductive invariant, stated in its module. *)
(***************************************************************************)
EXTENDS MCBoard, WellFoundedInduction, TLAPS

-----------------------------------------------------------------------------
(* A step of the board is a step of one part; the others stand still.      *)

LEMMA StepOfPart ==
  ASSUME [Next]_vars
  PROVE  /\ Leds!Next \/ UNCHANGED ledsVars
         /\ Triac!Next \/ UNCHANGED triacVars
         /\ Slider!TouchNext \/ UNCHANGED touchVars
         /\ Debounced!Next \/ UNCHANGED debounceVars
         /\ Slider!FadeNext \/ UNCHANGED fadeVars
         /\ Button!Next \/ UNCHANGED buttonVars
         /\ Adc!Next \/ UNCHANGED adcVars
BY DEF Next, vars

LEMMA InitOfParts ==
  ASSUME Init
  PROVE  Leds!Init /\ Triac!Init /\ Slider!TouchInit /\ Debounced!Init /\ Slider!FadeInit
         /\ Button!Init /\ Adc!Init
BY DEF Init

-----------------------------------------------------------------------------
(* The triac timer.                                                        *)

LEMMA TriacConstants ==
  /\ \A d \in Delays : d \in Nat /\ d > 0
  /\ \A h \in HalfPeriods : h \in Nat /\ h > 0
BY BoardAssumptions DEF BoardAssumptions, Triac!TimingAssumption

\* The shortest half period exists: every nonempty set of numbers has a least one.
LEMMA ShortestFact ==
  Triac!Shortest \in HalfPeriods /\ \A h \in HalfPeriods : Triac!Shortest <= h
<1>1. \E m \in HalfPeriods : \A h \in HalfPeriods : m <= h
  <2>1. HalfPeriods \subseteq Nat /\ HalfPeriods # {}
    BY BoardAssumptions DEF BoardAssumptions, Triac!TimingAssumption
  <2>2. PICK m \in HalfPeriods : \A h \in HalfPeriods : ~(<<h, m>> \in OpToRel(<, Nat))
    BY <2>1, NatLessThanWellFounded, WFMin
  <2>3. \A h \in HalfPeriods : ~(h < m)
    BY <2>1, <2>2 DEF OpToRel
  <2> QED BY <2>1, <2>3
<1> QED BY <1>1 DEF Triac!Shortest, Triac!Min

LEMMA TriacInit ==
  ASSUME Triac!Init
  PROVE  Triac!TriacInv
<1> USE TriacConstants DEF Triac!Init
<1>1. Triac!TriacType
  <2>1. triac_phase \in Nat /\ triac_length \in HalfPeriods /\ triac_phase < triac_length
    OBVIOUS
  <2>2. triac_count \in Nat /\ triac_alarm \in Delays /\ triac_quiet \in 0 .. 2
    OBVIOUS
  <2>3. triac_running \in BOOLEAN /\ triac_syncPending \in BOOLEAN /\ triac_alarmPending \in BOOLEAN
    BY Zenon
  <2> QED BY <2>1, <2>2, <2>3 DEF Triac!TriacType
<1>2. Triac!TimerInv
  BY DEF Triac!TimerInv, Triac!NeverOverrun
<1>3. Triac!SettlingInv
  BY DEF Triac!SettlingInv
<1>4. Triac!SettledInv
  BY DEF Triac!SettledInv
<1> QED BY <1>1, <1>2, <1>3, <1>4 DEF Triac!TriacInv

LEMMA TriacTick ==
  ASSUME Triac!TriacInv, Triac!Tick
  PROVE  Triac!TriacInv'
<1> USE TriacConstants DEF Triac!TriacInv, Triac!Tick
<1>1. Triac!TriacType'
  <2>1. triac_count' \in Nat
    BY DEF Triac!TriacType
  <2>2. triac_phase' \in Nat /\ triac_length' \in HalfPeriods /\ triac_phase' < triac_length'
    BY DEF Triac!TriacType
  <2>3. triac_running' \in BOOLEAN /\ triac_alarm' \in Delays /\ triac_syncPending' \in BOOLEAN
    BY DEF Triac!TriacType
  <2>4. triac_alarmPending' \in BOOLEAN
    BY DEF Triac!TriacType
  <2>5. triac_quiet' \in 0 .. 2
    BY DEF Triac!TriacType
  <2> QED BY <2>1, <2>2, <2>3, <2>4, <2>5 DEF Triac!TriacType
<1>2. Triac!TimerInv'
  <2>1. triac_running' = triac_running /\ triac_alarm' = triac_alarm
    OBVIOUS
  <2>2. ~triac_running' => triac_count' = 0 /\ ~triac_alarmPending'
    BY DEF Triac!TriacType, Triac!TimerInv
  <2>3. triac_syncPending' => triac_phase' = 0
    BY DEF Triac!TriacType
  <2>4. Triac!NeverOverrun'
    <3>1. triac_alarmPending' <=> triac_running /\ triac_count' >= triac_alarm
      OBVIOUS
    <3>2. triac_count' \in Nat /\ triac_alarm \in Nat
      BY <1>1 DEF Triac!TriacType
    <3> QED BY <2>1, <3>1, <3>2 DEF Triac!NeverOverrun
  <2> QED BY <2>2, <2>3, <2>4 DEF Triac!TimerInv
<1>3. Triac!SettlingInv'
  BY DEF Triac!TriacType, Triac!SettlingInv
<1>4. Triac!SettledInv'
  <2> SUFFICES ASSUME (triac_quiet = 2 /\ triac_alarm < Triac!Shortest)'
               PROVE  Triac!SettledInv'
    BY DEF Triac!SettledInv
  <2>1. Triac!Shortest <= triac_length
    BY ShortestFact DEF Triac!TriacType
  <2>2. triac_alarm < Triac!Shortest
    BY DEF Triac!Shortest
  <2>3. CASE triac_phase + 1 < triac_length
    BY <2>2, <2>3 DEF Triac!TriacType, Triac!SettledInv, Triac!TimerInv, Triac!NeverOverrun
  <2>4. CASE ~(triac_phase + 1 < triac_length) /\ triac_quiet = 2
    <3>1. ~triac_running
      BY <2>1, <2>2, <2>4, ShortestFact
         DEF Triac!TriacType, Triac!SettledInv, Triac!TimerInv, Triac!NeverOverrun
    <3> QED BY <2>4, <3>1 DEF Triac!TriacType, Triac!SettledInv, Triac!TimerInv
  <2>5. CASE ~(triac_phase + 1 < triac_length) /\ triac_quiet = 1
    <3>1. ~triac_running
      BY <2>1, <2>2, <2>5, ShortestFact
         DEF Triac!TriacType, Triac!SettlingInv, Triac!TimerInv, Triac!NeverOverrun
    <3> QED BY <2>5, <3>1 DEF Triac!TriacType, Triac!SettledInv, Triac!TimerInv
  <2> QED BY <2>3, <2>4, <2>5 DEF Triac!TriacType
<1> QED BY <1>1, <1>2, <1>3, <1>4 DEF Triac!TriacInv

LEMMA TriacSync ==
  ASSUME Triac!TriacInv, Triac!SyncIsr
  PROVE  Triac!TriacInv'
<1> USE TriacConstants DEF Triac!TriacInv, Triac!SyncIsr
<1>0. triac_running' = TRUE /\ triac_syncPending' = FALSE /\ triac_phase = 0
  BY DEF Triac!TimerInv
<1>1. Triac!TriacType'
  BY <1>0 DEF Triac!TriacType
<1>2. Triac!TimerInv'
  <2>1. triac_count < triac_alarm \/ triac_alarmPending
    BY DEF Triac!TriacType, Triac!TimerInv, Triac!NeverOverrun
  <2> QED BY <1>0, <2>1 DEF Triac!TimerInv, Triac!NeverOverrun
<1>3. Triac!SettlingInv'
  BY <1>0 DEF Triac!TriacType, Triac!SettlingInv
<1>4. Triac!SettledInv'
  BY <1>0, ShortestFact DEF Triac!TriacType, Triac!TimerInv, Triac!SettledInv, Triac!Shortest
<1> QED BY <1>1, <1>2, <1>3, <1>4 DEF Triac!TriacInv

LEMMA TriacAlarm ==
  ASSUME Triac!TriacInv, Triac!AlarmIsr
  PROVE  Triac!TriacInv'
<1> USE TriacConstants DEF Triac!TriacInv, Triac!AlarmIsr
<1>0. triac_running' = FALSE /\ triac_alarmPending' = FALSE /\ triac_running
  BY DEF Triac!TimerInv
<1>1. Triac!TriacType'
  BY <1>0 DEF Triac!TriacType
<1>2. Triac!TimerInv'
  BY <1>0 DEF Triac!TimerInv, Triac!NeverOverrun
<1>3. Triac!SettlingInv'
  BY <1>0 DEF Triac!SettlingInv
<1>4. Triac!SettledInv'
  BY <1>0 DEF Triac!TriacType, Triac!SettledInv, Triac!Shortest
<1> QED BY <1>1, <1>2, <1>3, <1>4 DEF Triac!TriacInv

LEMMA TriacSetAlarm ==
  ASSUME Triac!TriacInv, NEW d \in Delays, Triac!SetAlarm(d)
  PROVE  Triac!TriacInv'
<1> USE TriacConstants DEF Triac!TriacInv, Triac!SetAlarm
<1>0. triac_alarmPending' <=> triac_alarmPending \/ (triac_running /\ triac_count >= d)
  OBVIOUS
<1>1. Triac!TriacType'
  <2>1. triac_alarmPending' \in BOOLEAN
    OBVIOUS
  <2> QED BY <2>1 DEF Triac!TriacType
<1>2. Triac!TimerInv'
  BY <1>0 DEF Triac!TriacType, Triac!TimerInv, Triac!NeverOverrun
<1>3. Triac!SettlingInv' /\ Triac!SettledInv'
  BY DEF Triac!SettlingInv, Triac!SettledInv
<1> QED BY <1>1, <1>2, <1>3 DEF Triac!TriacInv

LEMMA TriacStay ==
  ASSUME Triac!TriacInv, UNCHANGED triacVars
  PROVE  Triac!TriacInv'
BY DEF triacVars, Triac!TriacInv, Triac!TriacType, Triac!TimerInv, Triac!SettlingInv,
       Triac!SettledInv, Triac!NeverOverrun, Triac!Shortest

\* gpio_isr_handler and on_timer_alarm_cb: a delay left alone for two half periods is
\* the phase at which the gate is pulsed, once in every half period, for all delays
\* and all lengths of the half periods, and the timer never runs past its alarm.
THEOREM FiringTheorem == Spec => []FiresAtDelay
<1>1. Init => Triac!TriacInv
  BY InitOfParts, TriacInit
<1>2. Triac!TriacInv /\ [Next]_vars => Triac!TriacInv'
  BY StepOfPart, TriacTick, TriacSync, TriacAlarm, TriacSetAlarm, TriacStay DEF Triac!Next
<1>3. Triac!TriacInv => FiresAtDelay
  <2> SUFFICES ASSUME Triac!TriacInv PROVE Triac!FiresAtDelay /\ Triac!NeverOverrun
    BY DEF FiresAtDelay
  <2>1. Triac!FiresAtDelay
    BY TriacConstants DEF Triac!TriacInv, Triac!TriacType, Triac!SettledInv, Triac!FiresAtDelay
  <2> QED BY <2>1 DEF Triac!TriacInv, Triac!TimerInv
<1> QED BY <1>1, <1>2, <1>3, PTL DEF Spec

-----------------------------------------------------------------------------
(* The indicator LEDs.                                                     *)

LEMMA LightsRange ==
  ASSUME NEW lvl \in Leds!UInt8
  PROVE  Leds!Lights(lvl) \in 0 .. 20
BY DEF Leds!Lights, Leds!UInt8

LEMMA InBar ==
  ASSUME NEW lvl \in Leds!UInt8, NEW c \in Leds!LevelChannel
  PROVE  c \in Leds!Bar(lvl) <=> 7 - c < Leds!Lights(lvl)
BY DEF Leds!Bar

\* A write to one LED.
LEMMA WriteLedFacts ==
  ASSUME Leds!LedType, NEW c \in Leds!Channel, NEW duty \in {0, Leds!PWM_LEVEL}, NEW on \in BOOLEAN,
         Leds!WriteLed(c, duty, on)
  PROVE  /\ leds_pwm' \in [Leds!Channel -> {0, Leds!PWM_LEVEL, Leds!PWM_FRONT}]
         /\ leds_control' \in [Leds!Channel -> BOOLEAN]
         /\ Leds!LitAt(c)' <=> on /\ duty > 0
         /\ \A b \in Leds!Channel \ {c} : Leds!LitAt(b)' <=> Leds!LitAt(b)
BY DEF Leds!LedType, Leds!WriteLed, Leds!LitAt

LEMMA LedsInit ==
  ASSUME Leds!Init
  PROVE  Leds!LedInv
<1> USE DEF Leds!Init
<1>1. Leds!LedType
  <2>1. leds_pwm \in [Leds!Channel -> {0, Leds!PWM_LEVEL, Leds!PWM_FRONT}]
    OBVIOUS
  <2>2. leds_control \in [Leds!Channel -> BOOLEAN]
    OBVIOUS
  <2>3. 0 \in Leds!UInt8 /\ 0 \in 0 .. 20
    BY DEF Leds!UInt8
  <2> QED BY <2>1, <2>2, <2>3 DEF Leds!LedType
<1>2. Leds!StartInv
  BY DEF Leds!StartInv, Leds!LevelChannel
<1>3. Leds!RestInv /\ Leds!LoopInv /\ Leds!FrontInv
  BY DEF Leds!RestInv, Leds!LoopInv, Leds!FrontInv
<1> QED BY <1>1, <1>2, <1>3 DEF Leds!LedInv

\* The front LEDs are not touched by the loops, as long as these stay on the chip.
LEMMA FrontStays ==
  ASSUME Leds!FrontInv, UNCHANGED leds_power, Leds!Overrun => Leds!Overrun', NEW c \in Leds!LevelChannel,
         \A b \in Leds!Channel \ {c} : Leds!LitAt(b)' <=> Leds!LitAt(b)
  PROVE  Leds!FrontInv'
<1>1. {8, 9} \subseteq Leds!Channel \ {c}
  BY DEF Leds!Channel, Leds!LevelChannel
<1> QED BY <1>1 DEF Leds!FrontInv

LEMMA LedsStart ==
  ASSUME Leds!LedInv, Leds!Start
  PROVE  Leds!LedInv'
<1> USE DEF Leds!LedInv
<1>a. ~Leds!Overrun
  BY DEF Leds!Overrun, Leds!Start
<1>0. leds_pc = "start" /\ leds_i \in 0 .. 7 /\ leds_shown = 0
  BY DEF Leds!Start, Leds!StartInv, Leds!LedType
<1>1. PICK n \in 0 .. 7 : leds_i = n
  BY <1>0
<1>2. n \in Leds!Channel /\ n \in Leds!LevelChannel
  BY DEF Leds!Channel, Leds!LevelChannel
<1>3. /\ leds_pwm' \in [Leds!Channel -> {0, Leds!PWM_LEVEL, Leds!PWM_FRONT}]
      /\ leds_control' \in [Leds!Channel -> BOOLEAN]
      /\ ~Leds!LitAt(n)'
      /\ \A b \in Leds!Channel \ {n} : Leds!LitAt(b)' <=> Leds!LitAt(b)
  <2>1. Leds!WriteLed(n, 0, FALSE)
    BY <1>1, Zenon DEF Leds!Start
  <2>2. 0 \in {0, Leds!PWM_LEVEL} /\ FALSE \in BOOLEAN
    OBVIOUS
  <2> QED BY <1>2, <2>1, <2>2, WriteLedFacts
<1>4. UNCHANGED <<leds_level, leds_n_led, leds_shown, leds_power>>
  BY DEF Leds!Start
<1>5. \A c \in Leds!LevelChannel : c <= n => ~Leds!LitAt(c)'
  <2> SUFFICES ASSUME NEW c \in Leds!LevelChannel, c <= n PROVE ~Leds!LitAt(c)'
    OBVIOUS
  <2>1. CASE c = n
    BY <2>1, <1>3
  <2>2. CASE c # n
    <3>1. c \in Leds!Channel \ {n} /\ c < n
      BY <2>2, <1>1 DEF Leds!Channel, Leds!LevelChannel
    <3> QED BY <3>1, <1>0, <1>1, <1>3 DEF Leds!StartInv
  <2> QED BY <2>1, <2>2
<1>6. CASE n < 7
  <2>1. leds_pc' = "start" /\ leds_i' = leds_i + 1
    BY <1>0, <1>1, <1>6 DEF Leds!Start
  <2>2. Leds!LedType'
    BY <1>1, <1>3, <1>4, <2>1 DEF Leds!LedType
  <2>3. Leds!StartInv'
    BY <1>0, <1>1, <1>4, <1>5, <1>6, <2>1 DEF Leds!StartInv, Leds!LevelChannel
  <2> QED BY <2>1, <2>2, <2>3, <1>2, <1>3, <1>4, <1>a, FrontStays DEF Leds!RestInv, Leds!LoopInv
<1>7. CASE n = 7
  <2>1. leds_pc' = "front" /\ leds_i' = 0
    BY <1>1, <1>7 DEF Leds!Start
  <2>2. Leds!LedType'
    BY <1>1, <1>3, <1>4, <2>1 DEF Leds!LedType
  <2>3. Leds!RestInv'
    <3> SUFFICES ASSUME NEW c \in Leds!LevelChannel
                 PROVE  Leds!LitAt(c)' <=> c \in Leds!Bar(leds_shown')
      BY DEF Leds!RestInv
    <3>1. ~Leds!LitAt(c)'
      BY <1>5, <1>7 DEF Leds!LevelChannel
    <3>2. 0 \in Leds!UInt8 /\ Leds!Lights(0) = 0
      BY DEF Leds!Lights, Leds!UInt8
    <3>3. c \notin Leds!Bar(0)
      BY <3>2, InBar DEF Leds!LevelChannel
    <3> QED BY <3>1, <3>3, <1>0, <1>4
  <2> QED BY <2>1, <2>2, <2>3, <1>2, <1>3, <1>4, <1>a, FrontStays DEF Leds!StartInv, Leds!LoopInv
<1> QED BY <1>0, <1>1, <1>6, <1>7

LEMMA LedsSetFrontLed ==
  ASSUME Leds!LedInv, NEW on \in BOOLEAN, Leds!SetFrontLed(on)
  PROVE  Leds!LedInv'
<1> USE DEF Leds!LedInv, Leds!SetFrontLed
<1>1. /\ leds_pwm' \in [Leds!Channel -> {0, Leds!PWM_LEVEL, Leds!PWM_FRONT}]
      /\ leds_control' \in [Leds!Channel -> BOOLEAN]
  BY DEF Leds!LedType
<1>2. \A c \in Leds!LevelChannel : Leds!LitAt(c)' <=> Leds!LitAt(c)
  BY DEF Leds!LedType, Leds!LevelChannel, Leds!Channel, Leds!LitAt
<1>3. leds_pc = "front" /\ leds_pc' = "level" /\ leds_power' = (IF on THEN "on" ELSE "off")
  OBVIOUS
<1>4. UNCHANGED <<leds_i, leds_n_led, leds_level, leds_shown>>
  OBVIOUS
<1>5. (Leds!LitAt(9)' <=> on) /\ (Leds!LitAt(8)' <=> ~on)
  <2>1. 8 \in Leds!Channel /\ 9 \in Leds!Channel
    BY DEF Leds!Channel
  <2>2. leds_control'[9] = on /\ leds_control'[8] = ~on
    BY <2>1 DEF Leds!LedType
  <2>3. leds_pwm'[9] = (IF on THEN 40 ELSE 0) /\ leds_pwm'[8] = (IF on THEN 0 ELSE 40)
    BY <2>1 DEF Leds!LedType, Leds!PWM_FRONT
  <2>4. (leds_pwm'[9] > 0 <=> on) /\ (leds_pwm'[8] > 0 <=> ~on)
    BY <2>3
  <2> QED BY <2>2, <2>4, Zenon DEF Leds!LitAt
<1>6. Leds!FrontInv'
  BY <1>3, <1>5 DEF Leds!FrontInv
<1>7. Leds!LedType'
  BY <1>1, <1>3, <1>4 DEF Leds!LedType
<1>8. Leds!RestInv'
  BY <1>2, <1>3, <1>4 DEF Leds!RestInv
<1> QED BY <1>3, <1>6, <1>7, <1>8 DEF Leds!StartInv, Leds!LoopInv

LEMMA LedsSetLevelLed ==
  ASSUME Leds!LedInv, NEW lvl \in Leds!UInt8, Leds!SetLevelLed(lvl)
  PROVE  Leds!LedInv'
<1> USE DEF Leds!LedInv, Leds!SetLevelLed
<1>1. leds_pc = "level" /\ leds_pc' = "loop" /\ leds_i' = 0 /\ leds_level' = lvl
  OBVIOUS
<1>2. UNCHANGED <<leds_pwm, leds_control, leds_shown, leds_power>>
  BY DEF Leds!ledVars
<1>3. Leds!LedType'
  <2>1. leds_n_led' \in 0 .. 20
    BY LightsRange
  <2> QED BY <1>1, <1>2, <2>1 DEF Leds!LedType
<1>4. Leds!LoopInv'
  <2>1. \A c \in Leds!LevelChannel : Leds!LitAt(c)' <=> c \in Leds!Bar(leds_shown)
    BY <1>1, <1>2 DEF Leds!RestInv, Leds!LitAt
  <2>2. \A c \in Leds!LevelChannel : ~(7 - c < 0)
    BY DEF Leds!LevelChannel
  <2>3. (leds_led_status = (Leds!Lights(leds_level) > 0))'
    BY <1>1 DEF Leds!Lights
  <2> QED BY <1>1, <1>2, <2>1, <2>2, <2>3 DEF Leds!LoopInv
<1>5. Leds!FrontInv'
  <2>1. ~Leds!Overrun
    BY <1>1 DEF Leds!Overrun
  <2> QED BY <1>2, <2>1 DEF Leds!FrontInv, Leds!LitAt
<1> QED BY <1>1, <1>3, <1>4, <1>5 DEF Leds!StartInv, Leds!RestInv

\* One iteration of either loop: the LED it writes shows the new level.
LEMMA LedsLoopStep ==
  ASSUME Leds!LedInv, leds_pc = "loop", NEW n \in 0 .. 7, leds_i = n, leds_i' = n + 1,
         NEW duty \in {0, Leds!PWM_LEVEL}, NEW on \in BOOLEAN, Leds!WriteLed(7 - n, duty, on),
         (on /\ duty > 0) <=> n < Leds!Lights(leds_level),
         UNCHANGED <<leds_pc, leds_n_led, leds_led_status, leds_level, leds_shown, leds_power>>
  PROVE  Leds!LedInv'
<1> USE DEF Leds!LedInv
<1>1. 7 - n \in Leds!Channel /\ 7 - n \in Leds!LevelChannel
  BY DEF Leds!Channel, Leds!LevelChannel
<1>2. /\ leds_pwm' \in [Leds!Channel -> {0, Leds!PWM_LEVEL, Leds!PWM_FRONT}]
      /\ leds_control' \in [Leds!Channel -> BOOLEAN]
      /\ Leds!LitAt(7 - n)' <=> on /\ duty > 0
      /\ \A b \in Leds!Channel \ {7 - n} : Leds!LitAt(b)' <=> Leds!LitAt(b)
  BY <1>1, WriteLedFacts
<1>3. Leds!LedType'
  BY <1>2 DEF Leds!LedType
<1>4. Leds!FrontInv'
  <2>1. ~Leds!Overrun
    BY DEF Leds!Overrun
  <2> QED BY <1>1, <1>2, <2>1, FrontStays
<1>5. ASSUME NEW c \in Leds!LevelChannel
      PROVE  Leds!LitAt(c)' <=> c \in Leds!Bar(IF 7 - c < n + 1 THEN leds_level ELSE leds_shown)
  <2>1. CASE c = 7 - n
    <3>1. c \in Leds!Bar(leds_level) <=> n < Leds!Lights(leds_level)
      BY <2>1, <1>1, InBar DEF Leds!LedType, Leds!LevelChannel
    <3> QED BY <2>1, <3>1, <1>2
  <2>2. CASE c # 7 - n
    <3>1. c \in Leds!Channel \ {7 - n} /\ (7 - c < n + 1 <=> 7 - c < n)
      BY <2>2 DEF Leds!Channel, Leds!LevelChannel
    <3>2. Leds!LitAt(c) <=> c \in Leds!Bar(IF 7 - c < n THEN leds_level ELSE leds_shown)
      BY DEF Leds!LoopInv
    <3> QED BY <1>2, <3>1, <3>2
  <2> QED BY <2>1, <2>2
<1>6. Leds!LoopInv'
  BY <1>5 DEF Leds!LoopInv
<1> QED BY <1>3, <1>4, <1>6 DEF Leds!StartInv, Leds!RestInv

\* Past the eighth LED all are lit already, and a write that lands in one leaves
\* it lit.
LEMMA LedsBeyond ==
  ASSUME Leds!LedInv, Leds!LightLed, ~(leds_i < 8)
  PROVE  Leds!LedInv'
<1> USE DEF Leds!LedInv, Leds!LightLed
<1>1. leds_pc = "loop" /\ leds_i \in 8 .. 20 /\ leds_n_led \in 0 .. 20 /\ leds_i < leds_n_led
  BY DEF Leds!LedType
<1>2. UNCHANGED <<leds_pc, leds_n_led, leds_led_status, leds_level, leds_shown, leds_power>>
      /\ leds_i' = leds_i + 1
  OBVIOUS
<1>3. leds_level \in Leds!UInt8 /\ leds_n_led = Leds!Lights(leds_level) /\ leds_led_status = TRUE
  <2>1. leds_level \in Leds!UInt8 /\ leds_level # 0
    BY <1>1 DEF Leds!LoopInv, Leds!LedType
  <2>2. leds_n_led = Leds!Lights(leds_level) /\ Leds!Lights(leds_level) > 0
    BY <1>1, <2>1 DEF Leds!LoopInv
  <2>3. leds_led_status = (Leds!Lights(leds_level) > 0)
    BY DEF Leds!LoopInv
  <2> QED BY <2>1, <2>2, <2>3
<1>4. \A c \in Leds!LevelChannel : Leds!LitAt(c) /\ c \in Leds!Bar(leds_level)
  <2> SUFFICES ASSUME NEW c \in Leds!LevelChannel
               PROVE  Leds!LitAt(c) /\ c \in Leds!Bar(leds_level)
    OBVIOUS
  <2>1. c \in 0 .. 7 /\ 7 - c < leds_i /\ 7 - c < Leds!Lights(leds_level)
    BY <1>1, <1>3 DEF Leds!LevelChannel
  <2> QED BY <1>1, <1>3, <2>1, InBar DEF Leds!LoopInv
<1>5. /\ leds_pwm' \in [Leds!Channel -> {0, Leds!PWM_LEVEL, Leds!PWM_FRONT}]
      /\ leds_control' \in [Leds!Channel -> BOOLEAN]
      /\ \A c \in Leds!LevelChannel : Leds!LitAt(c)'
  <2>1. CASE UNCHANGED Leds!ledVars
    BY <2>1, <1>4 DEF Leds!ledVars, Leds!LedType, Leds!LitAt
  <2>2. CASE \E c, d \in Leds!Channel :
               /\ leds_pwm' = [leds_pwm EXCEPT ![c] = Leds!PWM_LEVEL]
               /\ leds_control' = [leds_control EXCEPT ![d] = leds_led_status]
    <3>1. PICK c, d \in Leds!Channel :
               /\ leds_pwm' = [leds_pwm EXCEPT ![c] = Leds!PWM_LEVEL]
               /\ leds_control' = [leds_control EXCEPT ![d] = TRUE]
      BY <2>2, <1>3
    <3>2. \A b \in Leds!Channel : /\ leds_pwm'[b] \in {leds_pwm[b], 100}
                                 /\ leds_control'[b] \in {leds_control[b], TRUE}
      BY <3>1 DEF Leds!LedType, Leds!PWM_LEVEL
    <3>3. \A b \in Leds!LevelChannel : b \in Leds!Channel
      BY DEF Leds!Channel, Leds!LevelChannel
    <3>4. ASSUME NEW b \in Leds!LevelChannel PROVE Leds!LitAt(b)'
      <4>1. leds_control[b] /\ leds_pwm[b] > 0 /\ b \in Leds!Channel
        BY <3>3, <1>4 DEF Leds!LitAt
      <4>2. leds_pwm'[b] > 0
        <5>1. leds_pwm'[b] = leds_pwm[b] \/ leds_pwm'[b] = 100
          BY <3>2, <4>1
        <5> QED BY <4>1, <5>1
      <4>3. leds_control'[b]
        <5>1. leds_control'[b] = leds_control[b] \/ leds_control'[b] = TRUE
          BY <3>2, <4>1
        <5> QED BY <4>1, <5>1
      <4> QED BY <4>2, <4>3 DEF Leds!LitAt
    <3> QED BY <3>1, <3>4 DEF Leds!LedType
  <2> QED BY <1>1, <2>1, <2>2 DEF Leds!WriteBeyond
<1>6. Leds!LedType'
  BY <1>1, <1>2, <1>5 DEF Leds!LedType
<1>7. Leds!LoopInv'
  <2>1. \A c \in Leds!LevelChannel : 7 - c < leds_i'
    BY <1>1, <1>2 DEF Leds!LevelChannel
  <2> QED BY <1>2, <1>4, <1>5, <2>1 DEF Leds!LoopInv
<1>8. Leds!FrontInv'
  BY <1>1, <1>2 DEF Leds!FrontInv, Leds!Overrun
<1> QED BY <1>1, <1>2, <1>6, <1>7, <1>8 DEF Leds!StartInv, Leds!RestInv

LEMMA LedsLightLed ==
  ASSUME Leds!LedInv, Leds!LightLed
  PROVE  Leds!LedInv'
<1> USE DEF Leds!LedInv, Leds!LightLed
<1>1. leds_level \in Leds!UInt8 /\ Leds!Lights(leds_level) \in 0 .. 20
  BY LightsRange DEF Leds!LedType
<1>2. /\ leds_led_status <=> Leds!Lights(leds_level) > 0
      /\ leds_n_led = IF leds_level = 0 THEN 8 ELSE Leds!Lights(leds_level)
  BY DEF Leds!LoopInv
<1>a. CASE ~(leds_i < 8)
  BY <1>a, LedsBeyond
<1>b. CASE leds_i < 8
  <2>3. PICK n \in 0 .. 7 : leds_i = n
    BY <1>b DEF Leds!LedType
  <2>4. PICK on \in BOOLEAN : leds_led_status = on
    <3>1. leds_led_status = (Leds!Lights(leds_level) > 0)
      BY DEF Leds!LoopInv
    <3>2. (Leds!Lights(leds_level) > 0) \in BOOLEAN
      OBVIOUS
    <3> QED BY <3>1, <3>2, Zenon
  <2>5. Leds!WriteLed(7 - n, Leds!PWM_LEVEL, on)
    BY <1>b, <2>3, <2>4
  <2>6. on /\ Leds!PWM_LEVEL > 0 <=> n < Leds!Lights(leds_level)
    <3>1. Leds!PWM_LEVEL > 0 /\ Leds!Lights(0) = 0
      BY DEF Leds!PWM_LEVEL, Leds!Lights
    <3> QED BY <1>1, <1>2, <2>3, <2>4, <3>1
  <2> QED BY <2>3, <2>5, <2>6, LedsLoopStep
<1> QED BY <1>a, <1>b

LEMMA LedsClearLed ==
  ASSUME Leds!LedInv, Leds!ClearLed
  PROVE  Leds!LedInv'
<1> USE DEF Leds!LedInv, Leds!ClearLed
<1>1. leds_level \in Leds!UInt8 /\ Leds!Lights(leds_level) \in 0 .. 20
  BY LightsRange DEF Leds!LedType
<1>2. leds_n_led = IF leds_level = 0 THEN 8 ELSE Leds!Lights(leds_level)
  BY DEF Leds!LoopInv
<1>3. PICK n \in 0 .. 7 : leds_i = n
  BY DEF Leds!LedType
<1>4. PICK on \in BOOLEAN : (~leds_led_status) = on
  OBVIOUS
<1>5. Leds!WriteLed(7 - n, 0, on)
  BY <1>3, <1>4
<1>6. on /\ 0 > 0 <=> n < Leds!Lights(leds_level)
  BY <1>1, <1>2, <1>3
<1> QED BY <1>3, <1>5, <1>6, LedsLoopStep

LEMMA LedsLevelDone ==
  ASSUME Leds!LedInv, Leds!LevelDone
  PROVE  Leds!LedInv'
<1> USE DEF Leds!LedInv, Leds!LevelDone
<1>1. /\ leds_pc = "loop" /\ leds_i \in 8 .. 20 /\ leds_n_led \in 0 .. 20 /\ leds_i >= leds_n_led
      /\ leds_pc' = "front" /\ leds_i' = 0 /\ leds_shown' = leds_level
  BY DEF Leds!LedType
<1>2. UNCHANGED <<leds_pwm, leds_control, leds_n_led, leds_level, leds_power>>
  BY DEF Leds!ledVars
<1>3. Leds!LedType'
  BY <1>1, <1>2 DEF Leds!LedType
<1>4. Leds!RestInv'
  <2>1. \A c \in Leds!LevelChannel : 7 - c < leds_i
    BY <1>1 DEF Leds!LevelChannel
  <2> QED BY <1>1, <1>2, <2>1 DEF Leds!LoopInv, Leds!RestInv, Leds!LitAt
<1>5. Leds!FrontInv'
  <2>1. Leds!Overrun => Leds!Overrun'
    BY <1>1, <1>2 DEF Leds!Overrun
  <2> QED BY <1>2, <2>1 DEF Leds!FrontInv, Leds!LitAt
<1> QED BY <1>1, <1>3, <1>4, <1>5 DEF Leds!StartInv, Leds!LoopInv

LEMMA LedsStay ==
  ASSUME Leds!LedInv, UNCHANGED ledsVars
  PROVE  Leds!LedInv'
BY DEF ledsVars, Leds!LedInv, Leds!LedType, Leds!StartInv, Leds!RestInv, Leds!LoopInv,
       Leds!FrontInv, Leds!Overrun, Leds!LitAt

\* set_level_led, set_front_led and start: whatever uint8_t levels and power states
\* come in whatever order, the bar between two refreshes is that of the last level, a
\* refresh does not flicker, and the front shows the power state unless the loop has
\* gone beyond the eight LEDs since it was last set.
THEOREM BarTheorem == Spec => []BarShowsLevel
<1>1. Init => Leds!LedInv
  BY InitOfParts, LedsInit
<1>2. Leds!LedInv /\ [Next]_vars => Leds!LedInv'
  <2>1. \A lvl \in LedLevels : lvl \in Leds!UInt8
    BY BoardAssumptions DEF BoardAssumptions, Leds!LevelsAssumption
  <2> QED BY <2>1, StepOfPart, LedsStart, LedsSetFrontLed, LedsSetLevelLed, LedsLightLed,
             LedsClearLed, LedsLevelDone, LedsStay DEF Leds!Next
<1>3. Leds!LedInv => BarShowsLevel
  <2> SUFFICES ASSUME Leds!LedInv
               PROVE  Leds!BarShowsLevel /\ Leds!NoFlicker /\ Leds!FrontShowsPower
    BY DEF BarShowsLevel
  <2> USE DEF Leds!LedInv
  <2>1. \A c \in Leds!Channel : c \in Leds!Lit <=> Leds!LitAt(c)
    BY DEF Leds!Lit, Leds!LitAt
  <2>2. Leds!LevelChannel \subseteq Leds!Channel
    BY DEF Leds!LevelChannel, Leds!Channel
  <2>3. \A lvl \in Leds!UInt8 : Leds!Bar(lvl) \subseteq Leds!LevelChannel
    BY DEF Leds!Bar
  <2>4. Leds!BarShowsLevel
    BY <2>1, <2>2, <2>3 DEF Leds!BarShowsLevel, Leds!RestInv, Leds!LedType
  <2>5. Leds!NoFlicker
    <3> SUFFICES ASSUME leds_pc = "loop"
                 PROVE  /\ Leds!Bar(leds_shown) \cap Leds!Bar(leds_level) \subseteq Leds!Lit
                        /\ Leds!Lit \cap Leds!LevelChannel \subseteq Leds!Bar(leds_shown) \cup Leds!Bar(leds_level)
      BY DEF Leds!NoFlicker
    <3>1. \A c \in Leds!LevelChannel :
            \/ Leds!LitAt(c) <=> c \in Leds!Bar(leds_level)
            \/ Leds!LitAt(c) <=> c \in Leds!Bar(leds_shown)
      BY DEF Leds!LoopInv
    <3> QED BY <3>1, <2>1, <2>2, <2>3 DEF Leds!LedType
  <2>6. Leds!FrontShowsPower
    <3>1. Leds!Channel \ Leds!LevelChannel = {8, 9} /\ Leds!Lit \subseteq Leds!Channel
      BY DEF Leds!Channel, Leds!LevelChannel, Leds!Lit
    <3> QED BY <3>1, <2>1 DEF Leds!FrontShowsPower, Leds!FrontInv, Leds!LedType
  <2> QED BY <2>4, <2>5, <2>6
<1> QED BY <1>1, <1>2, <1>3, PTL DEF Spec

-----------------------------------------------------------------------------
(* The debounces.                                                          *)

LEMMA DebounceConstants ==
  /\ Modulus \in Nat /\ DEBOUNCE_TIME \in Nat /\ DEBOUNCE_TIME_TOUCH \in Nat /\ PollTicks \in Nat
  /\ PollTicks > 0 /\ DEBOUNCE_TIME < Modulus - 1 /\ DEBOUNCE_TIME_TOUCH + PollTicks < Modulus
BY BoardAssumptions DEF BoardAssumptions, Debounced!DebounceAssumption

\* The remainder in the ranges the counter is used in.
LEMMA ModFact ==
  ASSUME NEW m \in Nat, m > 0, NEW x \in Int
  PROVE  /\ x \in 0 .. m - 1 => x % m = x
         /\ x \in -m .. -1 => x % m = x + m
         /\ x = m => x % m = 0
OBVIOUS

\* The difference of two ticks, without the remainder.
LEMMA ElapsedFact ==
  ASSUME NEW now \in 0 .. Modulus - 1, NEW old \in 0 .. Modulus - 1
  PROVE  (now - old) % Modulus = IF now >= old THEN now - old ELSE now - old + Modulus
BY DebounceConstants, ModFact

LEMMA NextTickFact ==
  ASSUME NEW now \in 0 .. Modulus - 1
  PROVE  (now + 1) % Modulus = IF now + 1 = Modulus THEN 0 ELSE now + 1
BY DebounceConstants, ModFact
\* A tick moves the difference on by one, round the counter.
LEMMA ElapsedTick ==
  ASSUME NEW now \in 0 .. Modulus - 1, NEW old \in 0 .. Modulus - 1
  PROVE  /\ (now - old) % Modulus \in 0 .. Modulus - 1
         /\ (now + 1) % Modulus \in 0 .. Modulus - 1
         /\ (((now + 1) % Modulus) - old) % Modulus
              = IF ((now - old) % Modulus) + 1 = Modulus THEN 0 ELSE ((now - old) % Modulus) + 1
<1> DEFINE next == (now + 1) % Modulus
<1>1. next \in 0 .. Modulus - 1 /\ next = IF now + 1 = Modulus THEN 0 ELSE now + 1
  BY DebounceConstants, NextTickFact
<1> HIDE DEF next
<1>2. (now - old) % Modulus = IF now >= old THEN now - old ELSE now - old + Modulus
  BY ElapsedFact
<1>3. (next - old) % Modulus = IF next >= old THEN next - old ELSE next - old + Modulus
  BY <1>1, ElapsedFact
<1>4. (next - old) % Modulus = IF ((now - old) % Modulus) + 1 = Modulus THEN 0 ELSE ((now - old) % Modulus) + 1
  BY <1>1, <1>2, <1>3, DebounceConstants
<1>5. (now - old) % Modulus \in 0 .. Modulus - 1
  BY <1>2, DebounceConstants
<1> QED BY <1>1, <1>4, <1>5 DEF next

LEMMA ElapsedZero ==
  ASSUME NEW now \in 0 .. Modulus - 1
  PROVE  (now - now) % Modulus = 0
BY ElapsedFact

LEMMA DebounceInit ==
  ASSUME Debounced!Init
  PROVE  Debounced!DebounceInv
<1> USE DebounceConstants DEF Debounced!Init
<1>1. Debounced!DebounceType
  BY DEF Debounced!DebounceType, Debounced!Horizon, Debounced!None
<1>2. Debounced!ClockInv
  BY ElapsedZero DEF Debounced!ClockInv, Debounced!Elapsed
<1>3. Debounced!WaitInv
  BY DEF Debounced!WaitInv
<1> QED BY <1>1, <1>2, <1>3 DEF Debounced!DebounceInv

LEMMA DebounceEdge ==
  ASSUME Debounced!DebounceInv, Debounced!Edge
  PROVE  Debounced!DebounceInv'
<1> USE DebounceConstants DEF Debounced!DebounceInv, Debounced!Edge
<1>1. Debounced!DebounceType'
  BY DEF Debounced!DebounceType, Debounced!Horizon
<1>2. Debounced!ClockInv'
  BY ElapsedZero DEF Debounced!DebounceType, Debounced!ClockInv, Debounced!Elapsed
<1>3. Debounced!WaitInv'
  BY DEF Debounced!WaitInv, Debounced!Elapsed
<1> QED BY <1>1, <1>2, <1>3

LEMMA DebounceTouchChange ==
  ASSUME Debounced!DebounceInv, Debounced!TouchChange
  PROVE  Debounced!DebounceInv'
<1> USE DebounceConstants DEF Debounced!DebounceInv, Debounced!TouchChange
<1>1. Debounced!DebounceType'
  BY DEF Debounced!DebounceType, Debounced!Horizon
<1>2. Debounced!ClockInv'
  BY DEF Debounced!ClockInv, Debounced!Elapsed
<1>3. Debounced!WaitInv'
  BY DEF Debounced!DebounceType, Debounced!WaitInv
<1> QED BY <1>1, <1>2, <1>3

LEMMA DebouncePoll ==
  ASSUME Debounced!DebounceInv, Debounced!Poll
  PROVE  Debounced!DebounceInv'
<1> USE DebounceConstants DEF Debounced!DebounceInv, Debounced!Poll
<1>1. Debounced!DebounceType'
  BY DEF Debounced!DebounceType, Debounced!Horizon
<1>2. Debounced!ClockInv'
  BY ElapsedZero DEF Debounced!DebounceType, Debounced!ClockInv, Debounced!Elapsed
<1>3. Debounced!WaitInv'
  <2> SUFFICES ASSUME debounce_waiting' # Debounced!None PROVE Debounced!WaitInv'
    BY DEF Debounced!WaitInv
  <2>1. /\ ~Debounced!Passed(debounce_old_tick_touch, DEBOUNCE_TIME_TOUCH)
        /\ UNCHANGED <<debounce_now, debounce_old_tick_touch, debounce_waiting>>
    OBVIOUS
  <2>2. Debounced!Elapsed(debounce_old_tick_touch) \in 0 .. Modulus - 1
    BY ElapsedTick DEF Debounced!DebounceType, Debounced!Elapsed
  <2>3. Debounced!Elapsed(debounce_old_tick_touch) <= DEBOUNCE_TIME_TOUCH
    BY <2>1, <2>2 DEF Debounced!Passed, Debounced!Elapsed
  <2>4. (Debounced!Elapsed(debounce_old_tick_touch))' = Debounced!Elapsed(debounce_old_tick_touch)
    BY <2>1 DEF Debounced!Elapsed
  <2>5. debounce_waiting <= Debounced!Elapsed(debounce_old_tick_touch) + PollTicks
    BY <2>1, <2>2 DEF Debounced!DebounceType, Debounced!WaitInv, Debounced!None
  <2> QED BY <2>1, <2>2, <2>3, <2>4, <2>5 DEF Debounced!WaitInv
<1> QED BY <1>1, <1>2, <1>3

LEMMA DebounceTick ==
  ASSUME Debounced!DebounceInv, Debounced!Tick
  PROVE  Debounced!DebounceInv'
<1> USE DebounceConstants DEF Debounced!DebounceInv
<1>0. /\ debounce_now \in 0 .. Modulus - 1 /\ debounce_old_tick_btn \in 0 .. Modulus - 1
      /\ debounce_old_tick_touch \in 0 .. Modulus - 1
      /\ debounce_now' = (debounce_now + 1) % Modulus
      /\ UNCHANGED <<debounce_old_tick_btn, debounce_old_tick_touch>>
  BY DEF Debounced!Tick, Debounced!DebounceType
<1>1. Debounced!DebounceType'
  <2>1. debounce_now' \in 0 .. Modulus - 1
    BY <1>0, ElapsedTick
  <2>2. {debounce_sinceEdge', debounce_sinceRead'} \subseteq 0 .. 2 * Modulus
    BY DEF Debounced!Tick, Debounced!DebounceType, Debounced!Horizon
  <2>3. debounce_waiting' \in Nat \cup {Debounced!None} /\ debounce_nextPoll' \in 0 .. PollTicks
    BY DEF Debounced!Tick, Debounced!DebounceType
  <2> QED BY <1>0, <2>1, <2>2, <2>3 DEF Debounced!DebounceType, Debounced!Horizon
<1> DEFINE Next1(r) == IF r + 1 = Modulus THEN 0 ELSE r + 1
<1>2. /\ Debounced!Elapsed(debounce_old_tick_btn) \in 0 .. Modulus - 1
      /\ (Debounced!Elapsed(debounce_old_tick_btn))' = Next1(Debounced!Elapsed(debounce_old_tick_btn))
  BY <1>0, ElapsedTick DEF Debounced!Elapsed
<1>3. /\ Debounced!Elapsed(debounce_old_tick_touch) \in 0 .. Modulus - 1
      /\ (Debounced!Elapsed(debounce_old_tick_touch))' = Next1(Debounced!Elapsed(debounce_old_tick_touch))
  BY <1>0, ElapsedTick DEF Debounced!Elapsed
<1>4. Debounced!ClockInv'
  BY <1>2, <1>3 DEF Debounced!Tick, Debounced!DebounceType, Debounced!ClockInv, Debounced!Horizon
<1>5. Debounced!WaitInv'
  BY <1>3 DEF Debounced!Tick, Debounced!DebounceType, Debounced!WaitInv, Debounced!None
<1> QED BY <1>1, <1>4, <1>5

LEMMA DebounceStay ==
  ASSUME Debounced!DebounceInv, UNCHANGED debounceVars
  PROVE  Debounced!DebounceInv'
BY DEF debounceVars, Debounced!DebounceInv, Debounced!DebounceType, Debounced!ClockInv,
       Debounced!WaitInv, Debounced!Elapsed

\* buttonCb and sliderTask: for all windows and poll periods that fit in the counter,
\* a bounce is never a press and a press within one turn of the counter never a
\* bounce; a changed touch waits for the rest of its window and two polls at most.
THEOREM DebounceTheorem == Spec => EdgesAreJudged
<1>1. Init => Debounced!DebounceInv
  BY InitOfParts, DebounceInit
<1>2. Debounced!DebounceInv /\ [Next]_vars => Debounced!DebounceInv'
  BY StepOfPart, DebounceEdge, DebounceTouchChange, DebouncePoll, DebounceTick, DebounceStay
     DEF Debounced!Next
<1>3. Debounced!DebounceInv /\ [Next]_vars
        => [Debounced!Edge => /\ debounce_sinceEdge <= DEBOUNCE_TIME => ~debounce_pressed'
                              /\ DEBOUNCE_TIME < debounce_sinceEdge /\ debounce_sinceEdge < Modulus
                                   => debounce_pressed']_(Debounced!vars)
  <2> SUFFICES ASSUME Debounced!DebounceInv, Debounced!Edge
               PROVE  /\ debounce_sinceEdge <= DEBOUNCE_TIME => ~debounce_pressed'
                      /\ DEBOUNCE_TIME < debounce_sinceEdge /\ debounce_sinceEdge < Modulus
                           => debounce_pressed'
    OBVIOUS
  <2>1. debounce_pressed' <=> Debounced!Elapsed(debounce_old_tick_btn) > DEBOUNCE_TIME
    BY DEF Debounced!Edge, Debounced!Passed, Debounced!Elapsed
  <2> QED BY <2>1, DebounceConstants
          DEF Debounced!DebounceInv, Debounced!DebounceType, Debounced!ClockInv, Debounced!Horizon
<1>4. Debounced!DebounceInv /\ [Next]_vars
        => [debounce_waiting # Debounced!None /\ debounce_waiting' = Debounced!None
              => debounce_sinceRead > DEBOUNCE_TIME_TOUCH]_(Debounced!vars)
  <2> SUFFICES ASSUME Debounced!DebounceInv, [Next]_vars,
                      debounce_waiting # Debounced!None, debounce_waiting' = Debounced!None
               PROVE  debounce_sinceRead > DEBOUNCE_TIME_TOUCH
    OBVIOUS
  <2>1. Debounced!Next
    BY StepOfPart DEF debounceVars
  <2>2. Debounced!Elapsed(debounce_old_tick_touch) > DEBOUNCE_TIME_TOUCH
    BY <2>1 DEF Debounced!Next, Debounced!Edge, Debounced!TouchChange, Debounced!Poll, Debounced!Tick,
                Debounced!Passed, Debounced!Elapsed, Debounced!DebounceInv, Debounced!DebounceType,
                Debounced!None
  <2> QED BY <2>2, DebounceConstants
          DEF Debounced!DebounceInv, Debounced!DebounceType, Debounced!ClockInv, Debounced!Horizon
<1>5. Debounced!DebounceInv => Debounced!TouchWaitIsBounded
  <2> SUFFICES ASSUME Debounced!DebounceInv PROVE Debounced!TouchWaitIsBounded
    OBVIOUS
  <2>1. Debounced!Elapsed(debounce_old_tick_touch) \in 0 .. Modulus - 1
    BY ElapsedTick DEF Debounced!DebounceInv, Debounced!DebounceType, Debounced!Elapsed
  <2> QED BY <2>1, DebounceConstants
          DEF Debounced!DebounceInv, Debounced!DebounceType, Debounced!WaitInv,
              Debounced!TouchWaitIsBounded, Debounced!None
<1> QED BY <1>1, <1>2, <1>3, <1>4, <1>5, PTL
        DEF Spec, EdgesAreJudged, Debounced!EdgesAreJudged, Debounced!ReadsAreApart
-----------------------------------------------------------------------------
(* The push button.                                                        *)

LEMMA ButtonConstants ==
  DebounceTicks \in 1 .. 8 /\ MaxPresses \in 1 .. 255
BY BoardAssumptions DEF BoardAssumptions, Button!ButtonAssumption

LEMMA ButtonInitial ==
  ASSUME Button!Init
  PROVE  Button!ButtonInv
<1> USE ButtonConstants DEF Button!Init
<1>1. Button!ButtonType
  <2>1. button_button_level \in BOOLEAN /\ button_raw \in BOOLEAN
    BY Zenon
  <2> QED BY <2>1 DEF Button!ButtonType
<1>2. Button!CountInv /\ Button!MachineInv
  BY DEF Button!CountInv, Button!MachineInv, Button!Down
<1> QED BY <1>1, <1>2 DEF Button!ButtonInv

\* The debounce of a sample: the level changes only after enough samples against it.
Sampled(level) ==
  /\ button_button_level' \in BOOLEAN /\ button_raw' = level
  /\ button_debounce_cnt' \in 0 .. 7 /\ button_stable' \in 0 .. 8
  /\ Button!CountInv'
  /\ button_button_level' # button_button_level
       => button_stable' >= DebounceTicks /\ button_button_level' = level
  /\ button_presses = MaxPresses => ~level

LEMMA SampleFacts ==
  ASSUME Button!ButtonInv, NEW level \in BOOLEAN, Button!Sample(level)
  PROVE  Sampled(level)
<1> USE DEF Sampled
<1> USE ButtonConstants DEF Button!ButtonInv, Button!ButtonType, Button!Sample
<1>0. button_raw' = level /\ (button_presses = MaxPresses => ~level) /\ Button!Debounce(level)
  OBVIOUS
<1>1. Button!NextCount = IF button_debounce_cnt = 7 THEN 0 ELSE button_debounce_cnt + 1
  BY DEF Button!NextCount
<1>2. /\ button_stable' \in 0 .. 8
      /\ level # button_raw => button_stable' = 1
      /\ level = button_raw => button_stable' = IF button_stable < 8 THEN button_stable + 1 ELSE 8
  OBVIOUS
<1>3. CASE level = button_button_level
  <2>1. button_debounce_cnt' = 0 /\ button_button_level' = button_button_level
    BY <1>0, <1>3 DEF Button!Debounce, Button!AgreeingSample
  <2> QED BY <1>0, <1>2, <2>1 DEF Button!CountInv
<1>4. CASE level # button_button_level
  <2>1. button_debounce_cnt > 0 => level = button_raw
    BY <1>4 DEF Button!CountInv
  <2>2. button_stable' >= Button!NextCount
    BY <1>1, <1>2, <2>1 DEF Button!CountInv
  <2>3. CASE Button!NextCount >= DebounceTicks
    <3>1. button_debounce_cnt' = 0 /\ button_button_level' = level
      BY <1>0, <1>4, <2>3 DEF Button!Debounce
    <3>2. button_stable' >= DebounceTicks
      BY <1>1, <1>2, <2>2, <2>3
    <3> QED BY <1>0, <1>2, <3>1, <3>2 DEF Button!CountInv
  <2>4. CASE ~(Button!NextCount >= DebounceTicks)
    <3>1. button_debounce_cnt' = Button!NextCount /\ button_button_level' = button_button_level
      BY <1>0, <1>4, <2>4 DEF Button!Debounce
    <3> QED BY <1>0, <1>1, <1>2, <1>4, <2>2, <3>1 DEF Button!CountInv
  <2> QED BY <2>3, <2>4
<1> QED BY <1>3, <1>4

\* The callbacks the properties are about.
Named == {"PRESS_DOWN", "PRESS_UP", "PRESS_REPEAT_DONE", "SINGLE_CLICK", "DOUBLE_CLICK"}

\* The callbacks of a scan match the change of the machine and the presses counted.
CallsMatch ==
  /\ Button!Contains(button_calls', "PRESS_DOWN") <=> ~Button!Down /\ Button!Down'
  /\ Button!Contains(button_calls', "PRESS_UP") <=> Button!Down /\ ~Button!Down'
  /\ Button!Contains(button_calls', "PRESS_REPEAT_DONE") => ~Button!Down /\ ~button_button_level'
  /\ Button!Contains(button_calls', "SINGLE_CLICK") => button_presses = 1
  /\ Button!Contains(button_calls', "DOUBLE_CLICK") => button_presses = 2
  /\ Button!Contains(button_calls', "PRESS_REPEAT_DONE") => button_repeat = button_presses

LEMMA ButtonIdle ==
  ASSUME Button!ButtonInv, NEW level \in BOOLEAN, Button!Idle(level)
  PROVE  Button!ButtonInv' /\ CallsMatch
<1>1. Sampled(level)
  BY SampleFacts DEF Button!Idle
<1>2. button_state = 0
  BY DEF Button!Idle
<1>3. CASE button_button_level'
  <2>1. /\ button_calls' = <<"PRESS_DOWN">>
        /\ button_repeat' = 1 /\ button_state' = 1 /\ button_presses' = 1
    BY <1>3 DEF Button!Idle
  <2>2. Button!ButtonInv'
    BY <1>1, <1>3, <2>1, ButtonConstants
       DEF Sampled, Button!ButtonInv, Button!ButtonType, Button!MachineInv, Button!Down
  <2>3. \A e \in Named : Button!Contains(button_calls', e) <=> e = "PRESS_DOWN"
    BY <2>1 DEF Named, Button!Contains
  <2> QED BY <1>2, <2>1, <2>2, <2>3 DEF CallsMatch, Named, Button!Down
<1>4. CASE ~button_button_level'
  <2>1. button_calls' = <<>> /\ UNCHANGED <<button_repeat, button_state, button_presses>>
    BY <1>4 DEF Button!Idle
  <2>2. Button!ButtonInv'
    BY <1>1, <1>2, <1>4, <2>1, ButtonConstants
       DEF Sampled, Button!ButtonInv, Button!ButtonType, Button!MachineInv, Button!Down
  <2>3. \A e \in Named : ~Button!Contains(button_calls', e)
    BY <2>1 DEF Named, Button!Contains
  <2> QED BY <1>2, <2>1, <2>2, <2>3 DEF CallsMatch, Named, Button!Down
<1> QED BY <1>3, <1>4

LEMMA ButtonPressed ==
  ASSUME Button!ButtonInv, NEW level \in BOOLEAN, Button!Pressed(level)
  PROVE  Button!ButtonInv' /\ CallsMatch
<1>0. Sampled(level)
  BY SampleFacts DEF Button!Pressed
<1>1. button_state = 1 /\ UNCHANGED <<button_repeat, button_presses>>
  BY DEF Button!Pressed
<1>2. CASE ~button_button_level'
  <2>1. button_calls' = <<"PRESS_UP">> /\ button_state' = 2
    BY <1>2 DEF Button!Pressed
  <2>2. Button!ButtonInv'
    BY <1>0, <1>1, <1>2, <2>1, ButtonConstants
       DEF Sampled, Button!ButtonInv, Button!ButtonType, Button!MachineInv, Button!Down
  <2>3. \A e \in Named : Button!Contains(button_calls', e) <=> e = "PRESS_UP"
    BY <2>1 DEF Named, Button!Contains
  <2> QED BY <1>1, <2>1, <2>2, <2>3 DEF CallsMatch, Named, Button!Down
<1>3. CASE button_button_level'
  <2>1. \/ button_calls' = <<"LONG_PRESS_START">> /\ button_state' = 5
        \/ button_calls' = <<>> /\ button_state' = 1
    BY <1>1, <1>3 DEF Button!Pressed
  <2>2. Button!ButtonInv'
    BY <1>0, <1>1, <1>3, <2>1, ButtonConstants
       DEF Sampled, Button!ButtonInv, Button!ButtonType, Button!MachineInv, Button!Down
  <2>3. \A e \in Named : ~Button!Contains(button_calls', e)
    BY <2>1 DEF Named, Button!Contains
  <2> QED BY <1>1, <2>1, <2>2, <2>3 DEF CallsMatch, Named, Button!Down
<1> QED BY <1>2, <1>3

LEMMA ClicksFacts ==
  ASSUME NEW n \in 0 .. 255
  PROVE  /\ Button!Contains(Button!Clicks(n), "SINGLE_CLICK") <=> n = 1
         /\ Button!Contains(Button!Clicks(n), "DOUBLE_CLICK") <=> n = 2
         /\ ~Button!Contains(Button!Clicks(n), "PRESS_DOWN")
         /\ ~Button!Contains(Button!Clicks(n), "PRESS_UP")
<1>1. Button!Clicks(n) = IF n = 1 THEN <<"SINGLE_CLICK", "PRESS_REPEAT_DONE">>
                         ELSE IF n = 2 THEN <<"DOUBLE_CLICK", "PRESS_REPEAT_DONE">>
                         ELSE <<"PRESS_REPEAT_DONE">>
  BY DEF Button!Clicks
<1>2. CASE n = 1
  BY <1>1, <1>2 DEF Button!Contains
<1>3. CASE n = 2
  BY <1>1, <1>3 DEF Button!Contains
<1>4. CASE n # 1 /\ n # 2
  BY <1>1, <1>4 DEF Button!Contains
<1> QED BY <1>2, <1>3, <1>4

LEMMA ButtonReleased ==
  ASSUME Button!ButtonInv, NEW level \in BOOLEAN, Button!Released(level)
  PROVE  Button!ButtonInv' /\ CallsMatch
<1>0. Sampled(level)
  BY SampleFacts DEF Button!Released
<1>1. button_state = 2
  BY DEF Button!Released
<1>2. ~button_button_level /\ button_repeat = button_presses
  BY <1>1 DEF Button!ButtonInv, Button!MachineInv, Button!Down
<1>3. CASE button_button_level'
  <2>1. /\ button_calls' = <<"PRESS_DOWN", "PRESS_REPEAT">>
        /\ button_repeat' = (button_repeat + 1) % 256
        /\ button_state' = 3 /\ button_presses' = button_presses + 1
    BY <1>3 DEF Button!Released
  <2>2. button_presses < MaxPresses
    <3>1. button_button_level' # button_button_level
      BY <1>2, <1>3
    <3>2. button_presses # MaxPresses
      BY <1>0, <1>3, <3>1 DEF Sampled
    <3> QED BY <3>2, ButtonConstants DEF Button!ButtonInv, Button!ButtonType
  <2>3. button_repeat' = button_presses' /\ button_presses' \in 0 .. MaxPresses /\ button_repeat' \in 0 .. 255
    <3>1. button_presses \in 0 .. 254 /\ button_presses + 1 <= MaxPresses
      BY <2>2, ButtonConstants DEF Button!ButtonInv, Button!ButtonType
    <3>2. (button_presses + 1) % 256 = button_presses + 1
      BY <3>1
    <3> QED BY <1>2, <2>1, <3>1, <3>2, ButtonConstants
  <2>4. Button!ButtonInv'
    BY <1>0, <1>1, <1>3, <2>1, <2>3
       DEF Sampled, Button!ButtonInv, Button!ButtonType, Button!MachineInv, Button!Down
  <2>5. \A e \in Named : Button!Contains(button_calls', e) <=> e = "PRESS_DOWN"
    BY <2>1 DEF Named, Button!Contains
  <2> QED BY <1>1, <2>1, <2>4, <2>5 DEF CallsMatch, Named, Button!Down
<1>4. CASE ~button_button_level'
  <2>1. \/ /\ button_calls' = Button!Clicks(button_repeat) /\ button_state' = 0
           /\ button_presses' = 0 /\ button_repeat' = button_repeat
        \/ button_calls' = <<>> /\ UNCHANGED <<button_repeat, button_state, button_presses>>
    BY <1>4 DEF Button!Released
  <2>2. button_repeat \in 0 .. 255
    BY DEF Button!ButtonInv, Button!ButtonType
  <2>3. CASE button_state' = 0
    <3>1. /\ button_calls' = Button!Clicks(button_repeat) \/ button_calls' = <<>>
          /\ button_presses' = 0 /\ button_repeat' = button_repeat
      BY <1>1, <2>1, <2>3
    <3>2. Button!ButtonInv'
      BY <1>0, <1>4, <2>2, <2>3, <3>1, ButtonConstants
         DEF Sampled, Button!ButtonInv, Button!ButtonType, Button!MachineInv, Button!Down
    <3>3. CASE button_calls' = Button!Clicks(button_repeat)
      <4>1. /\ Button!Contains(button_calls', "SINGLE_CLICK") <=> button_repeat = 1
            /\ Button!Contains(button_calls', "DOUBLE_CLICK") <=> button_repeat = 2
            /\ ~Button!Contains(button_calls', "PRESS_DOWN") /\ ~Button!Contains(button_calls', "PRESS_UP")
        BY <2>2, <3>3, ClicksFacts
      <4> QED BY <1>1, <1>2, <1>4, <2>3, <3>2, <4>1 DEF CallsMatch, Button!Down
    <3>4. CASE button_calls' = <<>>
      <4>1. \A e \in Named : ~Button!Contains(button_calls', e)
        BY <3>4 DEF Named, Button!Contains
      <4> QED BY <1>1, <2>3, <3>2, <4>1 DEF CallsMatch, Named, Button!Down
    <3> QED BY <3>1, <3>3, <3>4
  <2>4. CASE button_state' # 0
    <3>1. button_calls' = <<>> /\ UNCHANGED <<button_repeat, button_state, button_presses>>
      BY <2>1, <2>4
    <3>2. Button!ButtonInv'
      BY <1>0, <1>1, <1>4, <3>1, ButtonConstants
         DEF Sampled, Button!ButtonInv, Button!ButtonType, Button!MachineInv, Button!Down
    <3>3. \A e \in Named : ~Button!Contains(button_calls', e)
      BY <3>1 DEF Named, Button!Contains
    <3> QED BY <1>1, <3>1, <3>2, <3>3 DEF CallsMatch, Named, Button!Down
  <2> QED BY <2>3, <2>4
<1> QED BY <1>3, <1>4

LEMMA ButtonRepeated ==
  ASSUME Button!ButtonInv, NEW level \in BOOLEAN, Button!Repeated(level)
  PROVE  Button!ButtonInv' /\ CallsMatch
<1>0. Sampled(level)
  BY SampleFacts DEF Button!Repeated
<1>1. button_state = 3
  BY DEF Button!Repeated
<1>2. CASE ~button_button_level'
  <2>1. /\ button_calls' = <<"PRESS_UP">> /\ button_repeat' = button_repeat
        /\ \/ button_state' = 2 /\ button_presses' = button_presses
           \/ button_state' = 0 /\ button_presses' = 0
    BY <1>2 DEF Button!Repeated, Button!ReleaseRepeated
  <2>2. Button!ButtonInv'
    BY <1>0, <1>1, <1>2, <2>1, ButtonConstants
       DEF Sampled, Button!ButtonInv, Button!ButtonType, Button!MachineInv, Button!Down
  <2>3. \A e \in Named : Button!Contains(button_calls', e) <=> e = "PRESS_UP"
    BY <2>1 DEF Named, Button!Contains
  <2> QED BY <1>1, <2>1, <2>2, <2>3 DEF CallsMatch, Named, Button!Down
<1>3. CASE button_button_level'
  <2>1. button_calls' = <<>> /\ UNCHANGED <<button_state, button_repeat, button_presses>>
    BY <1>3 DEF Button!Repeated
  <2>2. Button!ButtonInv'
    BY <1>0, <1>1, <1>3, <2>1, ButtonConstants
       DEF Sampled, Button!ButtonInv, Button!ButtonType, Button!MachineInv, Button!Down
  <2>3. \A e \in Named : ~Button!Contains(button_calls', e)
    BY <2>1 DEF Named, Button!Contains
  <2> QED BY <1>1, <2>1, <2>2, <2>3 DEF CallsMatch, Named, Button!Down
<1> QED BY <1>2, <1>3

LEMMA ButtonLongPress ==
  ASSUME Button!ButtonInv, NEW level \in BOOLEAN, Button!LongPress(level)
  PROVE  Button!ButtonInv' /\ CallsMatch
<1>0. Sampled(level)
  BY SampleFacts DEF Button!LongPress
<1>1. button_state = 5 /\ button_repeat' = button_repeat
  BY DEF Button!LongPress
<1>2. CASE ~button_button_level'
  <2>1. button_calls' = <<"PRESS_UP">> /\ button_state' = 0 /\ button_presses' = 0
    BY <1>2 DEF Button!LongPress, Button!ReleaseLong
  <2>2. Button!ButtonInv'
    BY <1>0, <1>1, <1>2, <2>1, ButtonConstants
       DEF Sampled, Button!ButtonInv, Button!ButtonType, Button!MachineInv, Button!Down
  <2>3. \A e \in Named : Button!Contains(button_calls', e) <=> e = "PRESS_UP"
    BY <2>1 DEF Named, Button!Contains
  <2> QED BY <1>1, <2>1, <2>2, <2>3 DEF CallsMatch, Named, Button!Down
<1>3. CASE button_button_level'
  <2>1. /\ button_calls' = <<"LONG_PRESS_HOLD">> \/ button_calls' = <<>>
        /\ UNCHANGED <<button_state, button_presses>>
    BY <1>3 DEF Button!LongPress
  <2>2. Button!ButtonInv'
    BY <1>0, <1>1, <1>3, <2>1, ButtonConstants
       DEF Sampled, Button!ButtonInv, Button!ButtonType, Button!MachineInv, Button!Down
  <2>3. \A e \in Named : ~Button!Contains(button_calls', e)
    BY <2>1 DEF Named, Button!Contains
  <2> QED BY <1>1, <2>1, <2>2, <2>3 DEF CallsMatch, Named, Button!Down
<1> QED BY <1>2, <1>3

LEMMA ButtonStay ==
  ASSUME Button!ButtonInv, UNCHANGED buttonVars
  PROVE  Button!ButtonInv'
BY DEF buttonVars, Button!ButtonInv, Button!ButtonType, Button!CountInv, Button!MachineInv, Button!Down

\* A scan keeps the invariant and its callbacks match; otherwise nothing changes.
LEMMA ButtonStep ==
  ASSUME Button!ButtonInv, [Next]_vars
  PROVE  Button!ButtonInv' /\ (CallsMatch \/ UNCHANGED buttonVars)
BY StepOfPart, ButtonIdle, ButtonPressed, ButtonReleased, ButtonRepeated, ButtonLongPress, ButtonStay
   DEF Button!Next, Button!Scan

\* A scan changes the level only after enough samples against it.
LEMMA ButtonFilters ==
  ASSUME Button!ButtonInv, [Next]_vars, button_button_level' # button_button_level
  PROVE  button_stable' >= DebounceTicks /\ button_raw' = button_button_level'
<1>1. PICK level \in BOOLEAN : Button!Sample(level)
  BY StepOfPart DEF buttonVars, Button!Next, Button!Scan, Button!Idle, Button!Pressed, Button!Released,
                    Button!Repeated, Button!LongPress
<1>2. Sampled(level)
  BY <1>1, SampleFacts
<1> QED BY <1>2 DEF Sampled

\* button_handler: for all tick limits and any number of bounces, each press has one
\* PRESS_DOWN and one PRESS_UP, single and double clicks are one and two presses, and
\* a level shorter than DEBOUNCE_TICKS scans is no press.
THEOREM ClicksTheorem == Spec => ClicksCountPresses
<1>1. Init => Button!ButtonInv
  BY InitOfParts, ButtonInitial
<1>2. Button!ButtonInv /\ [Next]_vars => Button!ButtonInv'
  BY ButtonStep
<1>3. Button!ButtonInv /\ [Next]_vars
        => [/\ Button!Contains(button_calls', "SINGLE_CLICK") => button_presses = 1
            /\ Button!Contains(button_calls', "DOUBLE_CLICK") => button_presses = 2
            /\ Button!Contains(button_calls', "PRESS_REPEAT_DONE")
                 => button_repeat = button_presses]_(Button!vars)
  BY ButtonStep DEF CallsMatch, buttonVars, Button!vars
<1>4. Button!ButtonInv /\ [Next]_vars
        => [/\ Button!Contains(button_calls', "PRESS_DOWN") <=> ~Button!Down /\ Button!Down'
            /\ Button!Contains(button_calls', "PRESS_UP") <=> Button!Down /\ ~Button!Down'
            /\ Button!Contains(button_calls', "PRESS_REPEAT_DONE")
                 => ~Button!Down /\ ~button_button_level']_(Button!vars)
  BY ButtonStep DEF CallsMatch, buttonVars, Button!vars
<1>5. Button!ButtonInv /\ [Next]_vars
        => [button_button_level' # button_button_level
              => button_stable' >= DebounceTicks /\ button_raw' = button_button_level']_(Button!vars)
  BY ButtonFilters
<1> QED BY <1>1, <1>2, <1>3, <1>4, <1>5, PTL
        DEF Spec, ClicksCountPresses, Button!ClicksCountPresses, Button!UpsMatchDowns,
            Button!BouncesAreFiltered
-----------------------------------------------------------------------------
(* The build with fading.                                                  *)

LEMMA FadeConstants ==
  Resolutions \subseteq (0 .. 100) \ {1} /\ FadeLevels \subseteq 0 .. 100
BY BoardAssumptions DEF BoardAssumptions, Slider!FadeAssumption, Slider!Percent, Slider!STANDARD_BRIGHTNESS

\* C division: the remainder is smaller than the divisor, whatever the signs.
LEMMA TruncFacts ==
  ASSUME NEW a \in Int, NEW b \in (-1 .. 99) \ {0}
  PROVE  /\ Slider!TruncDiv(a, b) \in Int
         /\ Slider!Abs(a - b * Slider!TruncDiv(a, b)) < Slider!Abs(b)
         /\ a >= 0 /\ b > 0 => Slider!TruncDiv(a, b) \in 0 .. a
<1>1. CASE b = -1
  <2>1. \A n \in Nat : n \div 1 = n
    OBVIOUS
  <2>2. Slider!Abs(a) \in Nat /\ Slider!Abs(b) = 1
    <3>1. \A x \in Int : x < 0 /\ x + 1 = 0 => -x = 1
      OBVIOUS
    <3>2. b < 0 /\ b + 1 = 0
      BY <1>1
    <3> QED BY <3>1, <3>2 DEF Slider!Abs
  <2>3. Slider!TruncDiv(a, b) = IF a < 0 THEN Slider!Abs(a) ELSE -Slider!Abs(a)
    BY <1>1, <2>1, <2>2 DEF Slider!TruncDiv
  <2>4. Slider!TruncDiv(a, b) = -a
    BY <2>3 DEF Slider!Abs
  <2> QED BY <1>1, <2>2, <2>4 DEF Slider!Abs
<1>2. CASE b \in 1 .. 99
  <2>1. Slider!Abs(b) = b /\ Slider!TruncDiv(a, b) = IF a < 0 THEN -((-a) \div b) ELSE a \div b
    BY <1>2 DEF Slider!TruncDiv, Slider!Abs
  <2>2. CASE a >= 0
    BY <1>2, <2>1, <2>2 DEF Slider!Abs
  <2>3. CASE a < 0
    BY <1>2, <2>1, <2>3 DEF Slider!Abs
  <2> QED BY <2>2, <2>3
<1> QED BY <1>1, <1>2

LEMMA DelayFact == \A x \in Int : x \in Slider!Delay <=> x >= 0 /\ x <= Slider!MAX_INTERVAL
BY DEF Slider!Delay, Slider!MAX_INTERVAL

\* The firing delay of a percentage, and its time once more (the way to dark).
LEMMA WayFacts ==
  ASSUME NEW old \in 0 .. 100, NEW new \in 0 .. 100
  PROVE  Slider!Way(old, new) \in Int /\ (new > 1 => Slider!Way(old, new) \in Slider!Delay)
<1>1. \A x \in 0 .. 100 : Slider!INTENSITY2TIME(x) = (8333 * (100 - x)) \div 100
  BY DEF Slider!INTENSITY2TIME, Slider!TruncDiv, Slider!Abs, Slider!MAX_INTERVAL
<1>2. \A x \in 0 .. 100 : (8333 * (100 - x)) \div 100 \in Slider!Delay
  BY DEF Slider!Delay, Slider!MAX_INTERVAL
<1>3. \A x \in Int : Slider!INTENSITY2TIME(x) \in Int
  BY DEF Slider!INTENSITY2TIME, Slider!TruncDiv, Slider!Abs, Slider!MAX_INTERVAL
<1> QED BY <1>1, <1>2, <1>3 DEF Slider!Way

\* set_brightness: the whole of it, for any level before and after.
LEMMA SetBrightnessFacts ==
  ASSUME Slider!FadeInv, NEW b \in 0 .. 100, Slider!SetBrightness(b), UNCHANGED fade_resolution
  PROVE  Slider!FadeInv'
<1>1. PICK new \in 0 .. 100, old \in 0 .. 100 : new = Slider!StoredLevel(b) /\ old = fade_m_level
  BY DEF Slider!FadeInv, Slider!FadeType, Slider!StoredLevel, Slider!Percent, Slider!STANDARD_BRIGHTNESS
<1>2. PICK way \in Int : way = Slider!Way(old, new) /\ (new > 1 => way \in Slider!Delay)
  BY WayFacts
<1>3. PICK d \in (-1 .. 99) \ {0} : d = Slider!Divisor /\ d = fade_resolution - 1
  BY FadeConstants DEF Slider!FadeInv, Slider!FadeType, Slider!Divisor
<1>4. PICK q \in Int : q = Slider!TruncDiv(way, d)
  BY TruncFacts
<1>5. Slider!Abs(way - d * q) < Slider!Abs(d) /\ (way >= 0 /\ d > 0 => q \in 0 .. way)
  BY <1>4, TruncFacts
<1>6. /\ fade_m_level' = new /\ fade_total' = way /\ fade_interval' = q
      /\ fade_reminder' = IF new > 1 THEN way - d * q ELSE -(way - d * q)
  BY <1>1, <1>2, <1>3, <1>4 DEF Slider!SetBrightness, Slider!Division, Slider!TruncMod
<1>7. Slider!FadeType'
  BY <1>6 DEF Slider!FadeInv, Slider!FadeType, Slider!Percent, Slider!STANDARD_BRIGHTNESS
<1>8. PICK p \in Int : p = d * q
  OBVIOUS
<1>9. Slider!Divisor' = d /\ fade_resolution' = d + 1
  BY <1>3 DEF Slider!Divisor, Slider!FadeInv, Slider!FadeType
<1>10. Slider!StepsAddUp'
  <2>1. fade_total' = p + (IF fade_m_level' > 1 THEN fade_reminder' ELSE -fade_reminder')
    BY <1>6, <1>8
  <2>2. Slider!Abs(fade_reminder') = Slider!Abs(way - p)
    BY <1>6, <1>8 DEF Slider!Abs
  <2> QED BY <1>5, <1>6, <1>8, <1>9, <2>1, <2>2 DEF Slider!StepsAddUp, Slider!Abs
<1>11. Slider!LitStepInRange'
  <2> SUFFICES ASSUME fade_resolution' >= 2, fade_m_level' > 1 PROVE fade_interval' \in Slider!Delay
    BY DEF Slider!LitStepInRange
  <2>1. d > 0 /\ way \in Slider!Delay /\ way >= 0
    BY <1>2, <1>6, <1>9, DelayFact
  <2>2. q \in 0 .. way
    BY <1>5, <2>1
  <2> QED BY <1>6, <2>1, <2>2, DelayFact DEF Slider!MAX_INTERVAL
<1> QED BY <1>7, <1>10, <1>11 DEF Slider!FadeInv

LEMMA FadeInit ==
  ASSUME Slider!FadeInit
  PROVE  Slider!FadeInv
<1>1. fade_resolution \in (0 .. 100) \ {1} /\ fade_m_level = 0 /\ fade_interval = 0 /\ fade_reminder = 0 /\ fade_total = 0
  BY FadeConstants DEF Slider!FadeInit
<1>2. Slider!FadeType
  BY DEF Slider!FadeInit, Slider!FadeType, Slider!Percent, Slider!STANDARD_BRIGHTNESS
<1> QED BY <1>1, <1>2 DEF Slider!FadeInv, Slider!StepsAddUp, Slider!LitStepInRange, Slider!Divisor, Slider!Abs

LEMMA FadeStep ==
  ASSUME Slider!FadeInv, [Next]_vars
  PROVE  Slider!FadeInv'
<1>1. CASE Slider!Level
  BY <1>1, FadeConstants, SetBrightnessFacts DEF Slider!Level
<1>2. CASE Slider!PowerOff
  BY <1>2, SetBrightnessFacts DEF Slider!PowerOff
<1>3. CASE UNCHANGED <<fade_resolution, fade_m_level, fade_interval, fade_reminder, fade_total>>
  BY <1>3 DEF Slider!FadeInv, Slider!FadeType, Slider!StepsAddUp, Slider!LitStepInRange, Slider!Divisor
<1> QED BY <1>1, <1>2, <1>3, StepOfPart DEF Slider!FadeNext, Slider!PowerOn, Slider!Alarm, fadeVars
-----------------------------------------------------------------------------
(* The decoding of a touch.                                                *)

\* The bits of a byte, as quotients.
LEMMA BitsOfByte ==
  ASSUME NEW x \in 0 .. 255
  PROVE  /\ Slider!Bit(x, 0) = x % 2 /\ Slider!Bit(x, 1) = (x \div 2) % 2
         /\ Slider!Bit(x, 2) = (x \div 4) % 2 /\ Slider!Bit(x, 3) = (x \div 8) % 2
         /\ Slider!Bit(x, 4) = (x \div 16) % 2 /\ Slider!Bit(x, 5) = (x \div 32) % 2
         /\ Slider!Bit(x, 6) = (x \div 64) % 2 /\ Slider!Bit(x, 7) = (x \div 128) % 2
BY DEF Slider!Bit

\* Adding a power of 2 to a byte without that bit sets the bit and no other.
PlusBit(f, n, b) == f + b * 2 ^ n

LEMMA AddBit ==
  ASSUME NEW f \in Slider!UInt8, NEW n \in Slider!Electrode, NEW b \in {0, 1}, Slider!Bit(f, n) = 0
  PROVE  /\ PlusBit(f, n, b) \in Slider!UInt8 /\ Slider!Bit(PlusBit(f, n, b), n) = b
         /\ \A m \in Slider!Electrode : m # n => Slider!Bit(PlusBit(f, n, b), m) = Slider!Bit(f, m)
<1> SUFFICES ASSUME f \in 0 .. 255, n \in 0 .. 7, NEW g, g = f + b * 2 ^ n
             PROVE  /\ g \in 0 .. 255 /\ Slider!Bit(g, n) = b
                    /\ \A m \in 0 .. 7 : m # n => Slider!Bit(g, m) = Slider!Bit(f, m)
  BY DEF PlusBit, Slider!UInt8, Slider!Electrode
<1>1. CASE n = 0
  <2>1. g = f + b /\ f % 2 = 0
    BY <1>1, BitsOfByte
  <2>2. g \in 0 .. 255 /\ g % 2 = b /\ g \div 2 = f \div 2
    BY <2>1
  <2>3. /\ g \div 4 = f \div 4 /\ g \div 8 = f \div 8 /\ g \div 16 = f \div 16
        /\ g \div 32 = f \div 32 /\ g \div 64 = f \div 64 /\ g \div 128 = f \div 128
    BY <2>2
  <2> QED BY <1>1, <2>2, <2>3, BitsOfByte
<1>2. CASE n = 1
  <2>1. g = f + 2 * b /\ (f \div 2) % 2 = 0
    BY <1>2, BitsOfByte
  <2>2. g \in 0 .. 255 /\ (g \div 2) % 2 = b /\ g % 2 = f % 2 /\ g \div 4 = f \div 4
    BY <2>1
  <2>3. /\ g \div 8 = f \div 8 /\ g \div 16 = f \div 16
        /\ g \div 32 = f \div 32 /\ g \div 64 = f \div 64 /\ g \div 128 = f \div 128
    BY <2>2
  <2> QED BY <1>2, <2>2, <2>3, BitsOfByte
<1>3. CASE n = 2
  <2>1. g = f + 4 * b /\ (f \div 4) % 2 = 0
    BY <1>3, BitsOfByte
  <2>2. /\ g \in 0 .. 255 /\ (g \div 4) % 2 = b
        /\ g % 2 = f % 2 /\ (g \div 2) % 2 = (f \div 2) % 2 /\ (g \div 8) % 2 = (f \div 8) % 2
        /\ (g \div 16) % 2 = (f \div 16) % 2 /\ (g \div 32) % 2 = (f \div 32) % 2
        /\ (g \div 64) % 2 = (f \div 64) % 2 /\ (g \div 128) % 2 = (f \div 128) % 2
    BY <2>1
  <2> QED BY <1>3, <2>2, BitsOfByte
<1>4. CASE n = 3
  <2>1. g = f + 8 * b /\ (f \div 8) % 2 = 0
    BY <1>4, BitsOfByte
  <2>2. /\ g \in 0 .. 255 /\ (g \div 8) % 2 = b
        /\ g % 2 = f % 2 /\ (g \div 2) % 2 = (f \div 2) % 2 /\ (g \div 4) % 2 = (f \div 4) % 2
        /\ (g \div 16) % 2 = (f \div 16) % 2 /\ (g \div 32) % 2 = (f \div 32) % 2
        /\ (g \div 64) % 2 = (f \div 64) % 2 /\ (g \div 128) % 2 = (f \div 128) % 2
    BY <2>1
  <2> QED BY <1>4, <2>2, BitsOfByte
<1>5. CASE n = 4
  <2>1. g = f + 16 * b /\ (f \div 16) % 2 = 0
    BY <1>5, BitsOfByte
  <2>2. /\ g \in 0 .. 255 /\ (g \div 16) % 2 = b
        /\ g % 2 = f % 2 /\ (g \div 2) % 2 = (f \div 2) % 2 /\ (g \div 4) % 2 = (f \div 4) % 2
        /\ (g \div 8) % 2 = (f \div 8) % 2 /\ (g \div 32) % 2 = (f \div 32) % 2
        /\ (g \div 64) % 2 = (f \div 64) % 2 /\ (g \div 128) % 2 = (f \div 128) % 2
    BY <2>1
  <2> QED BY <1>5, <2>2, BitsOfByte
<1>6. CASE n = 5
  <2>1. g = f + 32 * b /\ (f \div 32) % 2 = 0
    BY <1>6, BitsOfByte
  <2>2. /\ g \in 0 .. 255 /\ (g \div 32) % 2 = b
        /\ g % 2 = f % 2 /\ (g \div 2) % 2 = (f \div 2) % 2 /\ (g \div 4) % 2 = (f \div 4) % 2
        /\ (g \div 8) % 2 = (f \div 8) % 2 /\ (g \div 16) % 2 = (f \div 16) % 2
        /\ (g \div 64) % 2 = (f \div 64) % 2 /\ (g \div 128) % 2 = (f \div 128) % 2
    BY <2>1
  <2> QED BY <1>6, <2>2, BitsOfByte
<1>7. CASE n = 6
  <2>1. g = f + 64 * b /\ (f \div 64) % 2 = 0
    BY <1>7, BitsOfByte
  <2>2. /\ g \in 0 .. 255 /\ (g \div 64) % 2 = b
        /\ g % 2 = f % 2 /\ (g \div 2) % 2 = (f \div 2) % 2 /\ (g \div 4) % 2 = (f \div 4) % 2
        /\ (g \div 8) % 2 = (f \div 8) % 2 /\ (g \div 16) % 2 = (f \div 16) % 2
        /\ (g \div 32) % 2 = (f \div 32) % 2 /\ (g \div 128) % 2 = (f \div 128) % 2
    BY <2>1
  <2> QED BY <1>7, <2>2, BitsOfByte
<1>8. CASE n = 7
  <2>1. g = f + 128 * b /\ (f \div 128) % 2 = 0
    BY <1>8, BitsOfByte
  <2>2. /\ g \in 0 .. 255 /\ (g \div 128) % 2 = b
        /\ g % 2 = f % 2 /\ (g \div 2) % 2 = (f \div 2) % 2 /\ (g \div 4) % 2 = (f \div 4) % 2
        /\ (g \div 8) % 2 = (f \div 8) % 2 /\ (g \div 16) % 2 = (f \div 16) % 2
        /\ (g \div 32) % 2 = (f \div 32) % 2 /\ (g \div 64) % 2 = (f \div 64) % 2
    BY <2>1
  <2> QED BY <1>8, <2>2, BitsOfByte
<1> QED BY <1>1, <1>2, <1>3, <1>4, <1>5, <1>6, <1>7, <1>8

\* A nonzero byte has a bit.
LEMMA NonzeroBit ==
  ASSUME NEW x \in 1 .. 255
  PROVE  \E e \in 0 .. 7 : Slider!Bit(x, e) # 0
<1> SUFFICES ASSUME \A e \in 0 .. 7 : Slider!Bit(x, e) = 0 PROVE FALSE
  OBVIOUS
<1>1. /\ x % 2 = 0 /\ (x \div 2) % 2 = 0 /\ (x \div 4) % 2 = 0 /\ (x \div 8) % 2 = 0
      /\ (x \div 16) % 2 = 0 /\ (x \div 32) % 2 = 0 /\ (x \div 64) % 2 = 0 /\ (x \div 128) % 2 = 0
  BY BitsOfByte
<1> QED BY <1>1

\* A bit is 0 or 1.
LEMMA BitIsBit ==
  ASSUME NEW x \in 0 .. 255, NEW m \in 0 .. 7
  PROVE  Slider!Bit(x, m) \in {0, 1}
<1>1. /\ x % 2 \in {0, 1} /\ (x \div 2) % 2 \in {0, 1} /\ (x \div 4) % 2 \in {0, 1} /\ (x \div 8) % 2 \in {0, 1}
      /\ (x \div 16) % 2 \in {0, 1} /\ (x \div 32) % 2 \in {0, 1} /\ (x \div 64) % 2 \in {0, 1}
      /\ (x \div 128) % 2 \in {0, 1}
  OBVIOUS
<1>2. m = 0 \/ m = 1 \/ m = 2 \/ m = 3 \/ m = 4 \/ m = 5 \/ m = 6 \/ m = 7
  OBVIOUS
<1> QED BY <1>1, <1>2, BitsOfByte
LEMMA TouchInit ==
  ASSUME Slider!TouchInit
  PROVE  Slider!TouchInv
<1>1. touch_touches \in 0 .. 255 /\ touch_touches # 0
  BY DEF Slider!TouchInit, Slider!UInt8
<1>2. \A m \in 0 .. 7 : Slider!Bit(0, m) = 0
  <2>1. 0 % 2 = 0 /\ \A k \in {2, 4, 8, 16, 32, 64, 128} : (0 \div k) % 2 = 0
    OBVIOUS
  <2> QED BY <2>1, BitsOfByte
<1> QED BY <1>1, <1>2
     DEF Slider!TouchInit, Slider!TouchInv, Slider!TouchType, Slider!FlipInv, Slider!ScanInv, Slider!UInt8

LEMMA TouchFlip ==
  ASSUME Slider!TouchInv, Slider!Flip
  PROVE  Slider!TouchInv'
<1>1. PICK t \in 1 .. 255, f \in 0 .. 255, k \in 0 .. 7 :
        t = touch_touches /\ f = touch_flipped_byte /\ k = touch_i
  <2>1. touch_touches \in 1 .. 255 /\ touch_flipped_byte \in 0 .. 255 /\ touch_i \in 0 .. 7
    BY DEF Slider!TouchInv, Slider!TouchType, Slider!UInt8
  <2> QED BY <2>1, Zenon
<1>2. PICK g : g = touch_flipped_byte'
  OBVIOUS
<1>3. \A m \in 0 .. 7 : Slider!Bit(f, m) = IF m > 7 - k THEN Slider!Bit(t, 7 - m) ELSE 0
  BY <1>1 DEF Slider!TouchInv, Slider!FlipInv, Slider!Flip
<1>4. PICK b \in {0, 1} : b = Slider!Bit(t, k)
  BY BitIsBit
<1>5. g = f + b * 2 ^ (7 - k) /\ g \in Int
  BY <1>1, <1>2, <1>4 DEF Slider!Flip
<1>6. 7 - k \in 0 .. 7 /\ Slider!Bit(f, 7 - k) = 0
  BY <1>3
<1>7. /\ g \in 0 .. 255 /\ Slider!Bit(g, 7 - k) = b
      /\ \A m \in 0 .. 7 : m # 7 - k => Slider!Bit(g, m) = Slider!Bit(f, m)
  <2>1. PICK n \in 0 .. 7 : n = 7 - k
    BY <1>6
  <2>2. Slider!Bit(f, n) = 0 /\ g = PlusBit(f, n, b)
    BY <1>5, <1>6, <2>1 DEF PlusBit
  <2>3. /\ PlusBit(f, n, b) \in Slider!UInt8 /\ Slider!Bit(PlusBit(f, n, b), n) = b
        /\ \A m \in Slider!Electrode : m # n => Slider!Bit(PlusBit(f, n, b), m) = Slider!Bit(f, m)
    <3>1. f \in Slider!UInt8 /\ n \in Slider!Electrode
      BY DEF Slider!UInt8, Slider!Electrode
    <3> QED BY <2>2, <3>1, AddBit
  <2>4. /\ g \in 0 .. 255 /\ Slider!Bit(g, n) = b
        /\ \A m \in 0 .. 7 : m # n => Slider!Bit(g, m) = Slider!Bit(f, m)
    BY <2>2, <2>3 DEF Slider!UInt8, Slider!Electrode
  <2> QED BY <2>1, <2>4
<1>8. \A m \in 0 .. 7 : Slider!Bit(g, m) = IF m >= 7 - k THEN Slider!Bit(t, 7 - m) ELSE 0
  <2> SUFFICES ASSUME NEW m \in 0 .. 7
               PROVE  Slider!Bit(g, m) = IF m >= 7 - k THEN Slider!Bit(t, 7 - m) ELSE 0
    OBVIOUS
  <2>1. CASE m = 7 - k
    <3>1. 7 - m = k
      BY <2>1
    <3> QED BY <1>4, <1>7, <2>1, <3>1
  <2>2. CASE m # 7 - k
    BY <1>3, <1>7, <2>2
  <2> QED BY <2>1, <2>2
<1>9. /\ touch_touches' = t /\ touch_flipped_byte' = g /\ touch_value' = touch_value
      /\ k < 7 => touch_i' = k + 1 /\ touch_loop' = "flip"
      /\ k = 7 => touch_i' = 7 /\ touch_loop' = "scan"
  BY <1>1, <1>2 DEF Slider!Flip
<1>10. Slider!TouchType'
  BY <1>7, <1>9 DEF Slider!TouchType, Slider!TouchInv, Slider!UInt8
<1>11. Slider!FlipInv'
  <2> SUFFICES ASSUME k < 7, NEW m \in 0 .. 7
               PROVE  Slider!Bit(g, m) = IF m > 7 - (k + 1) THEN Slider!Bit(t, 7 - m) ELSE 0
    BY <1>9 DEF Slider!FlipInv
  <2> QED BY <1>8
<1>12. Slider!ScanInv'
  <2> SUFFICES ASSUME k = 7
               PROVE  \A m \in 0 .. 7 : Slider!Bit(g, m) = Slider!Bit(t, 7 - m)
    BY <1>9 DEF Slider!ScanInv
  <2> QED BY <1>8
<1> QED BY <1>10, <1>11, <1>12 DEF Slider!TouchInv

LEMMA TouchScan ==
  ASSUME Slider!TouchInv, Slider!Scan
  PROVE  Slider!TouchInv'
<1>1. PICK t \in 1 .. 255, f \in 0 .. 255, k \in 0 .. 7 :
        t = touch_touches /\ f = touch_flipped_byte /\ k = touch_i
  <2>1. touch_touches \in 1 .. 255 /\ touch_flipped_byte \in 0 .. 255 /\ touch_i \in 0 .. 7
    BY DEF Slider!TouchInv, Slider!TouchType, Slider!UInt8
  <2> QED BY <2>1, Zenon
<1>2. touch_touches' = t /\ touch_flipped_byte' = f /\ touch_loop = "scan"
  BY <1>1 DEF Slider!Scan
<1>3. /\ \A m \in 0 .. 7 : Slider!Bit(f, m) = Slider!Bit(t, 7 - m)
      /\ \A m \in k + 1 .. 7 : Slider!Bit(f, m) = 0
  BY <1>1, <1>2 DEF Slider!TouchInv, Slider!ScanInv
<1>4. CASE Slider!Bit(f, k) = 1
  <2>1. touch_value' = k /\ touch_loop' = "done" /\ touch_i' = k
    BY <1>1, <1>4 DEF Slider!Scan
  <2> QED BY <1>2, <1>3, <1>4, <2>1
       DEF Slider!TouchInv, Slider!TouchType, Slider!FlipInv, Slider!ScanInv, Slider!UInt8
<1>5. CASE Slider!Bit(f, k) # 1
  <2>1. touch_value' = touch_value /\ touch_loop' = "scan" /\ touch_i' = k - 1
    BY <1>1, <1>2, <1>5 DEF Slider!Scan
  <2>2. Slider!Bit(f, k) = 0
    BY <1>5, BitIsBit
  <2>3. \A m \in k .. 7 : Slider!Bit(f, m) = 0
    BY <1>3, <2>2
  <2>4. k # 0
    <3> SUFFICES ASSUME k = 0 PROVE FALSE
      OBVIOUS
    <3>1. PICK e \in 0 .. 7 : Slider!Bit(t, e) # 0
      BY NonzeroBit
    <3>2. 7 - e \in 0 .. 7 /\ 7 - (7 - e) = e
      OBVIOUS
    <3>3. Slider!Bit(f, 7 - e) = Slider!Bit(t, 7 - (7 - e))
      BY <1>3, <3>2
    <3> QED BY <2>3, <3>1, <3>2, <3>3
  <2> QED BY <1>2, <1>3, <2>1, <2>3, <2>4
       DEF Slider!TouchInv, Slider!TouchType, Slider!FlipInv, Slider!ScanInv, Slider!UInt8
<1> QED BY <1>4, <1>5

LEMMA TouchStep ==
  ASSUME Slider!TouchInv, [Next]_vars
  PROVE  Slider!TouchInv'
<1>1. CASE UNCHANGED touchVars
  BY <1>1 DEF touchVars, Slider!TouchInv, Slider!TouchType, Slider!FlipInv, Slider!ScanInv
<1> QED BY <1>1, StepOfPart, TouchFlip, TouchScan DEF Slider!TouchNext

\* What the loops end with: the place of the lowest touched electrode.
LEMMA LowestTouched ==
  ASSUME Slider!TouchInv, touch_loop = "done"
  PROVE  /\ touch_value \in 0 .. 7
         /\ \E e \in Slider!MaskOf(touch_touches) : touch_value = 7 - e
         /\ \A e \in Slider!MaskOf(touch_touches) : e \in 0 .. 7 /\ 7 - e <= touch_value
<1>1. PICK t \in 1 .. 255, f \in 0 .. 255, k \in 0 .. 7 :
        t = touch_touches /\ f = touch_flipped_byte /\ k = touch_i
  <2>1. touch_touches \in 1 .. 255 /\ touch_flipped_byte \in 0 .. 255 /\ touch_i \in 0 .. 7
    BY DEF Slider!TouchInv, Slider!TouchType, Slider!UInt8
  <2> QED BY <2>1, Zenon
<1>2. /\ \A m \in 0 .. 7 : Slider!Bit(f, m) = Slider!Bit(t, 7 - m)
      /\ \A m \in k + 1 .. 7 : Slider!Bit(f, m) = 0
      /\ touch_value = k /\ Slider!Bit(f, k) = 1
  BY <1>1 DEF Slider!TouchInv, Slider!ScanInv
<1>3. \E e \in Slider!MaskOf(t) : k = 7 - e
  <2>1. 7 - k \in 0 .. 7 /\ Slider!Bit(t, 7 - k) = 1 /\ k = 7 - (7 - k)
    BY <1>2
  <2> QED BY <2>1 DEF Slider!MaskOf, Slider!Electrode
<1>4. \A e \in Slider!MaskOf(t) : e \in 0 .. 7 /\ 7 - e <= k
  <2> SUFFICES ASSUME NEW e \in 0 .. 7, Slider!Bit(t, e) = 1 PROVE 7 - e <= k
    BY DEF Slider!MaskOf, Slider!Electrode
  <2>1. 7 - e \in 0 .. 7 /\ 7 - (7 - e) = e
    OBVIOUS
  <2>2. Slider!Bit(f, 7 - e) = Slider!Bit(t, 7 - (7 - e))
    BY <1>2, <2>1
  <2>3. ~(7 - e \in k + 1 .. 7)
    BY <1>2, <2>1, <2>2
  <2> QED BY <2>1, <2>3
<1> QED BY <1>1, <1>2, <1>3, <1>4

\* The firing delay for the electrode at place v of the strip.
DelayAt(v) == Slider!IntervalFor(Slider!StoredLevel(Slider!MatterToPercent(Slider!LevelAt(v))))

LEMMA DelayOrder ==
  ASSUME NEW u \in 0 .. 7, NEW v \in 0 .. 7, u <= v
  PROVE  DelayAt(u) \in Int /\ DelayAt(v) \in Int /\ DelayAt(v) <= DelayAt(u)
<1>1. /\ Slider!LevelAt(0) = 0 /\ Slider!LevelAt(1) = 36 /\ Slider!LevelAt(2) = 72 /\ Slider!LevelAt(3) = 108
      /\ Slider!LevelAt(4) = 145 /\ Slider!LevelAt(5) = 181 /\ Slider!LevelAt(6) = 217 /\ Slider!LevelAt(7) = 254
  BY DEF Slider!LevelAt, Slider!MATTER_BRIGHTNESS
<1>2. /\ Slider!MatterToPercent(0) = 0 /\ Slider!MatterToPercent(36) = 14 /\ Slider!MatterToPercent(72) = 28 /\ Slider!MatterToPercent(108) = 42
      /\ Slider!MatterToPercent(145) = 57 /\ Slider!MatterToPercent(181) = 71 /\ Slider!MatterToPercent(217) = 85 /\ Slider!MatterToPercent(254) = 100
  BY DEF Slider!MatterToPercent, Slider!REMAP_TO_RANGE, Slider!MATTER_BRIGHTNESS, Slider!STANDARD_BRIGHTNESS
<1>3. /\ Slider!IntervalFor(Slider!StoredLevel(0)) = 8333 /\ Slider!IntervalFor(Slider!StoredLevel(14)) = 7166 /\ Slider!IntervalFor(Slider!StoredLevel(28)) = 5999 /\ Slider!IntervalFor(Slider!StoredLevel(42)) = 4833
      /\ Slider!IntervalFor(Slider!StoredLevel(57)) = 3583 /\ Slider!IntervalFor(Slider!StoredLevel(71)) = 2416 /\ Slider!IntervalFor(Slider!StoredLevel(85)) = 1249 /\ Slider!IntervalFor(Slider!StoredLevel(100)) = 0
  BY DEF Slider!IntervalFor, Slider!StoredLevel, Slider!INTENSITY2TIME, Slider!TruncDiv, Slider!Abs, Slider!MAX_INTERVAL
<1>4. /\ DelayAt(0) = 8333 /\ DelayAt(1) = 7166 /\ DelayAt(2) = 5999 /\ DelayAt(3) = 4833
      /\ DelayAt(4) = 3583 /\ DelayAt(5) = 2416 /\ DelayAt(6) = 1249 /\ DelayAt(7) = 0
  BY <1>1, <1>2, <1>3 DEF DelayAt
<1>5. /\ u = 0 \/ u = 1 \/ u = 2 \/ u = 3 \/ u = 4 \/ u = 5 \/ u = 6 \/ u = 7
      /\ v = 0 \/ v = 1 \/ v = 2 \/ v = 3 \/ v = 4 \/ v = 5 \/ v = 6 \/ v = 7
  OBVIOUS
<1> QED BY <1>4, <1>5

LEMMA TouchDecodes ==
  ASSUME Slider!TouchInv
  PROVE  Slider!DecodesTopBit /\ Slider!BrightestTouchWins
<1> SUFFICES ASSUME touch_loop = "done"
             PROVE  /\ touch_value = Slider!TopBit(Slider!MaskOf(touch_touches))
                    /\ DelayAt(touch_value) = Slider!Min({DelayAt(7 - e) : e \in Slider!MaskOf(touch_touches)})
  BY DEF Slider!DecodesTopBit, Slider!BrightestTouchWins, DelayAt
<1>1. PICK M, v : M = Slider!MaskOf(touch_touches) /\ v = touch_value
  OBVIOUS
<1>2. v \in 0 .. 7 /\ (\E e \in M : v = 7 - e) /\ \A e \in M : e \in 0 .. 7 /\ 7 - e <= v
  BY <1>1, LowestTouched
<1>3. v = Slider!TopBit(M)
  <2> DEFINE S == {7 - e : e \in M}
  <2>1. v \in S /\ v \in Int /\ \A y \in S : y \in Int /\ v >= y
    BY <1>2
  <2> HIDE DEF S
  <2>2. v = Slider!Max(S)
    <3>1. \E x \in S : \A y \in S : x >= y
      BY <2>1
    <3>2. Slider!Max(S) \in S /\ \A y \in S : Slider!Max(S) >= y
      BY <3>1, Zenon DEF Slider!Max
    <3>3. Slider!Max(S) \in Int /\ Slider!Max(S) >= v /\ v >= Slider!Max(S)
      BY <2>1, <3>2
    <3> QED BY <2>1, <3>3
  <2> QED BY <2>2 DEF Slider!TopBit, S
<1>4. DelayAt(v) = Slider!Min({DelayAt(7 - e) : e \in M})
  <2> DEFINE S == {DelayAt(7 - e) : e \in M}
  <2>1. DelayAt(v) \in S
    BY <1>2
  <2>2. \A e \in M : DelayAt(7 - e) \in Int /\ DelayAt(v) <= DelayAt(7 - e)
    BY <1>2, DelayOrder
  <2>3. DelayAt(v) \in Int /\ \A y \in S : y \in Int /\ DelayAt(v) <= y
    BY <1>2, <2>1, <2>2, DelayOrder
  <2> HIDE DEF S
  <2>4. DelayAt(v) = Slider!Min(S)
    BY <2>1, <2>3 DEF Slider!Min
  <2> QED BY <2>4 DEF S
<1> QED BY <1>1, <1>3, <1>4

\* SliderDriver::getLevel and set_brightness, whatever electrodes are touched and
\* whatever the resolution of the fade: the loops end at the lowest touched
\* electrode, whose delay is the shortest of those touched; the steps of a fade
\* and its remainder add up to the whole way, and the step of a lit level is a
\* delay within a half period.
THEOREM LevelsTheorem == Spec => []LevelsAddUp
<1>1. Init => Slider!TouchInv /\ Slider!FadeInv
  BY InitOfParts, TouchInit, FadeInit
<1>2. (Slider!TouchInv /\ Slider!FadeInv) /\ [Next]_vars => (Slider!TouchInv /\ Slider!FadeInv)'
  BY TouchStep, FadeStep
<1>3. Slider!TouchInv /\ Slider!FadeInv => LevelsAddUp
  BY TouchDecodes DEF LevelsAddUp, Slider!FadeInv
<1> QED BY <1>1, <1>2, <1>3, PTL DEF Spec

-----------------------------------------------------------------------------
(* The buttons on ADC channels.                                            *)

LEMMA AdcConstants ==
  /\ MaxChannels \in Nat \ {0} /\ Adc!Slots = 1 .. MaxChannels
  /\ \A c \in Channels : c \in Nat /\ c # Adc!CHANNEL_MAX
BY BoardAssumptions DEF BoardAssumptions, Adc!AdcAssumption, Adc!Slots

\* A slot is in use, or as it was at the start, or given back.
LEMMA RecordKinds ==
  ASSUME NEW r \in Adc!SlotRecord
  PROVE  \/ r = Adc!Zero /\ r.is_init = FALSE /\ r.channel = 0 /\ r.keys = {}
         \/ r = Adc!Free /\ r.is_init = FALSE /\ r.channel = Adc!CHANNEL_MAX /\ r.keys = {}
         \/ r # Adc!Zero /\ r.is_init = TRUE /\ r.channel \in Channels /\ r.keys \subseteq Keys
<1>1. CASE r = Adc!Zero
  BY <1>1 DEF Adc!Zero
<1>2. CASE r = Adc!Free
  BY <1>2 DEF Adc!Free
<1>3. CASE r \in [channel : Channels, is_init : {TRUE}, keys : SUBSET Keys]
  <2>1. r.is_init = TRUE /\ r.channel \in Channels /\ r.keys \in SUBSET Keys
    BY <1>3, Zenon
  <2>2. Adc!Zero.is_init = FALSE
    BY Zenon DEF Adc!Zero
  <2>3. r # Adc!Zero
    BY <2>1, <2>2, Zenon
  <2> QED BY <2>1, <2>3
<1> QED BY <1>1, <1>2, <1>3 DEF Adc!SlotRecord

LEMMA InUse ==
  ASSUME NEW r, r.is_init = TRUE
  PROVE  r # Adc!Zero /\ r # Adc!Free
<1>1. Adc!Zero.is_init = FALSE /\ Adc!Free.is_init = FALSE
  BY Zenon DEF Adc!Zero, Adc!Free
<1> QED BY <1>1, Zenon

LEMMA UsedRecord ==
  ASSUME NEW c \in Channels, NEW K \in SUBSET Keys
  PROVE  [channel |-> c, is_init |-> TRUE, keys |-> K] \in Adc!SlotRecord
BY DEF Adc!SlotRecord

\* There is at most one first slot, and one if any slot is for the channel.
LEMMA FirstIsUnique ==
  ASSUME NEW s, NEW c, NEW i \in Adc!Slots, NEW j \in Adc!Slots, Adc!FirstWith(s, c, i), Adc!FirstWith(s, c, j)
  PROVE  i = j
BY AdcConstants DEF Adc!FirstWith

LEMMA FirstExists ==
  ASSUME NEW s, NEW c, NEW n \in Adc!Slots, s[n].channel = c
  PROVE  \E i \in Adc!Slots : Adc!FirstWith(s, c, i)
<1> DEFINE T == {i \in Adc!Slots : s[i].channel = c}
<1>1. T \subseteq Nat /\ T # {}
  BY AdcConstants
<1>2. PICK m \in T : \A h \in T : ~(<<h, m>> \in OpToRel(<, Nat))
  BY <1>1, NatLessThanWellFounded, WFMin
<1>3. \A h \in T : ~(h < m)
  BY <1>1, <1>2 DEF OpToRel
<1> QED BY <1>3 DEF Adc!FirstWith

\* button_adc_init: slot i takes the key of a button of channel c.
LEMMA UseSlot ==
  ASSUME NEW s, NEW own, Adc!GoodTable(s, own), NEW c \in Channels, NEW k \in Keys, NEW i \in Adc!Slots,
         \A j \in Adc!Slots : j < i => s[j].channel # c /\ s[j] # Adc!Zero,
         \A j \in Adc!Slots : j # i /\ s[j].is_init => s[j].channel # c,
         \A b \in own : b[1] = c => b[2] \in s[i].keys,
         NEW t, t = [s EXCEPT ![i] = [channel |-> c, is_init |-> TRUE, keys |-> s[i].keys \cup {k}]],
         ~s[i].is_init \/ s[i].channel = c
  PROVE  Adc!GoodTable(t, own \cup {<<c, k>>})
<1>1. s \in [Adc!Slots -> Adc!SlotRecord] /\ own \subseteq Channels \X Keys
  BY DEF Adc!GoodTable
<1>2. s[i].keys \cup {k} \in SUBSET Keys
  <2>1. s[i].keys \subseteq Keys
    BY <1>1, RecordKinds
  <2> QED BY <2>1
<1>3. t[i].channel = c /\ t[i].is_init = TRUE /\ t[i].keys = s[i].keys \cup {k} /\ t[i] \in Adc!SlotRecord
  BY <1>1, <1>2, UsedRecord
<1>4. \A j \in Adc!Slots : j # i => t[j] = s[j]
  BY <1>1
<1>5. t \in [Adc!Slots -> Adc!SlotRecord]
  BY <1>1, <1>2, UsedRecord
<1>6. own \cup {<<c, k>>} \subseteq Channels \X Keys
  BY <1>1
<1>7. Adc!Distinct(t)
  <2> SUFFICES ASSUME NEW a \in Adc!Slots, NEW b \in Adc!Slots, t[a].is_init, t[b].is_init,
                      t[a].channel = t[b].channel
               PROVE  a = b
    BY DEF Adc!Distinct
  <2> QED BY <1>3, <1>4 DEF Adc!GoodTable, Adc!Distinct
<1>8. Adc!ZerosLast(t)
  <2> SUFFICES ASSUME NEW a \in Adc!Slots, NEW b \in Adc!Slots, a < b, t[a] = Adc!Zero
               PROVE  t[b] = Adc!Zero
    BY DEF Adc!ZerosLast
  <2>1. a # i
    BY <1>3, InUse
  <2>2. s[a] = Adc!Zero
    BY <1>4, <2>1
  <2>3. b # i
    BY <2>2
  <2> QED BY <1>4, <2>2, <2>3 DEF Adc!GoodTable, Adc!ZerosLast
<1>9. Adc!Served(t, own \cup {<<c, k>>})
  <2> SUFFICES ASSUME NEW b \in own \cup {<<c, k>>}
               PROVE  \E j \in Adc!Slots : Adc!FirstWith(t, b[1], j) /\ t[j].is_init /\ b[2] \in t[j].keys
    BY DEF Adc!Served
  <2>1. Adc!FirstWith(t, c, i)
    BY <1>3, <1>4, AdcConstants DEF Adc!FirstWith
  <2>2. CASE b[1] = c
    <3>1. b[2] \in t[i].keys
      BY <1>3, <2>2
    <3> QED BY <1>3, <2>1, <2>2, <3>1
  <2>3. CASE b[1] # c
    <3>1. b \in own
      BY <2>3
    <3>2. PICK j \in Adc!Slots : Adc!FirstWith(s, b[1], j) /\ s[j].is_init /\ b[2] \in s[j].keys
      BY <3>1 DEF Adc!GoodTable, Adc!Served
    <3>3. j # i
      BY <2>3, <3>2 DEF Adc!FirstWith
    <3>4. Adc!FirstWith(t, b[1], j)
      BY <1>3, <1>4, <2>3, <3>2, <3>3 DEF Adc!FirstWith
    <3> QED BY <1>4, <3>2, <3>3, <3>4
  <2> QED BY <2>2, <2>3
<1> QED BY <1>5, <1>6, <1>7, <1>8, <1>9 DEF Adc!GoodTable

\* button_adc_deinit: the key of a button leaves its slot.
LEMMA ClearKey ==
  ASSUME NEW s, NEW own, Adc!GoodTable(s, own), NEW c \in Channels, NEW k \in Keys, <<c, k>> \in own,
         NEW i \in Adc!Slots, Adc!FirstWith(s, c, i),
         NEW t, t = [s EXCEPT ![i] = IF s[i].keys \subseteq {k} THEN Adc!Free
                                     ELSE [s[i] EXCEPT !.keys = s[i].keys \ {k}]]
  PROVE  Adc!GoodTable(t, own \ {<<c, k>>})
<1>1. s \in [Adc!Slots -> Adc!SlotRecord] /\ own \subseteq Channels \X Keys
  BY DEF Adc!GoodTable
<1>2. \A b \in own : b[1] = c => b[2] \in s[i].keys /\ s[i].is_init
  BY FirstIsUnique DEF Adc!GoodTable, Adc!Served
<1>3. s[i].is_init = TRUE /\ s[i].channel = c /\ s[i].keys \subseteq Keys
  <2>1. <<c, k>>[1] = c
    OBVIOUS
  <2>2. s[i].is_init
    BY <1>2, <2>1
  <2> QED BY <1>1, <2>2, RecordKinds DEF Adc!FirstWith
<1>4. \A j \in Adc!Slots : j # i => t[j] = s[j]
  BY <1>1
<1>5. CASE s[i].keys \subseteq {k}
  <2>1. t = [s EXCEPT ![i] = Adc!Free]
    BY <1>5
  <2>2. t[i] = Adc!Free /\ t[i].channel = Adc!CHANNEL_MAX /\ t[i].is_init = FALSE
    BY <1>1, <2>1 DEF Adc!Free
  <2>3. t \in [Adc!Slots -> Adc!SlotRecord]
    BY <1>1, <2>1 DEF Adc!SlotRecord
  <2>4. Adc!Distinct(t)
    BY <1>4, <2>2 DEF Adc!GoodTable, Adc!Distinct
  <2>5. Adc!ZerosLast(t)
    <3> SUFFICES ASSUME NEW a \in Adc!Slots, NEW b \in Adc!Slots, a < b, t[a] = Adc!Zero
                 PROVE  t[b] = Adc!Zero
      BY DEF Adc!ZerosLast
    <3>1. t[i] # Adc!Zero
      BY <2>2, AdcConstants DEF Adc!Zero, Adc!Free, Adc!CHANNEL_MAX
    <3>2. s[i] # Adc!Zero
      BY <1>3, InUse
    <3> QED BY <1>4, <3>1, <3>2 DEF Adc!GoodTable, Adc!ZerosLast
  <2>6. Adc!Served(t, own \ {<<c, k>>})
    <3> SUFFICES ASSUME NEW b \in own, b # <<c, k>>
                 PROVE  \E j \in Adc!Slots : Adc!FirstWith(t, b[1], j) /\ t[j].is_init /\ b[2] \in t[j].keys
      BY DEF Adc!Served
    <3>1. b[1] # c
      BY <1>1, <1>2, <1>5
    <3>2. PICK j \in Adc!Slots : Adc!FirstWith(s, b[1], j) /\ s[j].is_init /\ b[2] \in s[j].keys
      BY DEF Adc!GoodTable, Adc!Served
    <3>3. j # i
      BY <1>3, <3>1, <3>2 DEF Adc!FirstWith
    <3>4. b[1] \in Channels
      BY <1>1
    <3>5. Adc!FirstWith(t, b[1], j)
      BY <1>4, <2>2, <3>2, <3>3, <3>4, AdcConstants DEF Adc!FirstWith
    <3> QED BY <1>4, <3>2, <3>3, <3>5
  <2> QED BY <1>1, <2>3, <2>4, <2>5, <2>6 DEF Adc!GoodTable
<1>6. CASE ~(s[i].keys \subseteq {k})
  <2>1. t = [s EXCEPT ![i] = [s[i] EXCEPT !.keys = s[i].keys \ {k}]]
    BY <1>6
  <2>2. s[i] \in [channel : Channels, is_init : {TRUE}, keys : SUBSET Keys]
    BY <1>1, <1>3, InUse DEF Adc!SlotRecord
  <2>3. t[i].channel = c /\ t[i].is_init = TRUE /\ t[i].keys = s[i].keys \ {k} /\ t[i] \in Adc!SlotRecord
    <3>1. t[i] = [s[i] EXCEPT !.keys = s[i].keys \ {k}]
      BY <1>1, <2>1
    <3>2. t[i] = [channel |-> c, is_init |-> TRUE, keys |-> s[i].keys \ {k}]
      BY <1>3, <2>2, <3>1, Zenon
    <3>3. s[i].keys \ {k} \in SUBSET Keys
      BY <1>3
    <3> QED BY <3>2, <3>3, UsedRecord
  <2>4. t \in [Adc!Slots -> Adc!SlotRecord]
    BY <1>1, <2>1, <2>3
  <2>5. Adc!Distinct(t)
    BY <1>3, <1>4, <2>3 DEF Adc!GoodTable, Adc!Distinct
  <2>6. Adc!ZerosLast(t)
    <3> SUFFICES ASSUME NEW a \in Adc!Slots, NEW b \in Adc!Slots, a < b, t[a] = Adc!Zero
                 PROVE  t[b] = Adc!Zero
      BY DEF Adc!ZerosLast
    <3>1. t[i] # Adc!Zero
      BY <2>3, InUse
    <3>2. s[i] # Adc!Zero
      BY <1>3, InUse
    <3> QED BY <1>4, <3>1, <3>2 DEF Adc!GoodTable, Adc!ZerosLast
  <2>7. Adc!Served(t, own \ {<<c, k>>})
    <3> SUFFICES ASSUME NEW b \in own, b # <<c, k>>
                 PROVE  \E j \in Adc!Slots : Adc!FirstWith(t, b[1], j) /\ t[j].is_init /\ b[2] \in t[j].keys
      BY DEF Adc!Served
    <3>1. PICK j \in Adc!Slots : Adc!FirstWith(s, b[1], j) /\ s[j].is_init /\ b[2] \in s[j].keys
      BY DEF Adc!GoodTable, Adc!Served
    <3>2. Adc!FirstWith(t, b[1], j)
      BY <1>3, <1>4, <2>3, <3>1 DEF Adc!FirstWith
    <3>3. b = <<b[1], b[2]>>
      BY <1>1
    <3>4. t[j].is_init /\ b[2] \in t[j].keys
      <4>1. CASE j # i
        BY <1>4, <3>1, <4>1
      <4>2. CASE j = i
        <5>1. b[2] # k
          BY <1>3, <3>1, <3>3, <4>2 DEF Adc!FirstWith
        <5> QED BY <2>3, <3>1, <4>2, <5>1
      <4> QED BY <4>1, <4>2
    <3> QED BY <3>2, <3>4
  <2> QED BY <1>1, <2>4, <2>5, <2>6, <2>7 DEF Adc!GoodTable
<1> QED BY <1>5, <1>6

\* The table of a driver that has no button left.
LEMMA EmptyTable == Adc!GoodTable([j \in Adc!Slots |-> Adc!Zero], {})
<1>1. \A j \in Adc!Slots : [n \in Adc!Slots |-> Adc!Zero][j] = Adc!Zero /\ ~Adc!Zero.is_init
  BY Zenon DEF Adc!Zero
<1> QED BY <1>1 DEF Adc!GoodTable, Adc!SlotRecord, Adc!Distinct, Adc!ZerosLast, Adc!Served

\* What find_channel and find_unused_channel give.
LEMMA FindChannel ==
  ASSUME NEW c
  PROVE  \A i : i \in Adc!find_channel(c) <=> i \in Adc!Slots /\ Adc!FirstWith(adc_slot, c, i)
<1>1. \A i \in Adc!Slots : \A j : j \in 1 .. i - 1 <=> j \in Adc!Slots /\ j < i
  BY AdcConstants
<1> QED BY <1>1 DEF Adc!find_channel, Adc!First, Adc!FirstWith

LEMMA FindUnused ==
  ASSUME NEW i \in Adc!find_unused_channel
  PROVE  i \in Adc!Slots /\ ~adc_slot[i].is_init /\ \A j \in Adc!Slots : j < i => adc_slot[j].is_init
<1>1. \A n \in Adc!Slots : \A j : j \in 1 .. n - 1 <=> j \in Adc!Slots /\ j < n
  BY AdcConstants
<1> QED BY <1>1 DEF Adc!find_unused_channel, Adc!First

LEMMA ConcatFacts ==
  ASSUME NEW T, NEW p \in Seq(T), NEW q \in Seq(T)
  PROVE  /\ p \o q \in Seq(T) /\ Len(p \o q) = Len(p) + Len(q)
         /\ DOMAIN (p \o q) = 1 .. Len(p) + Len(q)
         /\ \A n \in 1 .. Len(p) : (p \o q)[n] = p[n]
         /\ \A n \in 1 .. Len(q) : (p \o q)[n + Len(p)] = q[n]
OBVIOUS

\* Taking the first occurrence of a button out of the list keeps every other one.
LEMMA RemoveFirstFacts ==
  ASSUME NEW T, NEW s \in Seq(T), NEW e
  PROVE  /\ Adc!RemoveFirst(s, e) \in Seq(T)
         /\ \A x \in Adc!ToSet(s) : x # e => x \in Adc!ToSet(Adc!RemoveFirst(s, e))
<1>1. CASE ~(\E n \in 1 .. Len(s) : s[n] = e)
  BY <1>1 DEF Adc!RemoveFirst
<1>2. CASE \E n \in 1 .. Len(s) : s[n] = e
  <2> DEFINE I == {n \in 1 .. Len(s) : s[n] = e}
  <2>1. I \subseteq Nat /\ I # {}
    BY <1>2
  <2>2. PICK m \in I : \A h \in I : ~(<<h, m>> \in OpToRel(<, Nat))
    BY <2>1, NatLessThanWellFounded, WFMin
  <2>3. \A h \in I : m <= h
    <3>1. \A h \in I : ~(h < m)
      BY <2>1, <2>2 DEF OpToRel
    <3> QED BY <2>1, <3>1
  <2>4. PICK k \in 1 .. Len(s) : k = Adc!SelectInSeq(s, LAMBDA v : v = e) /\ s[k] = e
    <3>1. \E x \in I : \A y \in I : x <= y
      BY <2>3
    <3>2. Adc!Min(I) \in I
      BY <3>1, Zenon DEF Adc!Min
    <3>3. Adc!SelectInSeq(s, LAMBDA v : v = e) = Adc!Min(I)
      BY <2>1 DEF Adc!SelectInSeq
    <3> QED BY <3>2, <3>3
  <2>5. PICK p, q, r : p = SubSeq(s, 1, k - 1) /\ q = SubSeq(s, k + 1, Len(s)) /\ r = p \o q
    OBVIOUS
  <2>6. Adc!RemoveFirst(s, e) = r
    BY <1>2, <2>4, <2>5 DEF Adc!RemoveFirst, Adc!RemoveAt
  <2>7. p \in Seq(T) /\ Len(p) = k - 1 /\ \A n \in 1 .. k - 1 : p[n] = s[n]
    BY <2>5
  <2>8. q \in Seq(T) /\ Len(q) = Len(s) - k /\ \A n \in 1 .. Len(s) - k : q[n] = s[n + k]
    BY <2>5
  <2>9. /\ r \in Seq(T) /\ DOMAIN r = 1 .. Len(p) + Len(q)
        /\ \A n \in 1 .. Len(p) : r[n] = p[n]
        /\ \A n \in 1 .. Len(q) : r[n + Len(p)] = q[n]
    <3>1. p \in Seq(T) /\ q \in Seq(T) /\ r = p \o q
      BY <2>5, <2>7, <2>8
    <3> QED BY <3>1, ConcatFacts
  <2>10. /\ DOMAIN r = 1 .. Len(s) - 1
         /\ \A n \in 1 .. k - 1 : r[n] = s[n]
         /\ \A n \in 1 .. Len(s) - k : r[n + (k - 1)] = s[n + k]
    BY <2>7, <2>8, <2>9
  <2>11. ASSUME NEW x \in Adc!ToSet(s), x # e PROVE x \in Adc!ToSet(r)
    <3>1. PICK n \in 1 .. Len(s) : s[n] = x
      BY <2>11 DEF Adc!ToSet
    <3>2. n # k
      BY <2>4, <2>11, <3>1
    <3>3. CASE n < k
      <4>1. n \in DOMAIN r /\ r[n] = x
        BY <2>10, <3>1, <3>3
      <4> QED BY <4>1, Zenon DEF Adc!ToSet
    <3>4. CASE n > k
      <4>1. PICK d \in 1 .. Len(s) - k : d = n - k
        BY <3>4
      <4>2. r[d + (k - 1)] = s[d + k]
        BY <2>10
      <4>3. d + k = n /\ d + (k - 1) = n - 1
        BY <4>1
      <4>4. n - 1 \in 1 .. Len(s) - 1
        BY <3>4
      <4>5. n - 1 \in DOMAIN r
        BY <2>10, <4>4
      <4>6. r[n - 1] = x
        BY <3>1, <4>2, <4>3
      <4> QED BY <4>5, <4>6, Zenon DEF Adc!ToSet
    <3> QED BY <3>2, <3>3, <3>4
  <2> QED BY <2>6, <2>9, <2>11
<1> QED BY <1>1, <1>2

LEMMA AdcInitial ==
  ASSUME Adc!Init
  PROVE  Adc!AdcInv
<1>1. Adc!GoodTable(adc_slot, adc_owned)
  BY EmptyTable DEF Adc!Init
<1>2. adc_list \in Seq(Channels \X Keys)
  BY DEF Adc!Init
<1>3. adc_timer \in BOOLEAN
  BY Zenon DEF Adc!Init
<1>4. Adc!ButtonsAreScanned
  BY DEF Adc!Init, Adc!ButtonsAreScanned
<1> QED BY <1>1, <1>2, <1>3, <1>4 DEF Adc!AdcInv

LEMMA AdcCreate ==
  ASSUME Adc!AdcInv, NEW c \in Channels, NEW k \in Keys, Adc!Create(c, k)
  PROVE  Adc!AdcInv'
<1>1. PICK s, own : s = adc_slot /\ own = adc_owned
  OBVIOUS
<1>2. Adc!GoodTable(s, own)
  BY <1>1 DEF Adc!AdcInv
<1>3. s \in [Adc!Slots -> Adc!SlotRecord]
  BY <1>2 DEF Adc!GoodTable
<1>4. PICK i \in IF Adc!find_channel(c) # {} THEN Adc!find_channel(c) ELSE Adc!find_unused_channel :
        adc_slot' = [adc_slot EXCEPT ![i] =
                       [channel |-> IF adc_slot[i].is_init THEN adc_slot[i].channel ELSE c,
                        is_init |-> TRUE, keys |-> adc_slot[i].keys \cup {k}]]
  BY DEF Adc!Create
<1>5. /\ i \in Adc!Slots
      /\ \A j \in Adc!Slots : j < i => s[j].channel # c /\ s[j] # Adc!Zero
      /\ \A j \in Adc!Slots : j # i /\ s[j].is_init => s[j].channel # c
      /\ \A b \in own : b[1] = c => b[2] \in s[i].keys
      /\ ~s[i].is_init \/ s[i].channel = c
  <2>1. CASE Adc!find_channel(c) # {}
    <3>1. i \in Adc!Slots /\ Adc!FirstWith(s, c, i)
      BY <1>1, <1>4, <2>1, FindChannel
    <3>2. \A b \in own : b[1] = c => b[2] \in s[i].keys
      BY <1>2, <3>1, FirstIsUnique DEF Adc!GoodTable, Adc!Served
    <3>3. s[i] = Adc!Zero \/ s[i].is_init
      BY <1>3, <3>1, RecordKinds, AdcConstants DEF Adc!FirstWith
    <3>4. \A j \in Adc!Slots : j < i => s[j].channel # c /\ s[j] # Adc!Zero
      <4> SUFFICES ASSUME NEW j \in Adc!Slots, j < i, s[j] = Adc!Zero PROVE FALSE
        BY <3>1 DEF Adc!FirstWith
      <4>1. s[i] = Adc!Zero
        BY <1>2, <3>1 DEF Adc!GoodTable, Adc!ZerosLast
      <4>2. s[j].channel = c
        BY <3>1, <4>1 DEF Adc!FirstWith
      <4> QED BY <3>1, <4>2 DEF Adc!FirstWith
    <3>5. \A j \in Adc!Slots : j # i /\ s[j].is_init => s[j].channel # c
      <4> SUFFICES ASSUME NEW j \in Adc!Slots, j # i, s[j].is_init, s[j].channel = c PROVE FALSE
        OBVIOUS
      <4>1. i < j
        BY <3>1, AdcConstants DEF Adc!FirstWith
      <4>2. CASE s[i].is_init
        BY <1>2, <3>1, <4>2 DEF Adc!GoodTable, Adc!Distinct, Adc!FirstWith
      <4>3. CASE s[i] = Adc!Zero
        <5>1. s[j] = Adc!Zero
          BY <1>2, <3>1, <4>1, <4>3 DEF Adc!GoodTable, Adc!ZerosLast
        <5>2. s[j].is_init = TRUE
          BY <1>3, RecordKinds
        <5> QED BY <5>1, <5>2, InUse
      <4> QED BY <3>3, <4>2, <4>3
    <3> QED BY <3>1, <3>2, <3>4, <3>5 DEF Adc!FirstWith
  <2>2. CASE Adc!find_channel(c) = {}
    <3>1. i \in Adc!Slots /\ ~s[i].is_init /\ \A j \in Adc!Slots : j < i => s[j].is_init
      BY <1>1, <1>4, <2>2, FindUnused
    <3>2. \A j \in Adc!Slots : s[j].channel # c
      BY <1>1, <2>2, FindChannel, FirstExists
    <3>3. \A b \in own : b[1] # c
      BY <1>2, <3>2 DEF Adc!GoodTable, Adc!Served, Adc!FirstWith
    <3>4. \A j \in Adc!Slots : j < i => s[j] # Adc!Zero
      BY <1>3, <3>1, RecordKinds
    <3> QED BY <3>1, <3>2, <3>3, <3>4
  <2> QED BY <2>1, <2>2
<1>6. PICK t : t = adc_slot'
  OBVIOUS
<1>7. t = [s EXCEPT ![i] = [channel |-> c, is_init |-> TRUE, keys |-> s[i].keys \cup {k}]]
  BY <1>1, <1>4, <1>5, <1>6
<1>8. Adc!GoodTable(t, own \cup {<<c, k>>})
  BY <1>2, <1>5, <1>7, UseSlot
<1>9. Adc!GoodTable(adc_slot, adc_owned)'
  BY <1>1, <1>6, <1>8 DEF Adc!Create
<1>10. adc_list' \in Seq(Channels \X Keys) /\ \A x \in Adc!ToSet(adc_list) \cup {<<c, k>>} : x \in Adc!ToSet(adc_list)'
  <2>1. PICK p, l : p = <<<<c, k>>>> /\ l = adc_list
    OBVIOUS
  <2>2. p \in Seq(Channels \X Keys) /\ l \in Seq(Channels \X Keys) /\ Len(p) = 1 /\ p[1] = <<c, k>>
    BY <2>1 DEF Adc!AdcInv
  <2>3. adc_list' = p \o l
    BY <2>1 DEF Adc!Create
  <2>4. /\ p \o l \in Seq(Channels \X Keys) /\ DOMAIN (p \o l) = 1 .. 1 + Len(l) /\ (p \o l)[1] = <<c, k>>
        /\ \A n \in 1 .. Len(l) : (p \o l)[n + 1] = l[n]
    BY <2>2, ConcatFacts
  <2>5. Adc!ToSet(adc_list) = {l[n] : n \in 1 .. Len(l)}
    BY <2>1, <2>2 DEF Adc!ToSet
  <2>6. Adc!ToSet(adc_list)' = {(p \o l)[n] : n \in 1 .. 1 + Len(l)}
    BY <2>3, <2>4 DEF Adc!ToSet
  <2>7. \A n \in 1 .. Len(l) : n + 1 \in 1 .. 1 + Len(l)
    BY <2>2
  <2>8. \A n \in 1 .. Len(l) : l[n] \in Adc!ToSet(adc_list)'
    <3> TAKE n \in 1 .. Len(l)
    <3>1. n + 1 \in 1 .. 1 + Len(l) /\ (p \o l)[n + 1] = l[n]
      BY <2>4, <2>7
    <3> QED BY <2>6, <3>1, Zenon
  <2>9. <<c, k>> \in Adc!ToSet(adc_list)'
    <3>1. 1 \in 1 .. 1 + Len(l)
      BY <2>2
    <3> QED BY <2>4, <2>6, <3>1, Zenon
  <2> QED BY <2>3, <2>4, <2>5, <2>8, <2>9
<1>11. adc_timer' = TRUE /\ adc_owned' = adc_owned \cup {<<c, k>>}
  BY DEF Adc!Create
<1>12. Adc!ButtonsAreScanned'
  <2>1. adc_owned \subseteq Adc!ToSet(adc_list)
    BY DEF Adc!AdcInv, Adc!ButtonsAreScanned
  <2>2. adc_owned' \subseteq Adc!ToSet(adc_list)'
    BY <1>10, <1>11, <2>1
  <2> QED BY <1>11, <2>2 DEF Adc!ButtonsAreScanned
<1>13. adc_timer' \in BOOLEAN
  BY <1>11, Zenon
<1> QED BY <1>9, <1>10, <1>12, <1>13 DEF Adc!AdcInv

LEMMA AdcDelete ==
  ASSUME Adc!AdcInv, NEW c \in Channels, NEW k \in Keys, Adc!Delete(c, k)
  PROVE  Adc!AdcInv'
<1>1. PICK s, own : s = adc_slot /\ own = adc_owned
  OBVIOUS
<1>2. Adc!GoodTable(s, own) /\ <<c, k>> \in own
  BY <1>1 DEF Adc!AdcInv, Adc!Delete
<1>3. PICK i \in Adc!find_channel(c) :
        LET after == Adc!WithoutKey(i, k)
            last == \A j \in Adc!Slots : ~after[j].is_init
            ok == ~last /\ adc_unit # "null"
            rest == Adc!Unlinked(c, k)
        IN  /\ adc_slot' = IF last THEN [j \in Adc!Slots |-> Adc!Zero] ELSE after
            /\ adc_list' = IF ok THEN rest ELSE adc_list
            /\ adc_timer' = IF ok /\ rest = <<>> THEN FALSE ELSE adc_timer
  BY DEF Adc!Delete
<1>4. i \in Adc!Slots /\ Adc!FirstWith(s, c, i)
  BY <1>1, <1>3, FindChannel
<1>5. PICK t : t = Adc!WithoutKey(i, k)
  OBVIOUS
<1>6. t = [s EXCEPT ![i] = IF s[i].keys \subseteq {k} THEN Adc!Free
                           ELSE [s[i] EXCEPT !.keys = s[i].keys \ {k}]]
  BY <1>1, <1>5 DEF Adc!WithoutKey
<1>7. Adc!GoodTable(t, own \ {<<c, k>>})
  BY <1>2, <1>4, <1>6, ClearKey
<1>8. adc_owned' = own \ {<<c, k>>}
  BY <1>1 DEF Adc!Delete
<1>9. PICK l, rest : l = adc_list /\ rest = Adc!Unlinked(c, k)
  OBVIOUS
<1>10. /\ l \in Seq(Channels \X Keys) /\ rest \in Seq(Channels \X Keys)
       /\ \A x \in Adc!ToSet(l) : x # <<c, k>> => x \in Adc!ToSet(rest)
  BY <1>9, RemoveFirstFacts DEF Adc!AdcInv, Adc!Unlinked
<1>11. adc_timer \in BOOLEAN /\ own \subseteq Adc!ToSet(l) /\ adc_timer
  BY <1>1, <1>2, <1>9 DEF Adc!AdcInv, Adc!ButtonsAreScanned
<1>12. CASE \A j \in Adc!Slots : ~t[j].is_init
  <2>1. own \ {<<c, k>>} = {}
    BY <1>7, <1>12 DEF Adc!GoodTable, Adc!Served
  <2>2. adc_slot' = [j \in Adc!Slots |-> Adc!Zero] /\ adc_list' = l /\ adc_timer' = adc_timer
    BY <1>3, <1>5, <1>9, <1>12
  <2>3. Adc!GoodTable(adc_slot, adc_owned)'
    BY <1>8, <2>1, <2>2, EmptyTable
  <2>4. Adc!ButtonsAreScanned'
    BY <1>8, <2>1 DEF Adc!ButtonsAreScanned
  <2>5. adc_timer' \in BOOLEAN
    BY <1>11, <2>2, Zenon
  <2> QED BY <1>10, <2>2, <2>3, <2>4, <2>5 DEF Adc!AdcInv
<1>13. CASE ~(\A j \in Adc!Slots : ~t[j].is_init)
  <2>1. /\ adc_slot' = t
        /\ adc_unit # "null" => adc_list' = rest
        /\ adc_unit # "null" => adc_timer' = IF rest = <<>> THEN FALSE ELSE adc_timer
        /\ adc_unit = "null" => adc_list' = l /\ adc_timer' = adc_timer
    BY <1>3, <1>5, <1>9, <1>13
  <2>2. Adc!GoodTable(adc_slot, adc_owned)'
    BY <1>7, <1>8, <2>1
  <2>3. adc_list' \in Seq(Channels \X Keys)
    BY <1>10, <2>1
  <2>4. adc_timer' \in BOOLEAN
    BY <1>11, <2>1, Zenon
  <2>5. Adc!ButtonsAreScanned'
    <3> SUFFICES ASSUME own \ {<<c, k>>} # {}
                 PROVE  adc_timer' /\ own \ {<<c, k>>} \subseteq Adc!ToSet(adc_list)'
      BY <1>8 DEF Adc!ButtonsAreScanned
    <3>1. own \ {<<c, k>>} \subseteq Adc!ToSet(rest)
      BY <1>10, <1>11
    <3>2. rest # <<>>
      BY <3>1 DEF Adc!ToSet
    <3>3. CASE adc_unit # "null"
      <4>1. adc_list' = rest /\ adc_timer' = adc_timer
        BY <2>1, <3>2, <3>3
      <4>2. Adc!ToSet(adc_list)' = Adc!ToSet(rest)
        BY <4>1 DEF Adc!ToSet
      <4> QED BY <1>11, <3>1, <4>1, <4>2
    <3>4. CASE adc_unit = "null"
      <4>1. adc_list' = l /\ adc_timer' = adc_timer
        BY <2>1, <3>4
      <4>2. Adc!ToSet(adc_list)' = Adc!ToSet(l)
        BY <4>1 DEF Adc!ToSet
      <4> QED BY <1>11, <4>1, <4>2
    <3> QED BY <3>3, <3>4
  <2> QED BY <2>2, <2>3, <2>4, <2>5 DEF Adc!AdcInv
<1> QED BY <1>12, <1>13

\* button_adc_init and button_adc_deinit, for every number of channels, slots and
\* buttons: every button the client has is in the slot find_channel gives for it, no
\* two slots in use are for one channel, and the timer runs and scans the button.
THEOREM SlotsTheorem == Spec => []ButtonsHaveSlots
<1>1. Init => Adc!AdcInv
  BY InitOfParts, AdcInitial
<1>2. Adc!AdcInv /\ [Next]_vars => Adc!AdcInv'
  <2> SUFFICES ASSUME Adc!AdcInv, [Next]_vars PROVE Adc!AdcInv'
    OBVIOUS
  <2>1. CASE UNCHANGED <<adc_slot, adc_owned, adc_list, adc_timer>>
    BY <2>1 DEF Adc!AdcInv, Adc!GoodTable, Adc!Distinct, Adc!ZerosLast, Adc!Served, Adc!FirstWith,
                Adc!ButtonsAreScanned
  <2>2. CASE \E c \in Channels, k \in Keys : Adc!Create(c, k) \/ Adc!Delete(c, k)
    BY <2>2, AdcCreate, AdcDelete
  <2> QED BY <2>1, <2>2, StepOfPart
          DEF Adc!Next, Adc!KeyChange, Adc!StartScan, Adc!GetKeyLevel, adcVars
<1>3. Adc!AdcInv => ButtonsHaveSlots
  <2> SUFFICES ASSUME Adc!AdcInv PROVE ButtonsHaveSlots
    OBVIOUS
  <2>1. \A b \in adc_owned :
          \E i \in Adc!find_channel(b[1]) : adc_slot[i].is_init /\ b[2] \in adc_slot[i].keys
    BY FindChannel DEF Adc!AdcInv, Adc!GoodTable, Adc!Served
  <2> QED BY <2>1 DEF ButtonsHaveSlots, Adc!ButtonsHaveSlots, Adc!AdcInv, Adc!GoodTable, Adc!Distinct
<1> QED BY <1>1, <1>2, <1>3, PTL DEF Spec
=============================================================================
