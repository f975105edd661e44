----------------------------- MODULE TriacTimer -----------------------------
(***************************************************************************)
(* Phase control of the triac: the interrupt handlers of SliderDriver.     *)
(*                                                                         *)
(* gpio_isr_handler starts the timer at each zero crossing of the mains;   *)
(* on_timer_alarm_cb stops it at the alarm and pulses the gate, and the    *)
(* triac conducts until the next zero crossing.  Tasks reprogram the alarm *)
(* at any time (set_power).  Time is counted in timer ticks.               *)
(*                                                                         *)
(* The general purpose timer and the mains are external: starting a        *)
(* running timer is an error that changes nothing, an alarm set below the  *)
(* count fires at once, and half periods vary a little in length.          *)
(***************************************************************************)
EXTENDS Integers, FiniteSetsExt

CONSTANTS Delays,       \* firing delays set_power programs
          HalfPeriods   \* lengths of the mains half period

TimingAssumption ==
  /\ Delays \subseteq Nat \ {0}
  /\ HalfPeriods \subseteq Nat \ {0} /\ HalfPeriods # {}

VARIABLES
  phase,        \* ticks since the last zero crossing
  length,       \* length of the current half period
  running, count, alarm,          \* the timer
  syncPending, alarmPending,      \* interrupts raised and not yet served
  firedAt,      \* phases of the gate pulses of this half period
  quiet         \* half periods the alarm has been unchanged, up to 2

vars == <<phase, length, running, count, alarm, syncPending, alarmPending, firedAt, quiet>>

Shortest == Min(HalfPeriods)

Init ==
  /\ phase = 0 /\ length \in HalfPeriods
  /\ running = FALSE /\ count = 0 /\ alarm \in Delays
  /\ syncPending = FALSE /\ alarmPending = FALSE
  /\ firedAt = {} /\ quiet = 0

-----------------------------------------------------------------------------
\* Mutant of SyncIsr: every sync restarts the count.
SyncClearsCount ==
  /\ syncPending
  /\ syncPending' = FALSE
  /\ count' = 0
  /\ running' = TRUE
  /\ UNCHANGED <<phase, length, alarm, alarmPending, firedAt, quiet>>

\* gpio_isr_handler: restart_timer.
SyncIsr ==
  /\ syncPending
  /\ syncPending' = FALSE
  /\ running' = TRUE
  /\ UNCHANGED <<phase, length, count, alarm, alarmPending, firedAt, quiet>>

\* Mutant of AlarmIsr: the count is not cleared.
AlarmKeepsCount ==
  /\ alarmPending
  /\ alarmPending' = FALSE
  /\ running' = FALSE
  /\ firedAt' = firedAt \cup {phase}
  /\ UNCHANGED <<phase, length, count, alarm, syncPending, quiet>>

\* on_timer_alarm_cb: stop_timer (the count goes back to 0), then the pulse.
AlarmIsr ==
  /\ alarmPending
  /\ alarmPending' = FALSE
  /\ running' = FALSE /\ count' = 0
  /\ firedAt' = firedAt \cup {phase}
  /\ UNCHANGED <<phase, length, alarm, syncPending, quiet>>

\* gptimer_set_alarm_action, called by set_power in any task.
SetAlarm(d) ==
  /\ d # alarm
  /\ alarm' = d
  /\ alarmPending' = (alarmPending \/ (running /\ count >= d))
  /\ quiet' = 0
  /\ UNCHANGED <<phase, length, running, count, syncPending, firedAt>>

\* A tick; pending interrupts are served within it.
Tick ==
  /\ ~syncPending /\ ~alarmPending
  /\ count' = IF running THEN count + 1 ELSE count
  /\ alarmPending' = (running /\ count' >= alarm)
  /\ IF phase + 1 < length
     THEN phase' = phase + 1 /\ UNCHANGED <<length, syncPending, firedAt, quiet>>
     ELSE /\ phase' = 0 /\ length' \in HalfPeriods
          /\ syncPending' = TRUE /\ firedAt' = {}
          /\ quiet' = IF quiet < 2 THEN quiet + 1 ELSE 2
  /\ UNCHANGED <<running, alarm>>

Next == SyncIsr \/ AlarmIsr \/ Tick \/ (\E d \in Delays : SetAlarm(d))

Spec == Init /\ [][Next]_vars

FairSpec == Spec /\ WF_vars(SyncIsr) /\ WF_vars(AlarmIsr) /\ WF_vars(Tick)

-----------------------------------------------------------------------------
\* gpio_isr_handler and on_timer_alarm_cb: once the delay has been left alone
\* for two half periods, the gate is pulsed at that phase of every half period
\* and at no other, whatever was programmed before and however it raced with
\* the interrupts.
FiresAtDelay ==
  quiet = 2 /\ alarm < Shortest /\ ~syncPending /\ ~alarmPending
    => firedAt = IF phase < alarm THEN {} ELSE {alarm}

\* Both handlers: the timer is never left running with its alarm behind it,
\* where no later sync could restart it.
NeverOverrun == running /\ ~alarmPending => count < alarm

\* Both handlers: the triac is fired again and again, whatever the tasks
\* program, even a delay longer than the half period, during which a sync finds
\* the timer still running.
KeepsFiring == []<>(firedAt # {})

-----------------------------------------------------------------------------
(* The inductive invariant of the proofs.                                  *)

TriacType ==
  /\ phase \in Nat /\ length \in HalfPeriods /\ phase < length
  /\ running \in BOOLEAN /\ count \in Nat /\ alarm \in Delays
  /\ syncPending \in BOOLEAN /\ alarmPending \in BOOLEAN
  /\ quiet \in 0 .. 2

\* A stopped timer stands at 0 and raises no alarm; a sync is served within its tick.
TimerInv ==
  /\ ~running => count = 0 /\ ~alarmPending
  /\ syncPending => phase = 0
  /\ NeverOverrun

\* In the first whole half period with this delay the timer, when it runs, is not
\* behind the phase: it fires, and stops, before the half period ends.
SettlingInv == quiet = 1 /\ running => count >= phase

\* From the second on each half period goes through three stages: waiting for the
\* sync, counting with the phase, fired.
SettledInv ==
  quiet = 2 /\ alarm < Shortest =>
    \/ syncPending /\ ~running /\ firedAt = {}
    \/ /\ ~syncPending /\ running /\ count = phase /\ firedAt = {}
       /\ phase <= alarm /\ (alarmPending <=> phase = alarm)
    \/ ~syncPending /\ ~running /\ phase >= alarm /\ firedAt = {alarm}

TriacInv == TriacType /\ TimerInv /\ SettlingInv /\ SettledInv
=============================================================================
