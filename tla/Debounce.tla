------------------------------ MODULE Debounce ------------------------------
(***************************************************************************)
(* The two debounces of IODriver on the wrapping tick counter: buttonCb    *)
(* restarts its window on every edge, sliderTask only when it handles a    *)
(* change.  The counter wraps at Modulus (2^32 ticks, 49 days at 1 kHz).   *)
(***************************************************************************)
EXTENDS Integers

CONSTANTS Modulus,              \* number of tick values
          DEBOUNCE_TIME, DEBOUNCE_TIME_TOUCH,
          PollTicks             \* ticks between two polls of sliderTask

DebounceAssumption ==
  /\ Modulus \in Nat /\ DEBOUNCE_TIME \in Nat /\ DEBOUNCE_TIME_TOUCH \in Nat
  /\ PollTicks \in Nat \ {0}
  /\ DEBOUNCE_TIME < Modulus - 1 /\ DEBOUNCE_TIME_TOUCH + PollTicks < Modulus

VARIABLES now, old_tick_btn, old_tick_touch,
          sinceEdge,    \* true ticks since the last edge, up to 2 * Modulus
          sinceRead,    \* true ticks since the last handled change, likewise
          waiting,      \* ticks a change has been pending, -1: none
          nextPoll,     \* ticks until the next poll
          pressed       \* verdict on the last edge

vars == <<now, old_tick_btn, old_tick_touch, sinceEdge, sinceRead, waiting, nextPoll, pressed>>

Horizon == 2 * Modulus
None    == -1

Init ==
  /\ now = 0 /\ old_tick_btn = 0 /\ old_tick_touch = 0
  /\ sinceEdge = 0 /\ sinceRead = 0
  /\ waiting = None /\ nextPoll = PollTicks /\ pressed = FALSE

\* Mutant of Passed: the end of the window computed instead of the difference.
PassedByAbsolute(old, window) == now > old + window

\* tick_now - old_tick > window, in uint32_t arithmetic
Passed(old, window) == (now - old) % Modulus > window

\* buttonCb
Edge ==
  /\ pressed' = Passed(old_tick_btn, DEBOUNCE_TIME)
  /\ old_tick_btn' = now /\ sinceEdge' = 0
  /\ UNCHANGED <<now, old_tick_touch, sinceRead, waiting, nextPoll>>

TouchChange ==
  /\ waiting = None
  /\ waiting' = 0
  /\ UNCHANGED <<now, old_tick_btn, old_tick_touch, sinceEdge, sinceRead, nextPoll, pressed>>

\* The touch part of a poll of sliderTask, then its delay.
Poll ==
  /\ nextPoll = 0
  /\ nextPoll' = PollTicks
  /\ IF waiting # None /\ Passed(old_tick_touch, DEBOUNCE_TIME_TOUCH)
     THEN old_tick_touch' = now /\ waiting' = None /\ sinceRead' = 0
     ELSE UNCHANGED <<old_tick_touch, waiting, sinceRead>>
  /\ UNCHANGED <<now, old_tick_btn, sinceEdge, pressed>>

Tick ==
  /\ nextPoll > 0
  /\ nextPoll' = nextPoll - 1
  /\ now' = (now + 1) % Modulus
  /\ sinceEdge' = IF sinceEdge < Horizon THEN sinceEdge + 1 ELSE Horizon
  /\ sinceRead' = IF sinceRead < Horizon THEN sinceRead + 1 ELSE Horizon
  /\ waiting' = IF waiting = None THEN None ELSE waiting + 1
  /\ UNCHANGED <<old_tick_btn, old_tick_touch, pressed>>

Next == Edge \/ TouchChange \/ Poll \/ Tick

Spec == Init /\ [][Next]_vars

-----------------------------------------------------------------------------
\* buttonCb: an edge within the window of the one before (a bounce) is never a
\* press, wherever the counter wraps; an edge after the window and within one
\* turn of the counter always is.
EdgesAreJudged ==
  [][Edge => /\ sinceEdge <= DEBOUNCE_TIME => ~pressed'
             /\ DEBOUNCE_TIME < sinceEdge /\ sinceEdge < Modulus => pressed']_vars

\* sliderTask: two handled changes are more than the window apart.
ReadsAreApart == [][waiting # None /\ waiting' = None => sinceRead > DEBOUNCE_TIME_TOUCH]_vars

\* sliderTask: a change waits for the rest of the window and two polls at most,
\* even when the counter has gone once round and old_tick_touch looks recent again
\* (the first poll is that of the change, the second the one that sees the end of
\* the window).
TouchWaitIsBounded == waiting <= DEBOUNCE_TIME_TOUCH + 2 * PollTicks

-----------------------------------------------------------------------------
(* The inductive invariant of the proofs.                                  *)

DebounceType ==
  /\ {now, old_tick_btn, old_tick_touch} \subseteq 0 .. Modulus - 1
  /\ {sinceEdge, sinceRead} \subseteq 0 .. Horizon
  /\ waiting \in Nat \cup {None} /\ nextPoll \in 0 .. PollTicks

\* The difference the code computes from a stored tick.
Elapsed(old) == (now - old) % Modulus

\* Up to one turn of the counter it is the true time.
ClockInv ==
  /\ sinceEdge < Modulus => Elapsed(old_tick_btn) = sinceEdge
  /\ sinceRead < Modulus => Elapsed(old_tick_touch) = sinceRead

\* A pending change has seen no poll yet, or the last poll found the window open and
\* the next will come before the counter is round again.
WaitInv ==
  waiting # None =>
    \/ waiting + nextPoll <= PollTicks
    \/ /\ Elapsed(old_tick_touch) + nextPoll <= DEBOUNCE_TIME_TOUCH + PollTicks
       /\ waiting <= Elapsed(old_tick_touch) + PollTicks

DebounceInv == DebounceType /\ ClockInv /\ WaitInv
=============================================================================
