----------------------------- MODULE ButtonAdc ------------------------------
(***************************************************************************)
(* Buttons on ADC channels (button_adc.c) and the list of buttons the      *)
(* timer scans (iot_button.c): creation, deletion, the table of channels,  *)
(* the ADC unit, and the voltage shared by all of them.                    *)
(*                                                                         *)
(* The voltage of a channel is the index of the pressed button, or NoKey:  *)
(* the ranges of the buttons of a channel are disjoint.  A scan is shorter *)
(* than the 1 ms for which a sample is reused, its period longer.          *)
(* Creation and deletion do not run during a scan.                         *)
(***************************************************************************)
EXTENDS Integers, Sequences, SequencesExt, FiniteSets

CONSTANTS
  Channels,     \* ADC channels: numbers from 0
  Keys,         \* button indices of a channel
  MaxChannels,  \* ADC_BUTTON_MAX_CHANNEL
  MaxList       \* bound on the length of the list of buttons

CHANNEL_MAX == 99    \* ADC1_BUTTON_CHANNEL_MAX, not a channel

AdcAssumption ==
  Channels \subseteq Nat \ {CHANNEL_MAX} /\ MaxChannels \in Nat \ {0} /\ Keys \subseteq Nat

NoKey == -1
Slots == 1 .. MaxChannels

VARIABLES
  voltage,        \* what the keys of each channel give now
  slot,           \* g_button.ch: channel, is_init, keys with a range
  is_configured,
  unit,           \* the ADC unit behind adc1_handle: "null", "live", "deleted"
  list,           \* g_head_handle: <<channel, key>> pairs, newest first
  timer,          \* g_is_timer_running
  owned,          \* the buttons the client has created and not deleted
  vol,            \* the static vol of button_adc_get_key_level, and where it is from
  todo, sampled,  \* buttons left in this scan; slots whose last_time is in it
  level           \* the last button_adc_get_key_level: button, result, source of vol

vars == <<voltage, slot, is_configured, unit, list, timer, owned, vol, todo, sampled, level>>

\* A slot never used, and one given back.
Zero == [channel |-> 0, is_init |-> FALSE, keys |-> {}]
Free == [channel |-> CHANNEL_MAX, is_init |-> FALSE, keys |-> {}]

Init ==
  /\ voltage = [c \in Channels |-> NoKey]
  /\ slot = [i \in Slots |-> Zero] /\ is_configured = FALSE /\ unit = "null"
  /\ list = <<>> /\ timer = FALSE /\ owned = {}
  /\ vol = <<CHANNEL_MAX, NoKey>> /\ todo = <<>> /\ sampled = {} /\ level = <<>>

\* The first slot that satisfies a condition, as a set of at most one.
First(P(_)) == {i \in Slots : P(i) /\ \A j \in 1 .. i - 1 : ~P(j)}
find_channel(c) == First(LAMBDA i : slot[i].channel = c)
find_unused_channel == First(LAMBDA i : ~slot[i].is_init)

Idle == todo = <<>>

\* iot_button_create: button_adc_init, then button_create_com
Create(c, k) ==
  /\ Idle /\ Len(list) < MaxList
  /\ \E i \in IF find_channel(c) # {} THEN find_channel(c) ELSE find_unused_channel :
       /\ find_channel(c) = {} \/ k \notin slot[i].keys
       /\ slot' = [slot EXCEPT ![i] = [channel |-> IF slot[i].is_init THEN slot[i].channel ELSE c,
                                       is_init |-> TRUE, keys |-> slot[i].keys \cup {k}]]
  /\ is_configured' = TRUE /\ unit' = (IF is_configured THEN unit ELSE "live")
  /\ list' = <<<<c, k>>>> \o list /\ timer' = TRUE /\ owned' = owned \cup {<<c, k>>}
  /\ UNCHANGED <<voltage, vol, todo, sampled, level>>

\* Mutant of WithoutKey: the channel is given back while other buttons use it.
WithoutKeyFreed(i, k) ==
  [slot EXCEPT ![i] = [channel |-> CHANNEL_MAX, is_init |-> FALSE, keys |-> @.keys \ {k}]]

\* button_adc_deinit: the slot after its button is gone.
WithoutKey(i, k) ==
  [slot EXCEPT ![i] = IF slot[i].keys \subseteq {k} THEN Free
                      ELSE [slot[i] EXCEPT !.keys = slot[i].keys \ {k}]]

\* button_delete_com: the list without the button.
Unlinked(c, k) == RemoveFirst(list, <<c, k>>)

\* iot_button_delete: button_adc_deinit, which deletes the ADC unit in any case
\* (the handle is already zero if this was the last button: then it fails), and
\* button_delete_com if it succeeded.
Delete(c, k) ==
  /\ Idle /\ <<c, k>> \in owned
  /\ owned' = owned \ {<<c, k>>}
  /\ \E i \in find_channel(c) :
       LET after == WithoutKey(i, k)
           last == \A j \in Slots : ~after[j].is_init
           ok == ~last /\ unit # "null"
           rest == Unlinked(c, k)
       IN  /\ slot' = IF last THEN [j \in Slots |-> Zero] ELSE after
           /\ is_configured' = (is_configured /\ ~last)
           /\ unit' = IF ok THEN "deleted" ELSE "null"
           /\ list' = IF ok THEN rest ELSE list
           /\ timer' = IF ok /\ rest = <<>> THEN FALSE ELSE timer
  /\ UNCHANGED <<voltage, vol, todo, sampled, level>>

\* A key is pressed or released.
KeyChange(c, v) ==
  /\ voltage' = [voltage EXCEPT ![c] = v]
  /\ UNCHANGED <<slot, is_configured, unit, list, timer, owned, vol, todo, sampled, level>>

\* button_cb
StartScan ==
  /\ Idle /\ timer /\ list # <<>>
  /\ todo' = list /\ sampled' = {}
  /\ UNCHANGED <<voltage, slot, is_configured, unit, list, timer, owned, vol, level>>

\* button_adc_get_key_level, called by button_handler for the next button of the
\* list.  get_adc_voltage gives no sense once the unit is deleted.
GetKeyLevel ==
  /\ todo # <<>>
  /\ todo' = Tail(todo)
  /\ LET c == Head(todo)[1]
         k == Head(todo)[2]
     IN  IF find_channel(c) = {}
         THEN level' = <<c, k, FALSE, c>> /\ UNCHANGED <<vol, sampled>>
         ELSE \E i \in find_channel(c) :
                /\ IF i \in sampled THEN UNCHANGED <<vol, sampled>>
                   ELSE /\ vol' \in {c} \X IF unit = "live" THEN {voltage[c]} ELSE Keys \cup {NoKey}
                        /\ sampled' = sampled \cup {i}
                /\ level' = <<c, k, k \in slot[i].keys /\ vol'[2] = k, vol'[1]>>
  /\ UNCHANGED <<voltage, slot, is_configured, unit, list, timer, owned>>

Next ==
  \/ \E c \in Channels, k \in Keys : Create(c, k) \/ Delete(c, k)
  \/ \E c \in Channels, v \in Keys \cup {NoKey} : KeyChange(c, v)
  \/ StartScan \/ GetKeyLevel

Spec == Init /\ [][Next]_vars

-----------------------------------------------------------------------------
\* button_adc_init, button_adc_deinit: whatever was created and deleted before, each
\* button of the client has its range in the slot find_channel gives for it, and no
\* two slots in use are for the same channel.
ButtonsHaveSlots ==
  /\ \A b \in owned : \E i \in find_channel(b[1]) : slot[i].is_init /\ b[2] \in slot[i].keys
  /\ \A i, j \in Slots : slot[i].is_init /\ slot[j].is_init /\ slot[i].channel = slot[j].channel => i = j

\* A button is never left out of the scan: the timer runs as long as the client has
\* one, and it is in the list.
ButtonsAreScanned == owned # {} => timer /\ owned \subseteq ToSet(list)

\* "if all button is deleted, stop the timer" (iot_button.c)
AllDeletedStopsTimer == owned = {} => ~timer

\* "the last time of adc sample" of a channel, with the channel's buttons: a button
\* is reported down only when the key sampled on its own channel is its own.
NoForeignVoltage == level # <<>> /\ level[3] => level[4] = level[1]

-----------------------------------------------------------------------------
(* The inductive invariant of the proofs.                                  *)

SlotRecord == [channel : Channels, is_init : {TRUE}, keys : SUBSET Keys] \cup {Zero, Free}

\* Slot i is the first for channel c in the table t.
FirstWith(t, c, i) == t[i].channel = c /\ \A j \in Slots : j < i => t[j].channel # c

Distinct(t) == \A i, j \in Slots : t[i].is_init /\ t[j].is_init /\ t[i].channel = t[j].channel => i = j

\* The slots never used since the last button was deleted are the last ones, so that
\* channel 0, which such a slot also names, is found in its own slot first.
ZerosLast(t) == \A i, j \in Slots : i < j /\ t[i] = Zero => t[j] = Zero

Served(t, buttons) ==
  \A b \in buttons : \E i \in Slots : FirstWith(t, b[1], i) /\ t[i].is_init /\ b[2] \in t[i].keys

\* The table t serves these buttons.
GoodTable(t, buttons) ==
  /\ t \in [Slots -> SlotRecord] /\ buttons \subseteq Channels \X Keys
  /\ Distinct(t) /\ ZerosLast(t) /\ Served(t, buttons)

AdcInv ==
  /\ GoodTable(slot, owned) /\ ButtonsAreScanned
  /\ list \in Seq(Channels \X Keys) /\ timer \in BOOLEAN
=============================================================================
