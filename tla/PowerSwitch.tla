---------------------------- MODULE PowerSwitch ----------------------------
(***************************************************************************)
(* What the firmware promises about switching the light, whoever asks for  *)
(* it: one update of the OnOff attribute at a time moves the relay and     *)
(* then becomes the attribute's value.  A power cycle opens the relay; the *)
(* attribute may then differ from it until the next update.                *)
(***************************************************************************)
CONSTANT Default        \* value a newly created attribute may take

VARIABLES relay, attr, busy, synced
vars == <<relay, attr, busy, synced>>

Init == relay = FALSE /\ attr \in BOOLEAN /\ busy = FALSE /\ synced = FALSE

\* The relay moves; attribute and relay may differ until the commit.
Switch ==
  /\ ~busy
  /\ relay' \in BOOLEAN /\ busy' = TRUE
  /\ UNCHANGED <<attr, synced>>

Commit ==
  /\ busy
  /\ attr' = relay /\ busy' = FALSE /\ synced' = TRUE
  /\ UNCHANGED relay

\* A booting node restores the attribute or gives it its default value.
Restore ==
  /\ ~busy /\ ~synced
  /\ attr' = Default
  /\ UNCHANGED <<relay, busy, synced>>

PowerCycle == relay' = FALSE /\ busy' = FALSE /\ synced' = FALSE /\ UNCHANGED attr

Next == Switch \/ Commit \/ Restore \/ PowerCycle

Spec == Init /\ [][Next]_vars
=============================================================================
