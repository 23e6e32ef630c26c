------------------------------ MODULE MCAlerts ------------------------------
(***************************************************************************)
(* FFAlerts for TLC: two kinds, three events against a queue of two, and    *)
(* three settings: follows with art and sound of their own; another pack,  *)
(* with follows switched off and shorter alerts; the first one paused.     *)
(***************************************************************************)
EXTENDS FFAlerts

CONSTANTS follow, raid, packA, packB, hop, burst, chime, horn

Event(id, k) == [id |-> id, kind |-> k]

MCKinds == {follow, raid}
MCEvents == {Event(1, follow), Event(2, raid), Event(3, follow)}

Usual ==
  [enabled |-> [k \in MCKinds |-> TRUE], paused |-> FALSE, duration |-> 2, pack |-> packA,
   preset |-> [k \in MCKinds |-> IF k = follow THEN hop ELSE Unset], sharedPreset |-> burst,
   sound |-> [k \in MCKinds |-> IF k = follow THEN chime ELSE Unset], sharedSound |-> horn]

NoFollows ==
  [Usual EXCEPT !.enabled[follow] = FALSE, !.duration = 1, !.pack = packB,
                !.sharedSound = Unset]

MCSettings == {Usual, NoFollows, [Usual EXCEPT !.paused = TRUE]}

MCAlertPresets == {<<packA, hop>>, <<packA, burst>>, <<packB, burst>>}
=============================================================================
