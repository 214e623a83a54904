------------------------------- MODULE MCAlerts -------------------------------
(* A small instance of Alerts for TLC: two events and a watchdog alert of one *)
(* service, two callbacks at a time.                                          *)
EXTENDS Alerts, TLC

CONSTANTS e1, e2, a1, a2, w, db, k1, k2

EventAlerts == e1 :> a1 @@ e2 :> a2
AllDb == [a \in {a1, a2, w} |-> db]
Settings == {[enabled |-> TRUE, max |-> 1], [enabled |-> FALSE, max |-> 1]}
Callbacks == Permutations({k1, k2})
=============================================================================
