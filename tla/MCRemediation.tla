---------------------------- MODULE MCRemediation ----------------------------
(* Small instances of Remediation for TLC: a runbook whose gate comes before *)
(* a step that stops the action, and one that needs autonomy, with two steps *)
(* that can be undone and whose failure is ignored, and one that rolls back. *)
EXTENDS Remediation, TLC

CONSTANTS a1, a2, c1, c2, d1

Work(p, u) == [type |-> "work", onFailure |-> p, rollback |-> u]
Approval   == [type |-> "approval", onFailure |-> "stop", rollback |-> FALSE]

Gated  == [steps |-> <<Approval, Work("stop", FALSE)>>, autonomy |-> 0]
Scaled == [steps |-> <<Work("skip", TRUE), Work("continue", TRUE), Work("rollback", FALSE)>>,
           autonomy |-> 2]
Both   == {Gated, Scaled}
=============================================================================
