------------------------------ MODULE MCOperator ------------------------------
(* A small instance of Operator for TLC: two operators that both fit, so that *)
(* one can be enabled again while it runs, and the third Enable evicts; one   *)
(* cycle (OperatorProofs is about any number) and two loops.                  *)
EXTENDS Operator, TLC

CONSTANTS o1, o2, k1, l1, l2, notify, warroom

Escalation == [n \in {1} |-> {notify, warroom}]
=============================================================================
