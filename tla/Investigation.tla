---------------------------- MODULE Investigation ----------------------------
(* What the "4-Phase Staged Execution" of README.md:40-58 promises: domain   *)
(* agents investigate together, then the reasoner works alone, then further  *)
(* domain agents may join, and the reasoner closes.  A phase begins when     *)
(* everybody of the phase before has reported or failed.                     *)
EXTENDS Naturals

CONSTANTS Agent, Reasoner

VARIABLES phase,    \* 0 before the first phase, 5 at the end
          busy      \* who is at work

vars == <<phase, busy>>

Members(p) == CASE p \in {1, 3} -> Agent
                [] p \in {2, 4} -> {Reasoner}
                [] OTHER        -> {}

Init == phase = 0 /\ busy = {}

Join(a) ==
    /\ a \in Members(phase)
    /\ busy' = busy \cup {a}
    /\ UNCHANGED phase

Report(a) ==
    /\ a \in busy
    /\ busy' = busy \ {a}
    /\ UNCHANGED phase

\* The next phase begins with some of its members.
Advance ==
    /\ busy = {} /\ phase < 4
    /\ phase' = phase + 1
    /\ busy' \in SUBSET Members(phase')

\* Cancelled, or nothing left to do.
End ==
    /\ busy = {} /\ phase \in 1..4
    /\ phase' = 5
    /\ UNCHANGED busy

Next == \/ \E a \in Agent \cup {Reasoner} : Join(a) \/ Report(a)
        \/ Advance \/ End

Spec == Init /\ [][Next]_vars
=============================================================================
