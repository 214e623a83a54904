--------------------------- MODULE HandoffPromise ---------------------------
(* What a handoff between the agents of a War Room promises: a question has  *)
(* one outcome, at most one agent takes it, an answer comes from the agent   *)
(* that took it, and nobody answers a question of its own.                   *)
CONSTANTS Request, Agent, NoAgent

VARIABLES
    state,     \* "idle", "asked", "answered" or "failed"
    asker,     \* the agent that asked; NoAgent for the chat tool
    taker      \* the agent that took the request, if any

vars == <<state, asker, taker>>

Init ==
    /\ state = [r \in Request |-> "idle"]
    /\ asker = [r \in Request |-> NoAgent]
    /\ taker = [r \in Request |-> NoAgent]

Ask(r, a) ==
    /\ state[r] = "idle"
    /\ state' = [state EXCEPT ![r] = "asked"]
    /\ asker' = [asker EXCEPT ![r] = a]
    /\ UNCHANGED taker

\* A request whose call has failed may still be taken; its answer goes nowhere.
Take(r, b) ==
    /\ state[r] \in {"asked", "failed"} /\ taker[r] = NoAgent
    /\ state[r] = "asked" => b # asker[r]
    /\ taker' = [taker EXCEPT ![r] = b]
    /\ UNCHANGED <<state, asker>>

Answer(r) ==
    /\ state[r] = "asked" /\ taker[r] # NoAgent
    /\ state' = [state EXCEPT ![r] = "answered"]
    /\ UNCHANGED <<asker, taker>>

\* There is no such session.
Refuse(r, a) ==
    /\ state[r] = "idle"
    /\ state' = [state EXCEPT ![r] = "failed"]
    /\ asker' = [asker EXCEPT ![r] = a]
    /\ UNCHANGED taker

Fail(r) ==
    /\ state[r] = "asked"
    /\ state' = [state EXCEPT ![r] = "failed"]
    /\ UNCHANGED <<asker, taker>>

Next == \E r \in Request :
            \/ \E a \in Agent \cup {NoAgent} : Ask(r, a) \/ Refuse(r, a)
            \/ \E b \in Agent : Take(r, b)
            \/ Answer(r) \/ Fail(r)

Spec == Init /\ [][Next]_vars
=============================================================================
