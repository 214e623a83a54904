----------------------------- MODULE ToolApproval -----------------------------
(* What the web server promises about the tools its chats use: a use that    *)
(* needs a user's approval runs only after one, at most one answer decides   *)
(* it, and no use runs twice, or at all after it was refused or given up.    *)
CONSTANTS Use, Gated, Tool, ToolOf, Client

VARIABLES
    state,     \* "idle", "asked", "granted", "refused", "running" or "over"
    trusted    \* the tools each client has approved for good

vars == <<state, trusted>>

Init ==
    /\ state = [u \in Use |-> "idle"]
    /\ trusted = [c \in Client |-> {}]

\* A chat of c comes to a use of a tool: it runs at once, or is asked about.
Begin(u, c) ==
    /\ state[u] = "idle"
    /\ state' = [state EXCEPT ![u] = IF u \in Gated /\ ToolOf[u] \notin trusted[c]
                                     THEN "asked" ELSE "running"]
    /\ UNCHANGED trusted

\* Somebody answers some of the requests, all of them with the same verdict.
Decide(S, verdict) ==
    /\ \A u \in S : state[u] = "asked"
    /\ state' = [u \in Use |-> IF u \in S THEN verdict ELSE state[u]]
    /\ UNCHANGED trusted

\* c approves the use, and its tool for good.
Trust(u, c) ==
    /\ state[u] = "asked"
    /\ state' = [state EXCEPT ![u] = "granted"]
    /\ trusted' = [trusted EXCEPT ![c] = @ \cup {ToolOf[u]}]

Run(u) ==
    /\ state[u] = "granted"
    /\ state' = [state EXCEPT ![u] = "running"]
    /\ UNCHANGED trusted

\* The use is over: it ran, was refused, or nobody answered in time.  An
\* approval in the last moment comes too late.
End(u) ==
    /\ state[u] \in {"asked", "granted", "refused", "running"}
    /\ state' = [state EXCEPT ![u] = "over"]
    /\ UNCHANGED trusted

Next ==
    \/ \E u \in Use : Run(u) \/ End(u) \/ \E c \in Client : Begin(u, c) \/ Trust(u, c)
    \/ \E S \in SUBSET Use, verdict \in {"granted", "refused"} : Decide(S, verdict)

Spec == Init /\ [][Next]_vars
=============================================================================
