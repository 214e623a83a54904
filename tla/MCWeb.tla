-------------------------------- MODULE MCWeb --------------------------------
(* Small instances of Web for TLC: two connections and two tool uses of a    *)
(* tool whose start is broadcast and whose approval is configured.           *)
EXTENDS Web, TLC

CONSTANTS c1, c2, b1, b2, agent, bash

BothAgent == [b \in {b1, b2} |-> agent]
Messages ==
    [kind : {"chat", "abort", "notify"}]
    \cup [kind : {"answer"}, block : {b1}, verdict : {"always_approve", "deny"}]
    \cup [kind : {"bulk"}, approve : {TRUE}, tool : {AnyTool}]
=============================================================================
