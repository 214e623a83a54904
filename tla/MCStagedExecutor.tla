--------------------------- MODULE MCStagedExecutor ---------------------------
(* Small instances of StagedExecutor for TLC: the two default agents and a   *)
(* third, with room for two in phase 1; the reasoner belongs to the session, *)
(* as with AllAgentTypes, or does not.                                       *)
EXTENDS StagedExecutor, TLC

CONSTANTS infra, app, net, reasoning

Order == net :> 1 @@ infra :> 2 @@ app :> 3
Sets  == {{net, infra, app, reasoning}, {infra}}
=============================================================================
