------------------------------- MODULE WebProofs -------------------------------
(* For any number of browsers, tool uses and any capacities: approval requests *)
(* are awaited and answered once, tools run only as approved, and the hub      *)
(* survives its clients.  The inductive invariant has a part for the hub, one  *)
(* for the tool loops of the chats and one for the approval requests.          *)
EXTENDS Web, SequenceTheorems, TLAPS

AtTool == {"ask", "wait", "expired", "exec"}
Aside == {"out", "read", "unregister", "gone", "model", "tools"}

\* A client whose channel is closed has left the hub and does not come back.
HubPart ==
    /\ inbox \in [Client -> Seq(Sent)] /\ sent \in 0..MaxSent
    /\ closed \in [Client -> BOOLEAN] /\ clients \subseteq Client
    /\ broadcasts \in 0..HubCap /\ queued \in [Client -> 0..SendCap]
    /\ crash \in {"no", "pump"}
    /\ \A c \in Client : /\ c \in clients => ~closed[c] /\ pc[c] # "out"
                         /\ pc[c] = "out" => ~closed[c]

\* Chats work on disjoint sets of tool uses, each at one of its own.
ToolPart ==
    /\ pc \in [Client -> AtTool \cup Aside]
    /\ cancels \subseteq Client /\ used \subseteq Block
    /\ todo \in [Client -> SUBSET used]
    /\ cur \in [Client -> Block \cup {NoBlock}]
    /\ rounds \in [Client -> 0..MaxRounds]
    /\ \A c \in Client : /\ pc[c] \in AtTool => cur[c] \in todo[c]
                         /\ pc[c] \in Aside => cur[c] = NoBlock
                         /\ pc[c] = "model" => rounds[c] < MaxRounds
    /\ \A c, d \in Client : c # d => todo[c] \cap todo[d] = {}

Approvals == {"approved", "always_approved"}

\* Nothing is decided about a tool use before its request is registered.
Undecided ==
    /\ \A b \in Block : decision[b] # "none" => b \in used /\ b \notin pending
    /\ \A c \in Client : \A b \in todo[c] :
          cur[c] # b \/ pc[c] = "ask" => decision[b] = "none"

GatePart ==
    /\ pending \subseteq Block /\ meta \subseteq Block
    /\ box \in [Block -> {"empty", "yes", "no"}]
    /\ auto \in [Client -> SUBSET Tool] /\ decision \in [Block -> Decisions]
    /\ \A b \in Block : box[b] = "yes" => decision[b] \in Approvals
    /\ Undecided

WebInv == HubPart /\ ToolPart /\ GatePart /\ RequestsAwaited /\ RunsApproved

LEMMA InvImplies == WebInv => TypeOK /\ HubSurvives
BY DEF WebInv, HubPart, ToolPart, GatePart, TypeOK, HubSurvives, AtTool, Aside, Chatting

-----------------------------------------------------------------------------
(* The hub.                                                                  *)

\* What a handler does to channels: it may say and announce something, and has
\* read a message or not; nobody gets back to "out".
HubCalm ==
    /\ UNCHANGED <<clients, closed, sent>>
    /\ Silent \/ \E c \in Client : Say(c)
    /\ broadcasts' = broadcasts \/ \E announced \in BOOLEAN : Announce(announced)
    /\ inbox' = inbox \/ \E c \in Client : inbox[c] # <<>> /\ inbox' = [inbox EXCEPT ![c] = Tail(@)]
    /\ \A c \in Client : pc'[c] = "out" => pc[c] = "out"

LEMMA HubCalmStep ==
    ASSUME HubPart, HubCalm
    PROVE  HubPart'
<1> USE WebAssumption DEF HubPart, HubCalm
<1>1. queued' \in [Client -> 0..SendCap] /\ crash' \in {"no", "pump"}
  <2>1. CASE Silent
    BY <2>1 DEF Silent
  <2>2. CASE \E c \in Client : Say(c)
    BY <2>2 DEF Say
  <2>3. QED BY <2>1, <2>2
<1>2. broadcasts' \in 0..HubCap
  BY DEF Announce
<1>3. inbox' \in [Client -> Seq(Sent)]
  <2>1. CASE inbox' = inbox
    BY <2>1
  <2>2. ASSUME NEW c \in Client, inbox[c] # <<>>, inbox' = [inbox EXCEPT ![c] = Tail(@)]
        PROVE  inbox' \in [Client -> Seq(Sent)]
    <3>1. Tail(inbox[c]) \in Seq(Sent)
      BY <2>2, HeadTailProperties
    <3>2. QED BY <2>2, <3>1
  <2>3. QED BY <2>1, <2>2
<1>4. QED BY <1>1, <1>2, <1>3

-----------------------------------------------------------------------------
(* Moves of one chat.                                                        *)

\* The requests of others are not touched by what a client does that waits for
\* none and touches none.
LEMMA AsideStep ==
    ASSUME WebInv, NEW c \in Client, pc[c] \in Aside, NEW next \in Aside,
           pc' = [pc EXCEPT ![c] = next],
           next = "model" => rounds'[c] < MaxRounds,
           rounds' \in [Client -> 0..MaxRounds],
           \A d \in Client : d # c => rounds'[d] = rounds[d],
           cancels' \subseteq Client,
           UNCHANGED <<todo, cur, used, gateVars>>
    PROVE  ToolPart' /\ GatePart' /\ RequestsAwaited' /\ RunsApproved'
<1> USE DEF WebInv, gateVars, AtTool, Aside
<1>1. ToolPart'
  BY DEF ToolPart
<1>2. GatePart'
  BY DEF ToolPart, GatePart, Undecided
<1>3. RequestsAwaited'
  BY DEF ToolPart, RequestsAwaited
<1>4. RunsApproved'
  BY DEF ToolPart, RunsApproved
<1>5. QED BY <1>1, <1>2, <1>3, <1>4

\* Nothing happens to any chat.
LEMMA CalmStep ==
    ASSUME WebInv, UNCHANGED <<pc, chatVars, gateVars>>
    PROVE  ToolPart' /\ GatePart' /\ RequestsAwaited' /\ RunsApproved'
BY DEF WebInv, chatVars, gateVars, ToolPart, GatePart, Undecided, RequestsAwaited, RunsApproved

\* The model asks for tools nobody has asked for.
LEMMA AskStep ==
    ASSUME WebInv, NEW c \in Client, pc[c] = "model", NEW asked \in SUBSET (Block \ used),
           todo' = [todo EXCEPT ![c] = asked], used' = used \cup asked,
           pc' = [pc EXCEPT ![c] = "tools"], rounds' = [rounds EXCEPT ![c] = @ + 1],
           UNCHANGED <<cur, cancels, gateVars>>
    PROVE  ToolPart' /\ GatePart' /\ RequestsAwaited' /\ RunsApproved'
<1> USE WebAssumption DEF WebInv, gateVars, AtTool, Aside
<1>1. ToolPart'
  <2>1. todo' \in [Client -> SUBSET used'] /\ used' \subseteq Block
    BY DEF ToolPart
  <2>2. rounds' \in [Client -> 0..MaxRounds]
    BY DEF ToolPart
  <2>3. ASSUME NEW d \in Client, NEW e \in Client, d # e
        PROVE  todo'[d] \cap todo'[e] = {}
    BY <2>3 DEF ToolPart
  <2>4. QED BY <2>1, <2>2, <2>3 DEF ToolPart
<1>2. GatePart'
  BY DEF ToolPart, GatePart, Undecided
<1>3. RequestsAwaited'
  BY DEF ToolPart, RequestsAwaited
<1>4. RunsApproved'
  BY DEF ToolPart, RunsApproved
<1>5. QED BY <1>1, <1>2, <1>3, <1>4

\* A tool use is begun; it is executed at once only if it needs no approval.
LEMMA BeginToolStep ==
    ASSUME WebInv, NEW c \in Client, pc[c] = "tools", NEW b \in todo[c],
           cur' = [cur EXCEPT ![c] = b],
           pc' = [pc EXCEPT ![c] = IF NeedsApproval(c, b) THEN "ask" ELSE "exec"],
           UNCHANGED <<todo, rounds, used, cancels, gateVars>>
    PROVE  ToolPart' /\ GatePart' /\ RequestsAwaited' /\ RunsApproved'
<1> USE DEF WebInv, gateVars, AtTool, Aside
<1>1. b \in Block
  BY DEF ToolPart
<1>2. ToolPart'
  BY <1>1 DEF ToolPart
<1>3. GatePart'
  <2>1. cur[c] = NoBlock /\ b # NoBlock
    BY <1>1, WebAssumption DEF ToolPart
  <2>2. decision[b] = "none"
    BY <2>1 DEF GatePart, Undecided
  <2>3. ASSUME NEW d \in Client, NEW a \in todo[d], cur'[d] # a \/ pc'[d] = "ask"
        PROVE  decision[a] = "none"
    <3>1. CASE d # c
      BY <2>3, <3>1 DEF ToolPart, GatePart, Undecided
    <3>2. CASE d = c
      <4>1. a # NoBlock
        BY WebAssumption DEF ToolPart
      <4>2. QED BY <2>1, <3>2, <4>1 DEF GatePart, Undecided
    <3>3. QED BY <3>1, <3>2
  <2>4. Undecided'
    BY <2>3 DEF GatePart, Undecided
  <2>5. QED BY <2>4 DEF GatePart
<1>4. RequestsAwaited'
  BY DEF ToolPart, RequestsAwaited
<1>5. RunsApproved'
  BY DEF ToolPart, RunsApproved, NeedsApproval
<1>6. QED BY <1>2, <1>3, <1>4, <1>5

\* A tool use is over; if it was waiting, its request goes with it.
LEMMA EndToolStep ==
    ASSUME WebInv, NEW c \in Client, pc[c] \in AtTool,
           pc' = [pc EXCEPT ![c] = "tools"],
           todo' = [todo EXCEPT ![c] = @ \ {cur[c]}], cur' = [cur EXCEPT ![c] = NoBlock],
           pending' = pending \ {cur[c]}, meta' = meta \ {cur[c]},
           box' = box \/ box' = [box EXCEPT ![cur[c]] = "empty"],
           UNCHANGED <<rounds, used, cancels, auto, decision>>
    PROVE  ToolPart' /\ GatePart' /\ RequestsAwaited' /\ RunsApproved'
<1> USE DEF WebInv, AtTool, Aside
<1>1. ASSUME NEW d \in Client, d # c, pc[d] \in AtTool PROVE cur[d] # cur[c]
  BY <1>1 DEF ToolPart
<1>2. ToolPart'
  BY DEF ToolPart
<1>3. GatePart'
  BY DEF ToolPart, GatePart, Undecided
<1>4. RequestsAwaited'
  <2>1. pending' = meta'
    BY DEF RequestsAwaited
  <2>2. ASSUME NEW b \in pending'
        PROVE  box'[b] = "empty" /\ \E d \in Client : cur'[d] = b /\ pc'[d] \in {"wait", "expired"}
    <3>1. b \in pending /\ b # cur[c] /\ b \in Block
      BY <2>2 DEF GatePart
    <3>2. PICK d \in Client : cur[d] = b /\ pc[d] \in {"wait", "expired"}
      BY <3>1 DEF RequestsAwaited
    <3>3. d # c /\ cur'[d] = b /\ pc'[d] = pc[d]
      BY <3>1, <3>2 DEF ToolPart
    <3>4. box'[b] = "empty"
      BY <3>1 DEF RequestsAwaited, GatePart
    <3>5. QED BY <3>2, <3>3, <3>4
  <2>3. ASSUME NEW d \in Client, pc'[d] = "wait", cur'[d] \notin pending'
        PROVE  box'[cur'[d]] # "empty"
    <3>1. d # c /\ pc[d] = "wait" /\ cur'[d] = cur[d]
      BY <2>3 DEF ToolPart
    <3>2. cur[d] # cur[c] /\ cur[d] \in Block
      BY <1>1, <3>1 DEF ToolPart
    <3>3. QED BY <2>3, <3>1, <3>2 DEF RequestsAwaited, GatePart
  <2>4. QED BY <2>1, <2>2, <2>3 DEF RequestsAwaited
<1>5. RunsApproved'
  BY DEF ToolPart, RunsApproved
<1>6. QED BY <1>2, <1>3, <1>4, <1>5

-----------------------------------------------------------------------------
(* Approval requests.                                                        *)

LEMMA RegisterStep ==
    ASSUME WebInv, NEW c \in Client, Register(c)
    PROVE  ToolPart' /\ GatePart' /\ RequestsAwaited' /\ RunsApproved'
<1> USE DEF WebInv, chatVars, AtTool, Aside
<1>1. /\ pc[c] = "ask" /\ pc' = [pc EXCEPT ![c] = "wait"]
      /\ pending' = pending \cup {cur[c]} /\ meta' = meta \cup {cur[c]}
      /\ box' = [box EXCEPT ![cur[c]] = "empty"]
      /\ UNCHANGED <<todo, cur, rounds, used, cancels, auto, decision>>
  BY DEF Register
<1>2. cur[c] \in Block /\ cur[c] \in todo[c] /\ decision[cur[c]] = "none"
  BY <1>1 DEF ToolPart, GatePart, Undecided
<1>3. ASSUME NEW d \in Client, d # c, pc[d] \in AtTool PROVE cur[d] # cur[c]
  BY <1>1, <1>3 DEF ToolPart
<1>4. ToolPart'
  BY <1>1 DEF ToolPart
<1>5. GatePart'
  BY <1>1, <1>2 DEF ToolPart, GatePart, Undecided
<1>6. RequestsAwaited'
  <2>1. pending' = meta'
    BY <1>1 DEF RequestsAwaited
  <2>2. ASSUME NEW b \in pending'
        PROVE  box'[b] = "empty" /\ \E d \in Client : cur'[d] = b /\ pc'[d] \in {"wait", "expired"}
    <3>1. CASE b = cur[c]
      BY <1>1, <1>2, <3>1 DEF ToolPart, GatePart
    <3>2. CASE b # cur[c]
      <4>1. b \in pending /\ b \in Block
        BY <1>1, <2>2, <3>2 DEF GatePart
      <4>2. PICK d \in Client : cur[d] = b /\ pc[d] \in {"wait", "expired"}
        BY <4>1 DEF RequestsAwaited
      <4>3. d # c /\ cur'[d] = b /\ pc'[d] = pc[d]
        BY <1>1, <3>2, <4>2 DEF ToolPart
      <4>4. box'[b] = "empty"
        BY <1>1, <3>2, <4>1 DEF RequestsAwaited, GatePart
      <4>5. QED BY <4>2, <4>3, <4>4
    <3>3. QED BY <3>1, <3>2
  <2>3. ASSUME NEW d \in Client, pc'[d] = "wait", cur'[d] \notin pending'
        PROVE  box'[cur'[d]] # "empty"
    <3>1. d # c /\ pc[d] = "wait" /\ cur'[d] = cur[d] /\ cur[d] \notin pending
      BY <1>1, <2>3 DEF ToolPart
    <3>2. cur[d] # cur[c] /\ cur[d] \in Block
      BY <1>3, <3>1 DEF ToolPart
    <3>3. QED BY <1>1, <3>1, <3>2 DEF RequestsAwaited, GatePart
  <2>4. QED BY <2>1, <2>2, <2>3 DEF RequestsAwaited
<1>7. RunsApproved'
  BY <1>1 DEF ToolPart, RunsApproved
<1>8. QED BY <1>4, <1>5, <1>6, <1>7

\* The timer fires, or a yes is taken: the chat moves on at its tool use.
LEMMA AtToolStep ==
    ASSUME WebInv, NEW c \in Client, pc[c] = "wait",
           NEW next \in {"expired", "exec"}, pc' = [pc EXCEPT ![c] = next],
           next = "expired" => box' = box,
           next = "exec" => /\ box[cur[c]] = "yes"
                            /\ box' = [box EXCEPT ![cur[c]] = "empty"],
           UNCHANGED <<chatVars, pending, meta, auto, decision>>
    PROVE  ToolPart' /\ GatePart' /\ RequestsAwaited' /\ RunsApproved'
<1> USE DEF WebInv, chatVars, AtTool, Aside
<1>1. cur[c] \in Block /\ cur[c] \in todo[c]
  BY DEF ToolPart
<1>2. ASSUME NEW d \in Client, d # c, pc[d] \in AtTool PROVE cur[d] # cur[c]
  BY <1>1, <1>2 DEF ToolPart
<1>3. next = "exec" => cur[c] \notin pending
  BY <1>1 DEF RequestsAwaited
<1>4. ToolPart'
  BY DEF ToolPart
<1>5. GatePart'
  BY DEF ToolPart, GatePart, Undecided
<1>6. RequestsAwaited'
  <2>1. pending' = meta'
    BY DEF RequestsAwaited
  <2>2. ASSUME NEW b \in pending'
        PROVE  box'[b] = "empty" /\ \E d \in Client : cur'[d] = b /\ pc'[d] \in {"wait", "expired"}
    <3>1. b \in pending /\ b \in Block /\ (next = "exec" => b # cur[c])
      BY <1>3, <2>2 DEF GatePart
    <3>2. PICK d \in Client : cur[d] = b /\ pc[d] \in {"wait", "expired"}
      BY <3>1 DEF RequestsAwaited
    <3>3. cur'[d] = b /\ pc'[d] \in {"wait", "expired"}
      BY <3>1, <3>2 DEF ToolPart
    <3>4. box'[b] = "empty"
      BY <3>1 DEF RequestsAwaited, GatePart
    <3>5. QED BY <3>3, <3>4
  <2>3. ASSUME NEW d \in Client, pc'[d] = "wait", cur'[d] \notin pending'
        PROVE  box'[cur'[d]] # "empty"
    <3>1. d # c /\ pc[d] = "wait" /\ cur'[d] = cur[d] /\ cur[d] \notin pending
      BY <2>3 DEF ToolPart
    <3>2. cur[d] # cur[c] /\ cur[d] \in Block
      BY <1>2, <3>1 DEF ToolPart
    <3>3. QED BY <3>1, <3>2 DEF RequestsAwaited, GatePart
  <2>4. QED BY <2>1, <2>2, <2>3 DEF RequestsAwaited
<1>7. RunsApproved'
  <2>1. next = "exec" => decision[cur[c]] \in Approvals
    BY <1>1 DEF GatePart
  <2>2. QED BY <2>1 DEF ToolPart, RunsApproved, Approvals
<1>8. QED BY <1>4, <1>5, <1>6, <1>7

\* Requests that are pending are decided, each for the first time.
LEMMA SettleStep ==
    ASSUME WebInv, NEW c \in Client, NEW blocks \in SUBSET pending, NEW yes \in BOOLEAN,
           NEW verdict \in Decisions, yes => verdict \in Approvals,
           Settle(blocks, yes, verdict),
           auto' \in [Client -> SUBSET Tool], \A d \in Client : auto[d] \subseteq auto'[d],
           UNCHANGED <<pc, chatVars>>
    PROVE  /\ ToolPart' /\ GatePart' /\ RequestsAwaited' /\ RunsApproved'
           /\ \A b \in Block : decision[b] # "none" => decision'[b] = decision[b]
<1> USE DEF WebInv, chatVars, AtTool, Aside
<1>1. /\ pending' = pending \ blocks /\ meta' = meta \ blocks
      /\ box' = [b \in Block |-> IF b \in blocks THEN (IF yes THEN "yes" ELSE "no") ELSE box[b]]
      /\ decision' = [b \in Block |-> IF b \in blocks THEN verdict ELSE decision[b]]
  BY DEF Settle
<1>2. \A b \in blocks : /\ b \in Block /\ decision[b] = "none"
                        /\ \E d \in Client : cur[d] = b /\ pc[d] \in {"wait", "expired"}
  BY DEF GatePart, Undecided, RequestsAwaited, Decisions
<1>3. \A b \in Block : decision[b] # "none" => decision'[b] = decision[b]
  BY <1>1, <1>2
<1>4. ToolPart'
  BY DEF ToolPart
<1>5. GatePart'
  <2>1. \A b \in Block : box'[b] = "yes" => decision'[b] \in Approvals
    BY <1>1 DEF GatePart
  <2>2. Undecided'
    <3>1. \A b \in Block : decision'[b] # "none" => b \in used' /\ b \notin pending'
      BY <1>1, <1>2 DEF ToolPart, GatePart, Undecided
    <3>2. ASSUME NEW d \in Client, NEW b \in todo[d], cur[d] # b \/ pc[d] = "ask"
          PROVE  decision'[b] = "none"
      <4>1. b \in Block /\ decision[b] = "none"
        BY <3>2 DEF ToolPart, GatePart, Undecided
      <4>2. b \notin blocks
        <5>1. SUFFICES ASSUME b \in blocks PROVE FALSE
          OBVIOUS
        <5>2. PICK e \in Client : cur[e] = b /\ pc[e] \in {"wait", "expired"}
          BY <1>2, <5>1
        <5>3. b \in todo[e]
          BY <5>2 DEF ToolPart
        <5>4. e = d
          BY <3>2, <5>3 DEF ToolPart
        <5>5. QED BY <3>2, <5>2, <5>4
      <4>3. QED BY <1>1, <4>1, <4>2
    <3>3. QED BY <3>1, <3>2 DEF Undecided
  <2>3. /\ pending' \subseteq Block /\ meta' \subseteq Block
        /\ box' \in [Block -> {"empty", "yes", "no"}]
        /\ decision' \in [Block -> Decisions]
    BY <1>1 DEF GatePart
  <2>4. QED BY <2>1, <2>2, <2>3 DEF GatePart
<1>6. RequestsAwaited'
  BY <1>1 DEF ToolPart, GatePart, RequestsAwaited
<1>7. RunsApproved'
  <2>1. SUFFICES ASSUME NEW d \in Client, pc[d] = "exec", cur[d] \in Gated
                 PROVE  decision'[cur[d]] \in Approvals \/ ToolOf[cur[d]] \in auto'[d]
    BY DEF RunsApproved, Approvals
  <2>2. decision[cur[d]] \in Approvals \/ ToolOf[cur[d]] \in auto[d]
    BY <2>1 DEF RunsApproved, Approvals
  <2>3. cur[d] \in Block
    BY <2>1, WebAssumption
  <2>4. QED BY <1>3, <2>2, <2>3 DEF Approvals
<1>8. QED BY <1>3, <1>4, <1>5, <1>6, <1>7

-----------------------------------------------------------------------------
(* One lemma per operation.                                                  *)

\* The invariant is kept, and what was decided stays decided.
Kept == WebInv' /\ \A b \in Block : decision[b] # "none" => decision'[b] = decision[b]

LEMMA HubBroadcastStep ==
    ASSUME WebInv, HubBroadcast
    PROVE  Kept
<1> DEFINE slow == {d \in clients : queued[d] = SendCap}
<1>1. /\ broadcasts > 0 /\ broadcasts' = broadcasts - 1
      /\ queued' = [d \in Client |-> queued[d] + (IF d \in clients \ slow THEN 1 ELSE 0)]
      /\ clients' = clients \ slow
      /\ closed' = [d \in Client |-> closed[d] \/ d \in slow]
      /\ crash' = IF \E d \in clients : closed[d] THEN "hub" ELSE crash
      /\ UNCHANGED <<pc, inbox, sent, chatVars, gateVars>>
  BY DEF HubBroadcast
<1>2. crash' = crash
  BY <1>1 DEF WebInv, HubPart
<1>3. queued' \in [Client -> 0..SendCap] /\ broadcasts' \in 0..HubCap
  BY <1>1, WebAssumption DEF WebInv, HubPart
<1>4. HubPart'
  BY <1>1, <1>2, <1>3 DEF WebInv, HubPart
<1>5. UNCHANGED <<pc, chatVars, gateVars, decision>>
  BY <1>1 DEF gateVars
<1>6. QED BY <1>4, <1>5, CalmStep DEF Kept, WebInv

LEMMA HubUnregisterStep ==
    ASSUME WebInv, NEW c \in Client, HubUnregister(c)
    PROVE  Kept
<1>1. /\ pc[c] = "unregister" /\ pc' = [pc EXCEPT ![c] = "gone"]
      /\ clients' = clients \ {c}
      /\ closed' = [closed EXCEPT ![c] = @ \/ c \in clients]
      /\ crash' = IF c \in clients /\ closed[c] THEN "hub" ELSE crash
      /\ inbox' = [inbox EXCEPT ![c] = <<>>] /\ queued' = [queued EXCEPT ![c] = 0]
      /\ UNCHANGED <<sent, broadcasts, chatVars, gateVars>>
  BY DEF HubUnregister
<1>2. pc' \in [Client -> AtTool \cup Aside] /\ \A d \in Client : pc'[d] = "out" <=> pc[d] = "out"
  BY <1>1 DEF WebInv, ToolPart, Aside
<1>3. crash' = crash /\ <<>> \in Seq(Sent)
  BY <1>1 DEF WebInv, HubPart
<1>4. HubPart'
  BY <1>1, <1>2, <1>3, WebAssumption DEF WebInv, HubPart
<1>5. /\ UNCHANGED <<todo, cur, rounds, used, cancels, gateVars, decision>>
      /\ rounds \in [Client -> 0..MaxRounds] /\ cancels \subseteq Client
  BY <1>1 DEF chatVars, gateVars, WebInv, ToolPart
<1>6. ToolPart' /\ GatePart' /\ RequestsAwaited' /\ RunsApproved'
  BY <1>1, <1>5, AsideStep DEF Aside
<1>7. QED BY <1>4, <1>5, <1>6 DEF Kept, WebInv

LEMMA ConnectionStep ==
    ASSUME WebInv, NEW c \in Client, Connect(c) \/ ReadError(c)
    PROVE  Kept
<1>1. PICK next \in {"read", "unregister"} : pc' = [pc EXCEPT ![c] = next]
  BY DEF Connect, ReadError
<1>2. /\ pc[c] \in Aside
      /\ UNCHANGED <<todo, cur, rounds, used, cancels, gateVars, decision>>
      /\ rounds \in [Client -> 0..MaxRounds] /\ cancels \subseteq Client
  BY DEF Connect, ReadError, chatVars, gateVars, WebInv, ToolPart, Aside
<1>3. ToolPart' /\ GatePart' /\ RequestsAwaited' /\ RunsApproved'
  BY <1>1, <1>2, AsideStep DEF Aside
<1>4. pc'[c] # "out" /\ \A d \in Client : d # c => pc'[d] = pc[d]
  BY <1>1 DEF WebInv, ToolPart
<1>5. HubPart'
  <2>1. CASE Connect(c)
    <3>1. /\ clients' = clients \cup {c} /\ queued' = [queued EXCEPT ![c] = 1]
          /\ pc[c] = "out" /\ UNCHANGED <<inbox, sent, broadcasts, closed, crash>>
      BY <2>1 DEF Connect
    <3>2. 1 \in 0..SendCap
      BY WebAssumption
    <3>3. queued' \in [Client -> 0..SendCap]
      BY <3>1, <3>2 DEF WebInv, HubPart
    <3>4. QED BY <1>4, <3>1, <3>3 DEF WebInv, HubPart
  <2>2. CASE ReadError(c)
    BY <1>4, <2>2 DEF ReadError, hubVars, WebInv, HubPart
  <2>3. QED BY <2>1, <2>2
<1>6. QED BY <1>2, <1>3, <1>5 DEF Kept, WebInv

LEMMA UserSendsStep ==
    ASSUME WebInv, NEW c \in Client, NEW m \in Sent, UserSends(c, m)
    PROVE  Kept
<1>1. /\ UNCHANGED <<pc, clients, broadcasts, queued, closed, crash, chatVars, gateVars, decision>>
      /\ inbox' = [inbox EXCEPT ![c] = Append(@, m)]
      /\ sent < MaxSent /\ sent' = sent + 1
  BY DEF UserSends, hubVars, gateVars
<1>2. Append(inbox[c], m) \in Seq(Sent)
  BY DEF WebInv, HubPart
<1>3. inbox' \in [Client -> Seq(Sent)] /\ sent' \in 0..MaxSent
  BY <1>1, <1>2, WebAssumption DEF WebInv, HubPart
<1>4. HubPart'
  BY <1>1, <1>3 DEF WebInv, HubPart
<1>5. QED BY <1>1, <1>4, CalmStep DEF Kept, WebInv

LEMMA WritePumpStep ==
    ASSUME WebInv, NEW c \in Client, WritePump(c)
    PROVE  Kept
<1>1. UNCHANGED <<pc, chatVars, gateVars, decision>>
  BY DEF WritePump, gateVars
<1>2. HubPart'
  BY WebAssumption DEF WritePump, WebInv, HubPart
<1>3. QED BY <1>1, <1>2, CalmStep DEF Kept, WebInv

LEMMA ChatEndStep ==
    ASSUME WebInv, NEW c \in Client, pc[c] \in {"model", "tools"}, ChatEnd(c)
    PROVE  Kept
<1>1. /\ pc' = [pc EXCEPT ![c] = "read"] /\ cancels' = cancels \ {c} /\ Say(c)
      /\ UNCHANGED <<inbox, sent, broadcasts, todo, cur, rounds, used, gateVars, decision>>
  BY DEF ChatEnd, gateVars
<1>2. HubCalm
  BY <1>1 DEF HubCalm, Say, WebInv, ToolPart
<1>3. HubPart'
  BY <1>2, HubCalmStep DEF WebInv
<1>4. cancels' \subseteq Client /\ rounds \in [Client -> 0..MaxRounds]
  BY <1>1 DEF WebInv, ToolPart
<1>5. ToolPart' /\ GatePart' /\ RequestsAwaited' /\ RunsApproved'
  BY <1>1, <1>4, AsideStep DEF Aside
<1>6. QED BY <1>1, <1>3, <1>5 DEF Kept, WebInv

LEMMA ModelStep ==
    ASSUME WebInv, NEW c \in Client, ModelAnswers(c) \/ RoundEnd(c)
    PROVE  Kept
<1>1. CASE ModelAnswers(c)
  <2>1. CASE ChatEnd(c)
    BY <1>1, <2>1, ChatEndStep DEF ModelAnswers
  <2>2. ASSUME NEW asked \in SUBSET (Block \ used),
               /\ todo' = [todo EXCEPT ![c] = asked] /\ used' = used \cup asked
               /\ pc' = [pc EXCEPT ![c] = "tools"] /\ rounds' = [rounds EXCEPT ![c] = @ + 1]
               /\ Say(c)
               /\ UNCHANGED <<inbox, sent, broadcasts, cur, cancels, gateVars>>
        PROVE  Kept
    <3>1. pc[c] = "model" /\ UNCHANGED decision
      BY <1>1, <2>2 DEF ModelAnswers, gateVars
    <3>2. HubCalm
      BY <2>2 DEF HubCalm, Say, WebInv, ToolPart
    <3>3. HubPart'
      BY <3>2, HubCalmStep DEF WebInv
    <3>4. ToolPart' /\ GatePart' /\ RequestsAwaited' /\ RunsApproved'
      BY <2>2, <3>1, AskStep
    <3>5. QED BY <3>1, <3>3, <3>4 DEF Kept, WebInv
  <2>3. QED BY <1>1, <2>1, <2>2 DEF ModelAnswers
<1>2. CASE RoundEnd(c)
  <2>1. pc[c] = "tools"
    BY <1>2 DEF RoundEnd
  <2>2. CASE ChatEnd(c)
    BY <2>1, <2>2, ChatEndStep
  <2>3. CASE /\ rounds[c] < MaxRounds /\ pc' = [pc EXCEPT ![c] = "model"] /\ Silent
             /\ UNCHANGED <<inbox, sent, broadcasts, chatVars, gateVars>>
    <3>1. HubCalm
      BY <2>3 DEF HubCalm, Silent, WebInv, ToolPart
    <3>2. HubPart'
      BY <3>1, HubCalmStep DEF WebInv
    <3>3. /\ UNCHANGED <<todo, cur, rounds, used, cancels, gateVars, decision>>
          /\ cancels \subseteq Client /\ rounds \in [Client -> 0..MaxRounds]
      BY <2>3 DEF WebInv, ToolPart, chatVars, gateVars
    <3>4. ToolPart' /\ GatePart' /\ RequestsAwaited' /\ RunsApproved'
      BY <2>1, <2>3, <3>3, AsideStep DEF Aside
    <3>5. QED BY <3>2, <3>3, <3>4 DEF Kept, WebInv
  <2>4. QED BY <1>2, <2>2, <2>3 DEF RoundEnd
<1>3. QED BY <1>1, <1>2

LEMMA ToolStartStep ==
    ASSUME WebInv, NEW c \in Client, NEW b \in Block, ToolStart(c, b)
    PROVE  Kept
<1>1. /\ pc[c] = "tools" /\ b \in todo[c]
      /\ cur' = [cur EXCEPT ![c] = b]
      /\ pc' = [pc EXCEPT ![c] = IF NeedsApproval(c, b) THEN "ask" ELSE "exec"]
      /\ Say(c) /\ Announce(ToolOf[b] \in AgentTool)
      /\ UNCHANGED <<inbox, sent, todo, rounds, used, cancels, gateVars, decision>>
  BY DEF ToolStart, gateVars
<1>2. ToolPart' /\ GatePart' /\ RequestsAwaited' /\ RunsApproved'
  BY <1>1, BeginToolStep
<1>3. (ToolOf[b] \in AgentTool) \in BOOLEAN
  OBVIOUS
<1>4. HubCalm
  BY <1>1, <1>3 DEF HubCalm, Say, WebInv, ToolPart
<1>5. QED BY <1>1, <1>2, <1>4, HubCalmStep DEF Kept, WebInv

\* What ToolEnd does to the hub and to the chat's own variables.
LEMMA ToolEndFacts ==
    ASSUME WebInv, NEW c \in Client, ToolEnd(c)
    PROVE  /\ HubPart'
           /\ pc' = [pc EXCEPT ![c] = "tools"]
           /\ todo' = [todo EXCEPT ![c] = @ \ {cur[c]}]
           /\ cur' = [cur EXCEPT ![c] = NoBlock]
           /\ UNCHANGED <<rounds, used, cancels>>
<1>1. /\ Say(c) /\ Announce(ToolOf[cur[c]] \in AgentTool) /\ UNCHANGED <<inbox, sent>>
      /\ pc' = [pc EXCEPT ![c] = "tools"]
  BY DEF ToolEnd
<1>2. (ToolOf[cur[c]] \in AgentTool) \in BOOLEAN
  OBVIOUS
<1>3. HubCalm
  BY <1>1, <1>2 DEF HubCalm, Say, WebInv, ToolPart
<1>4. QED BY <1>3, HubCalmStep DEF WebInv, ToolEnd

LEMMA ToolDoneStep ==
    ASSUME WebInv, NEW c \in Client, Execute(c) \/ GiveUp(c)
    PROVE  Kept
<1>1. pc[c] \in AtTool /\ ToolEnd(c) /\ UNCHANGED <<box, auto, decision>>
  BY DEF Execute, GiveUp, AtTool, gateVars
<1>2. pending' = pending \ {cur[c]} /\ meta' = meta \ {cur[c]}
  <2>1. CASE GiveUp(c)
    BY <2>1 DEF GiveUp
  <2>2. CASE Execute(c)
    <3>1. pc[c] = "exec" /\ cur[c] \in todo[c] /\ UNCHANGED <<pending, meta>>
      BY <2>2 DEF Execute, gateVars, WebInv, ToolPart, AtTool
    <3>2. cur[c] \notin pending
      BY <3>1 DEF WebInv, ToolPart, RequestsAwaited, AtTool
    <3>3. QED BY <3>1, <3>2 DEF WebInv, RequestsAwaited
  <2>3. QED BY <2>1, <2>2
<1>3. QED BY <1>1, <1>2, ToolEndFacts, EndToolStep DEF Kept, WebInv

LEMMA TakeAnswerStep ==
    ASSUME WebInv, NEW c \in Client, TakeAnswer(c)
    PROVE  Kept
<1>1. /\ pc[c] = "wait" /\ box[cur[c]] # "empty" /\ box' = [box EXCEPT ![cur[c]] = "empty"]
      /\ UNCHANGED <<pending, meta, auto, decision>>
  BY DEF TakeAnswer
<1>2. CASE box[cur[c]] = "yes"
  <2>1. /\ pc' = [pc EXCEPT ![c] = "exec"] /\ Silent
        /\ UNCHANGED <<inbox, sent, broadcasts, chatVars>>
    BY <1>2 DEF TakeAnswer
  <2>2. HubCalm
    BY <2>1 DEF HubCalm, Silent, WebInv, ToolPart
  <2>3. ToolPart' /\ GatePart' /\ RequestsAwaited' /\ RunsApproved'
    BY <1>1, <1>2, <2>1, AtToolStep
  <2>4. QED BY <1>1, <2>2, <2>3, HubCalmStep DEF Kept, WebInv
<1>3. CASE box[cur[c]] # "yes"
  <2>1. ToolEnd(c) /\ pc[c] \in AtTool
    BY <1>1, <1>3 DEF TakeAnswer, AtTool
  <2>2. cur[c] \notin pending /\ cur[c] \notin meta
    BY <1>1 DEF WebInv, RequestsAwaited
  <2>3. pending' = pending \ {cur[c]} /\ meta' = meta \ {cur[c]}
    BY <1>1, <2>2
  <2>4. QED BY <1>1, <2>1, <2>3, ToolEndFacts, EndToolStep DEF Kept, WebInv
<1>4. QED BY <1>2, <1>3

LEMMA RequestStep ==
    ASSUME WebInv, NEW c \in Client, Register(c) \/ Timeout(c)
    PROVE  Kept
<1>1. /\ UNCHANGED <<inbox, sent, clients, broadcasts, queued, closed, crash, decision>>
      /\ \A d \in Client : pc'[d] = "out" => pc[d] = "out"
  BY DEF Register, Timeout, hubVars, gateVars, WebInv, ToolPart
<1>2. HubCalm
  BY <1>1 DEF HubCalm, Silent
<1>3. ToolPart' /\ GatePart' /\ RequestsAwaited' /\ RunsApproved'
  <2>1. CASE Register(c)
    BY <2>1, RegisterStep
  <2>2. CASE Timeout(c)
    BY <2>2, AtToolStep DEF Timeout, gateVars
  <2>3. QED BY <2>1, <2>2
<1>4. QED BY <1>1, <1>2, <1>3, HubCalmStep DEF Kept, WebInv

-----------------------------------------------------------------------------
(* Messages.                                                                 *)

\* A chat begins, or a message that is about no approval is handled.
LEMMA MessageStep ==
    ASSUME WebInv, NEW c \in Client, ChatBegin(c) \/ Abort(c) \/ Notify(c)
    PROVE  Kept
<1>1. /\ pc[c] = "read" /\ inbox[c] # <<>> /\ inbox' = [inbox EXCEPT ![c] = Tail(@)]
      /\ Say(c) \/ Silent
      /\ UNCHANGED <<sent, todo, cur, used, gateVars, decision>>
  BY DEF ChatBegin, Abort, Notify, Read, chatVars, gateVars
<1>2. PICK next \in {"read", "model"} :
        /\ pc' = [pc EXCEPT ![c] = next]
        /\ next = "model" => rounds' = [rounds EXCEPT ![c] = 0]
        /\ next = "read" => rounds' = rounds
  BY DEF ChatBegin, Abort, Notify, Read, chatVars
<1>3. broadcasts' = broadcasts \/ \E announced \in BOOLEAN : Announce(announced)
  BY DEF ChatBegin, Abort, Notify
<1>4. cancels' \subseteq Client
  BY DEF ChatBegin, Abort, Notify, chatVars, WebInv, ToolPart
<1>5. HubCalm
  BY <1>1, <1>2, <1>3 DEF HubCalm, Say, Silent, WebInv, ToolPart
<1>6. /\ rounds' \in [Client -> 0..MaxRounds]
      /\ next = "model" => rounds'[c] < MaxRounds
      /\ \A d \in Client : d # c => rounds'[d] = rounds[d]
  BY <1>2, WebAssumption DEF WebInv, ToolPart
<1>7. ToolPart' /\ GatePart' /\ RequestsAwaited' /\ RunsApproved'
  BY <1>1, <1>2, <1>4, <1>6, AsideStep DEF Aside
<1>8. QED BY <1>1, <1>5, <1>7, HubCalmStep DEF Kept, WebInv

LEMMA AnswerStep ==
    ASSUME WebInv, NEW c \in Client, Answer(c) \/ BulkAnswer(c)
    PROVE  Kept
<1> USE WebAssumption
<1> DEFINE m == Head(inbox[c])
<1>1. /\ pc[c] = "read" /\ inbox[c] # <<>> /\ inbox' = [inbox EXCEPT ![c] = Tail(@)]
      /\ pc' = [pc EXCEPT ![c] = "read"]
      /\ Say(c) \/ Silent
      /\ UNCHANGED <<sent, broadcasts, chatVars>>
  BY DEF Answer, BulkAnswer, Read
<1>2. pc' = pc
  BY <1>1 DEF WebInv, ToolPart
<1>3. HubCalm
  BY <1>1, <1>2 DEF HubCalm, Say, Silent
<1>4. m \in Message
  <2>1. inbox[c] \in Seq(Sent)
    BY DEF WebInv, HubPart
  <2>2. QED BY <1>1, <2>1, HeadTailProperties
<1>5. /\ ToolPart' /\ GatePart' /\ RequestsAwaited' /\ RunsApproved'
      /\ \A b \in Block : decision[b] # "none" => decision'[b] = decision[b]
  <2>1. CASE Answer(c) /\ m.block \in pending
    <3> DEFINE verdict == CASE m.verdict = "approve" -> "approved"
                            [] m.verdict = "always_approve" -> "always_approved"
                            [] OTHER -> "denied"
    <3>1. m.kind = "answer"
      BY <2>1 DEF Answer, Read
    <3>2. m.verdict \in Verdicts
      BY <1>4, <3>1 DEF Message
    <3>3. verdict \in Decisions /\ ((m.verdict # "deny") => verdict \in Approvals)
      BY <3>2 DEF Verdicts, Decisions, Approvals
    <3>4. Settle({m.block}, m.verdict # "deny", verdict)
      BY <2>1 DEF Answer
    <3>5. /\ auto' \in [Client -> SUBSET Tool]
          /\ \A d \in Client : auto[d] \subseteq auto'[d]
      <4>1. auto' = auto \/ auto' = [auto EXCEPT ![c] = @ \cup {ToolOf[m.block]}]
        BY <2>1 DEF Answer
      <4>2. ToolOf[m.block] \in Tool
        BY <2>1 DEF WebInv, GatePart
      <4>3. QED BY <4>1, <4>2 DEF WebInv, GatePart
    <3>6. {m.block} \in SUBSET pending /\ (m.verdict # "deny") \in BOOLEAN
      BY <2>1
    <3> HIDE DEF m, verdict
    <3>7. QED BY <1>1, <1>2, <3>3, <3>4, <3>5, <3>6, SettleStep
  <2>2. CASE Answer(c) /\ m.block \notin pending
    <3>1. UNCHANGED <<pc, chatVars, gateVars, decision>>
      BY <1>1, <1>2, <2>2 DEF Answer, gateVars
    <3>2. QED BY <3>1, CalmStep
  <2>3. CASE BulkAnswer(c)
    <3> DEFINE blocks == {b \in pending : m.tool \in {AnyTool, ToolOf[b]}}
               verdict == IF m.approve THEN "approved" ELSE "denied"
    <3>1. m.kind = "bulk"
      BY <2>3 DEF BulkAnswer, Read
    <3>2. m.approve \in BOOLEAN
      BY <1>4, <3>1 DEF Message
    <3>3. Settle(blocks, m.approve, verdict) /\ UNCHANGED auto
      BY <2>3 DEF BulkAnswer
    <3>4. verdict \in Decisions /\ (m.approve => verdict \in Approvals)
      BY DEF Decisions, Approvals
    <3>5. auto' \in [Client -> SUBSET Tool] /\ \A d \in Client : auto[d] \subseteq auto'[d]
      BY <3>3 DEF WebInv, GatePart
    <3>6. blocks \in SUBSET pending
      OBVIOUS
    <3> HIDE DEF m, verdict, blocks
    <3>7. QED BY <1>1, <1>2, <3>2, <3>3, <3>4, <3>5, <3>6, SettleStep
  <2>4. QED BY <2>1, <2>2, <2>3
<1>6. QED BY <1>3, <1>5, HubCalmStep DEF Kept, WebInv

-----------------------------------------------------------------------------
LEMMA NextStep ==
    ASSUME WebInv, Next
    PROVE  Kept
<1>1. CASE HubBroadcast
  BY <1>1, HubBroadcastStep
<1>2. ASSUME NEW c \in Client,
             Connect(c) \/ ReadError(c) \/ WritePump(c) \/ \E m \in Sent : UserSends(c, m)
      PROVE  Kept
  BY <1>2, ConnectionStep, WritePumpStep, UserSendsStep
<1>3. ASSUME NEW c \in Client, HubUnregister(c) \/ Chat(c) \/ Timeout(c) \/ Handle(c)
      PROVE  Kept
  <2>1. CASE HubUnregister(c)
    BY <2>1, HubUnregisterStep
  <2>2. CASE Chat(c)
    BY <2>2, ModelStep, ToolStartStep, ToolDoneStep, TakeAnswerStep, RequestStep DEF Chat
  <2>3. CASE Timeout(c)
    BY <2>3, RequestStep
  <2>4. CASE Handle(c)
    BY <2>4, MessageStep, AnswerStep DEF Handle
  <2>5. QED BY <1>3, <2>1, <2>2, <2>3, <2>4
<1>4. QED BY <1>1, <1>2, <1>3 DEF Next

\* The inductive invariant of hub, chats and approvals.
THEOREM WebInvariant == Spec => []WebInv
<1>1. Init => WebInv
  <2>1. SUFFICES ASSUME Init PROVE WebInv
    OBVIOUS
  <2>2. HubPart
    BY <2>1, WebAssumption DEF Init, HubPart
  <2>3. ToolPart
    BY <2>1, WebAssumption DEF Init, ToolPart, AtTool, Aside
  <2>4. GatePart
    BY <2>1 DEF Init, GatePart, Undecided, Decisions
  <2>5. RequestsAwaited /\ RunsApproved
    BY <2>1 DEF Init, RequestsAwaited, RunsApproved
  <2>6. QED BY <2>2, <2>3, <2>4, <2>5 DEF WebInv
<1>2. WebInv /\ [Next]_vars => WebInv'
  <2>1. CASE Next
    BY <2>1, NextStep DEF Kept
  <2>2. ASSUME WebInv, UNCHANGED vars PROVE WebInv'
    <3>1. UNCHANGED <<pc, chatVars, gateVars>> /\ HubCalm
      BY <2>2 DEF vars, hubVars, HubCalm, Silent
    <3>2. QED BY <2>2, <3>1, CalmStep, HubCalmStep DEF WebInv
  <2>3. QED BY <2>1, <2>2
<1>3. QED BY <1>1, <1>2, PTL DEF Spec

\* Every reachable state has its type; no channel is overfull.
THEOREM TypeCorrect == Spec => []TypeOK
BY InvImplies, WebInvariant, PTL

\* The hub never closes a channel twice nor sends into a closed one.
THEOREM HubStaysUp == Spec => []HubSurvives
BY InvImplies, WebInvariant, PTL

\* Who answers a request finds its channel empty and its chat listening.
THEOREM RequestsHeard == Spec => []RequestsAwaited
<1>1. WebInv => RequestsAwaited
  BY DEF WebInv
<1>2. QED BY <1>1, WebInvariant, PTL

\* A tool that needs approval runs only as it was approved.
THEOREM OnlyApprovedRun == Spec => []RunsApproved
<1>1. WebInv => RunsApproved
  BY DEF WebInv
<1>2. QED BY <1>1, WebInvariant, PTL

\* The history decides about a tool use once.
THEOREM OneDecision == Spec => DecidedOnce
<1>1. WebInv /\ [Next]_vars => [\A b \in Block : decision[b] # "none" => decision'[b] = decision[b]]_vars
  BY NextStep DEF Kept
<1>2. QED BY <1>1, WebInvariant, PTL DEF Spec, DecidedOnce

-----------------------------------------------------------------------------
(* Chats, maps and channels implement ToolApproval.                          *)

\* A chat that is not at its tools has none left, so none is ever dropped.
Drained == \A c \in Client : pc[c] \notin AtTool \cup {"tools"} => todo[c] = {}

Standing(d) == CASE d = "none" -> "asked" [] d = "denied" -> "refused" [] OTHER -> "granted"
Finished(b) == b \in used /\ \A c \in Client : b \notin todo[c]

\* The state of a tool use that a chat is at, and of one that none is at.
UseFacts ==
    /\ \A c \in Client : pc[c] \in AtTool =>
          /\ cur[c] \in Block
          /\ UseState[cur[c]] = IF pc[c] = "exec" THEN "running" ELSE Standing(decision[cur[c]])
    /\ \A b \in Block : (\A c \in Client : pc[c] \in AtTool => cur[c] # b) =>
          UseState[b] = IF Finished(b) THEN "over" ELSE "idle"

LEMMA UseStates == ToolPart => UseFacts
<1> SUFFICES ASSUME ToolPart PROVE UseFacts
  OBVIOUS
<1>1. ASSUME NEW c \in Client, pc[c] \in AtTool
      PROVE  /\ cur[c] \in Block
             /\ UseState[cur[c]] = IF pc[c] = "exec" THEN "running" ELSE Standing(decision[cur[c]])
  <2>1. cur[c] \in Block /\ cur[c] \in todo[c]
    BY <1>1 DEF ToolPart
  <2>2. \A d \in Client : pc[d] \in AtTool /\ cur[d] = cur[c] => d = c
    BY <2>1 DEF ToolPart
  <2>3. /\ At(cur[c], {"exec"}) <=> pc[c] = "exec"
        /\ At(cur[c], {"ask", "wait", "expired"}) <=> pc[c] # "exec"
    BY <1>1, <2>2 DEF At, AtTool
  <2>4. QED BY <2>1, <2>3 DEF UseState, Standing
<1>2. ASSUME NEW b \in Block, \A c \in Client : pc[c] \in AtTool => cur[c] # b
      PROVE  UseState[b] = IF Finished(b) THEN "over" ELSE "idle"
  <2>1. ~At(b, {"exec"}) /\ ~At(b, {"ask", "wait", "expired"})
    BY <1>2 DEF At, AtTool
  <2>2. QED BY <2>1 DEF UseState, Finished
<1>3. QED BY <1>1, <1>2 DEF UseFacts

\* A step moves the tool use a chat is or will be at, and no other.
LEMMA OneUseMoves ==
    ASSUME UseFacts, UseFacts', ToolPart, NEW c \in Client, NEW u \in Block,
           pc[c] \in AtTool => cur[c] = u, pc'[c] \in AtTool => cur'[c] = u,
           \A d \in Client : d # c => pc'[d] = pc[d] /\ cur'[d] = cur[d] /\ todo'[d] = todo[d],
           \A b \in Block : b # u => /\ b \in used' <=> b \in used
                                     /\ b \in todo'[c] <=> b \in todo[c]
                                     /\ decision'[b] = decision[b]
    PROVE  UseState' = [UseState EXCEPT ![u] = UseState'[u]]
<1>1. ASSUME NEW b \in Block, b # u PROVE UseState'[b] = UseState[b]
  <2>1. Finished(b)' <=> Finished(b)
    BY <1>1 DEF Finished
  <2>2. CASE \E d \in Client : pc[d] \in AtTool /\ cur[d] = b
    <3>1. PICK d \in Client : pc[d] \in AtTool /\ cur[d] = b
      BY <2>2
    <3>2. d # c
      BY <1>1, <3>1
    <3>3. pc'[d] = pc[d] /\ cur'[d] = b /\ decision'[b] = decision[b]
      BY <1>1, <3>1, <3>2
    <3>4. QED BY <3>1, <3>3 DEF UseFacts
  <2>3. CASE \A d \in Client : pc[d] \in AtTool => cur[d] # b
    <3>1. \A d \in Client : pc'[d] \in AtTool => cur'[d] # b
      BY <1>1, <2>3
    <3>2. QED BY <2>1, <2>3, <3>1 DEF UseFacts
  <2>4. QED BY <2>2, <2>3
<1>2. DOMAIN UseState = Block /\ UseState = [b \in DOMAIN UseState |-> UseState[b]]
  BY DEF UseState
<1>3. DOMAIN UseState' = Block /\ UseState' = [b \in DOMAIN UseState' |-> UseState'[b]]
  BY DEF UseState
<1>4. QED BY <1>1, <1>2, <1>3

\* Steps that leave every chat at its tool use.
LEMMA NoUseMoves ==
    ASSUME UNCHANGED <<cur, todo, used, decision>>,
           \A c \in Client : \/ pc'[c] = pc[c]
                             \/ pc[c] \in Aside /\ pc'[c] \in Aside
                             \/ /\ pc[c] \in {"ask", "wait", "expired"}
                                /\ pc'[c] \in {"ask", "wait", "expired"}
    PROVE  UNCHANGED UseState
<1>1. ASSUME NEW b \in Block
      PROVE  /\ At(b, {"exec"})' <=> At(b, {"exec"})
             /\ At(b, {"ask", "wait", "expired"})' <=> At(b, {"ask", "wait", "expired"})
  BY DEF At, Aside
<1>2. QED BY <1>1 DEF UseState

Refined == [Promise!Next]_(Promise!vars)

LEMMA QuietRefines ==
    ASSUME WebInv, NEW c \in Client,
           \/ Connect(c) \/ WritePump(c) \/ ReadError(c) \/ HubUnregister(c)
           \/ \E m \in Sent : UserSends(c, m)
           \/ ChatBegin(c) \/ Abort(c) \/ Notify(c) \/ RoundEnd(c) \/ Register(c) \/ Timeout(c)
    PROVE  UNCHANGED <<UseState, auto>>
<1>1. UNCHANGED <<cur, todo, used, auto, decision>>
  BY DEF Connect, WritePump, ReadError, HubUnregister, UserSends, ChatBegin, Abort,
     Notify, RoundEnd, ChatEnd, Register, Timeout, chatVars, gateVars
<1>2. \/ pc' = pc
      \/ \E next \in Aside : pc[c] \in Aside /\ pc' = [pc EXCEPT ![c] = next]
      \/ \E next \in {"wait", "expired"} :
            pc[c] \in {"ask", "wait"} /\ pc' = [pc EXCEPT ![c] = next]
  <2>1. CASE Register(c) \/ Timeout(c)
    BY <2>1 DEF Register, Timeout
  <2>2. CASE ChatBegin(c) \/ Abort(c) \/ Notify(c)
    BY <2>2 DEF ChatBegin, Abort, Notify, Read, Aside
  <2>3. CASE RoundEnd(c)
    BY <2>3 DEF RoundEnd, ChatEnd, Aside
  <2>4. CASE \/ Connect(c) \/ WritePump(c) \/ ReadError(c) \/ HubUnregister(c)
             \/ \E m \in Sent : UserSends(c, m)
    BY <2>4 DEF Connect, WritePump, ReadError, HubUnregister, UserSends, Aside
  <2>5. QED BY <2>1, <2>2, <2>3, <2>4
<1>3. QED BY <1>1, <1>2, NoUseMoves DEF WebInv, ToolPart

\* What the model asks for is new and not begun.
LEMMA ModelRefines ==
    ASSUME WebInv, WebInv', UseFacts, UseFacts', Drained, NEW c \in Client, ModelAnswers(c)
    PROVE  UNCHANGED <<UseState, auto>>
<1>1. CASE ChatEnd(c)
  <2>1. UNCHANGED <<cur, todo, used, auto, decision>> /\ pc[c] = "model"
        /\ pc' = [pc EXCEPT ![c] = "read"]
    BY <1>1 DEF ModelAnswers, ChatEnd, gateVars
  <2>2. QED BY <2>1, NoUseMoves DEF WebInv, ToolPart, Aside
<1>2. ASSUME NEW asked \in SUBSET (Block \ used),
             /\ todo' = [todo EXCEPT ![c] = asked] /\ used' = used \cup asked
             /\ pc' = [pc EXCEPT ![c] = "tools"] /\ UNCHANGED <<cur, gateVars>>
      PROVE  UNCHANGED <<UseState, auto>>
  <2>1. /\ pc[c] = "model" /\ todo[c] = {} /\ UNCHANGED <<auto, decision>>
        /\ todo'[c] = asked /\ pc'[c] = "tools"
        /\ \A d \in Client : d # c => pc'[d] = pc[d] /\ todo'[d] = todo[d]
    BY <1>2 DEF ModelAnswers, WebInv, ToolPart, Drained, AtTool, gateVars
  <2>2. ASSUME NEW b \in Block PROVE UseState'[b] = UseState[b]
    <3>1. CASE \E d \in Client : pc[d] \in AtTool /\ cur[d] = b
      <4>1. PICK d \in Client : pc[d] \in AtTool /\ cur[d] = b
        BY <3>1
      <4>2. d # c /\ pc'[d] = pc[d] /\ cur'[d] = b /\ decision'[b] = decision[b]
        BY <1>2, <2>1, <4>1 DEF AtTool
      <4>3. QED BY <4>1, <4>2 DEF UseFacts
    <3>2. CASE \A d \in Client : pc[d] \in AtTool => cur[d] # b
      <4>1. \A d \in Client : pc'[d] \in AtTool => cur'[d] # b
        BY <1>2, <2>1, <3>2 DEF AtTool
      <4>2. Finished(b)' <=> Finished(b)
        BY <1>2, <2>1 DEF Finished, WebInv, ToolPart
      <4>3. QED BY <3>2, <4>1, <4>2 DEF UseFacts
    <3>3. QED BY <3>1, <3>2
  <2>3. DOMAIN UseState = Block /\ UseState = [b \in DOMAIN UseState |-> UseState[b]]
    BY DEF UseState
  <2>4. DOMAIN UseState' = Block /\ UseState' = [b \in DOMAIN UseState' |-> UseState'[b]]
    BY DEF UseState
  <2>5. QED BY <2>1, <2>2, <2>3, <2>4
<1>3. QED BY <1>1, <1>2 DEF ModelAnswers

LEMMA ToolStartRefines ==
    ASSUME WebInv, WebInv', UseFacts, UseFacts', NEW c \in Client, NEW b \in Block, ToolStart(c, b)
    PROVE  Refined
<1>1. /\ pc[c] = "tools" /\ b \in todo[c] /\ cur[c] = NoBlock
      /\ cur' = [cur EXCEPT ![c] = b]
      /\ pc' = [pc EXCEPT ![c] = IF NeedsApproval(c, b) THEN "ask" ELSE "exec"]
      /\ UNCHANGED <<todo, used, auto, decision>>
  BY DEF ToolStart, gateVars, WebInv, ToolPart, Aside
<1>2. cur'[c] = b /\ pc'[c] = IF NeedsApproval(c, b) THEN "ask" ELSE "exec"
  BY <1>1 DEF WebInv, ToolPart
<1>3. \A d \in Client : d # c => pc'[d] = pc[d] /\ cur'[d] = cur[d]
  BY <1>1 DEF WebInv, ToolPart
<1>4. \A d \in Client : pc[d] \in AtTool => cur[d] # b
  BY <1>1, WebAssumption DEF WebInv, ToolPart, AtTool
<1>5. UseState[b] = "idle"
  BY <1>1, <1>4 DEF UseFacts, Finished
<1>6. decision[b] = "none"
  BY <1>1, WebAssumption DEF WebInv, GatePart, Undecided
<1>7. UseState'[b] = IF NeedsApproval(c, b) THEN "asked" ELSE "running"
  BY <1>1, <1>2, <1>6 DEF UseFacts, Standing, AtTool
<1>8. UseState' = [UseState EXCEPT ![b] = UseState'[b]]
  <2>1. pc[c] \notin AtTool
    BY <1>1 DEF AtTool
  <2>2. QED BY <1>1, <1>2, <1>3, <2>1, OneUseMoves DEF WebInv
<1>9. Promise!Begin(b, c)
  BY <1>1, <1>5, <1>7, <1>8 DEF Promise!Begin, NeedsApproval
<1>10. QED BY <1>9 DEF Refined, Promise!Next

\* The tool use a chat is at ends, for whatever reason.
LEMMA EndRefines ==
    ASSUME WebInv, WebInv', UseFacts, UseFacts', NEW c \in Client, pc[c] \in AtTool, ToolEnd(c),
           UNCHANGED <<auto, decision>>
    PROVE  Refined
<1> DEFINE u == cur[c]
<1>1. /\ pc' = [pc EXCEPT ![c] = "tools"] /\ todo' = [todo EXCEPT ![c] = @ \ {u}]
      /\ cur' = [cur EXCEPT ![c] = NoBlock] /\ used' = used
  BY DEF ToolEnd
<1>2. u \in Block /\ u \in todo[c] /\ u \in used
  BY DEF WebInv, ToolPart
<1>3. /\ pc'[c] = "tools" /\ todo'[c] = todo[c] \ {u}
      /\ \A d \in Client : d # c => pc'[d] = pc[d] /\ cur'[d] = cur[d] /\ todo'[d] = todo[d]
  BY <1>1 DEF WebInv, ToolPart
<1>4. \A d \in Client : u \notin todo'[d]
  BY <1>2, <1>3 DEF WebInv, ToolPart
<1>5. \A d \in Client : pc'[d] \in AtTool => cur'[d] # u
  BY <1>4 DEF WebInv, ToolPart
<1>6. UseState'[u] = "over"
  BY <1>1, <1>2, <1>4, <1>5 DEF UseFacts, Finished
<1>7. UseState[u] \in {"asked", "granted", "refused", "running"}
  BY DEF UseFacts, Standing
<1>8. UseState' = [UseState EXCEPT ![u] = UseState'[u]]
  <2>1. pc'[c] \notin AtTool
    BY <1>3 DEF AtTool
  <2> HIDE DEF u
  <2>2. QED BY <1>1, <1>2, <1>3, <2>1, OneUseMoves DEF WebInv, u
<1>9. Promise!End(u)
  BY <1>6, <1>7, <1>8 DEF Promise!End
<1>10. QED BY <1>2, <1>9 DEF Refined, Promise!Next

LEMMA TakeRefines ==
    ASSUME WebInv, WebInv', UseFacts, UseFacts', NEW c \in Client, TakeAnswer(c)
    PROVE  Refined
<1> DEFINE u == cur[c]
<1>1. pc[c] = "wait" /\ box[u] # "empty" /\ UNCHANGED <<auto, decision>>
  BY DEF TakeAnswer
<1>2. CASE box[u] # "yes"
  BY <1>1, <1>2, EndRefines DEF TakeAnswer, AtTool
<1>3. CASE box[u] = "yes"
  <2>1. pc' = [pc EXCEPT ![c] = "exec"] /\ UNCHANGED <<cur, todo, used>>
    BY <1>3 DEF TakeAnswer, chatVars
  <2>2. u \in Block /\ decision[u] \in Approvals
    BY <1>1, <1>3 DEF WebInv, ToolPart, GatePart, AtTool
  <2>3. UseState[u] = "granted"
    BY <1>1, <2>2 DEF UseFacts, Standing, Approvals, AtTool
  <2>4. pc'[c] = "exec" /\ cur'[c] = u /\ \A d \in Client : d # c => pc'[d] = pc[d]
    BY <2>1 DEF WebInv, ToolPart
  <2>5. UseState'[u] = "running"
    BY <2>4 DEF UseFacts, AtTool
  <2>6. UseState' = [UseState EXCEPT ![u] = UseState'[u]]
    <3> HIDE DEF u
    <3>1. QED BY <1>1, <2>1, <2>2, <2>4, OneUseMoves DEF WebInv, u
  <2>7. Promise!Run(u)
    BY <1>1, <2>3, <2>5, <2>6 DEF Promise!Run
  <2>8. QED BY <2>2, <2>7 DEF Refined, Promise!Next
<1>4. QED BY <1>2, <1>3

\* Requests that are pending are decided together; a use that is pending has its
\* chat, so it is asked about.
LEMMA SettleRefines ==
    ASSUME WebInv, UseFacts, UseFacts', NEW blocks \in SUBSET pending, NEW yes \in BOOLEAN,
           NEW verdict \in Decisions \ {"none"}, Settle(blocks, yes, verdict),
           UNCHANGED <<pc, cur, todo, used>>
    PROVE  /\ blocks \in SUBSET Block
           /\ \A b \in blocks : UseState[b] = "asked"
           /\ UseState' = [b \in Block |-> IF b \in blocks THEN Standing(verdict) ELSE UseState[b]]
<1>1. decision' = [b \in Block |-> IF b \in blocks THEN verdict ELSE decision[b]]
  BY DEF Settle
<1>2. ASSUME NEW b \in blocks
      PROVE  /\ b \in Block /\ decision[b] = "none"
             /\ \E d \in Client : cur[d] = b /\ pc[d] \in {"wait", "expired"}
  BY DEF WebInv, GatePart, Undecided, RequestsAwaited
<1>3. ASSUME NEW b \in blocks
      PROVE  UseState[b] = "asked" /\ UseState'[b] = Standing(verdict)
  <2>1. PICK d \in Client : cur[d] = b /\ pc[d] \in {"wait", "expired"}
    BY <1>2
  <2>2. pc[d] \in AtTool /\ pc[d] # "exec" /\ pc'[d] = pc[d] /\ cur'[d] = b
    BY <2>1 DEF AtTool
  <2>3. decision[b] = "none" /\ decision'[b] = verdict
    BY <1>1, <1>2
  <2>4. QED BY <2>1, <2>2, <2>3 DEF UseFacts, Standing
<1>4. ASSUME NEW b \in Block, b \notin blocks PROVE UseState'[b] = UseState[b]
  <2>1. decision'[b] = decision[b] /\ (Finished(b)' <=> Finished(b))
    BY <1>1, <1>4 DEF Finished
  <2>2. QED BY <2>1 DEF UseFacts
<1>5. DOMAIN UseState' = Block /\ UseState' = [b \in DOMAIN UseState' |-> UseState'[b]]
  BY DEF UseState
<1>6. blocks \in SUBSET Block
  BY <1>2
<1>7. QED BY <1>3, <1>4, <1>5, <1>6

LEMMA AnswerRefines ==
    ASSUME WebInv, UseFacts, UseFacts', NEW c \in Client, Answer(c) \/ BulkAnswer(c)
    PROVE  Refined
<1> DEFINE m == Head(inbox[c])
<1>1. inbox[c] # <<>> /\ UNCHANGED <<pc, cur, todo, used>>
  BY DEF Answer, BulkAnswer, Read, chatVars, WebInv, ToolPart
<1>2. m \in Message
  <2>1. inbox[c] \in Seq(Sent)
    BY DEF WebInv, HubPart
  <2>2. QED BY <1>1, <2>1, HeadTailProperties, WebAssumption
<1>3. CASE Answer(c) /\ m.block \in pending
  <2> DEFINE verdict == CASE m.verdict = "approve" -> "approved"
                          [] m.verdict = "always_approve" -> "always_approved"
                          [] OTHER -> "denied"
  <2>1. m.kind = "answer"
    BY <1>3 DEF Answer, Read
  <2>2. m.verdict \in Verdicts
    BY <1>2, <2>1 DEF Message
  <2>3. /\ verdict \in Decisions \ {"none"}
        /\ Standing(verdict) = IF m.verdict = "deny" THEN "refused" ELSE "granted"
    BY <2>2 DEF Verdicts, Decisions, Standing
  <2>4. /\ Settle({m.block}, m.verdict # "deny", verdict)
        /\ auto' = IF m.verdict = "always_approve"
                   THEN [auto EXCEPT ![c] = @ \cup {ToolOf[m.block]}] ELSE auto
    BY <1>3 DEF Answer
  <2>5. {m.block} \in SUBSET pending /\ (m.verdict # "deny") \in BOOLEAN
    BY <1>3
  <2> HIDE DEF verdict, m
  <2>6. /\ m.block \in Block /\ UseState[m.block] = "asked"
        /\ UseState' = [b \in Block |-> IF b \in {m.block} THEN Standing(verdict) ELSE UseState[b]]
    BY <1>1, <2>3, <2>4, <2>5, SettleRefines
  <2>7. CASE m.verdict = "always_approve"
    <3>1. UseState' = [UseState EXCEPT ![m.block] = "granted"]
      <4>1. DOMAIN UseState = Block /\ UseState = [b \in DOMAIN UseState |-> UseState[b]]
        BY DEF UseState
      <4>2. QED BY <2>3, <2>6, <2>7, <4>1
    <3>2. Promise!Trust(m.block, c)
      BY <2>4, <2>6, <2>7, <3>1 DEF Promise!Trust
    <3>3. QED BY <2>6, <3>2 DEF Refined, Promise!Next
  <2>8. CASE m.verdict # "always_approve"
    <3>1. Standing(verdict) \in {"granted", "refused"} /\ {m.block} \in SUBSET Block
      BY <2>3, <2>6
    <3>2. Promise!Decide({m.block}, Standing(verdict))
      BY <2>4, <2>6, <2>8 DEF Promise!Decide
    <3>3. QED BY <3>1, <3>2 DEF Refined, Promise!Next
  <2>9. QED BY <2>7, <2>8
<1>4. CASE Answer(c) /\ m.block \notin pending
  <2>1. UNCHANGED <<auto, decision>>
    BY <1>4 DEF Answer, gateVars
  <2>2. UNCHANGED UseState
    BY <1>1, <2>1, NoUseMoves
  <2>3. QED BY <2>1, <2>2 DEF Refined, Promise!vars
<1>5. CASE BulkAnswer(c)
  <2> DEFINE blocks == {b \in pending : m.tool \in {AnyTool, ToolOf[b]}}
             verdict == IF m.approve THEN "approved" ELSE "denied"
  <2>1. m.kind = "bulk"
    BY <1>5 DEF BulkAnswer, Read
  <2>2. m.approve \in BOOLEAN
    BY <1>2, <2>1 DEF Message
  <2>3. Settle(blocks, m.approve, verdict) /\ UNCHANGED auto
    BY <1>5 DEF BulkAnswer
  <2>4. verdict \in Decisions \ {"none"} /\ Standing(verdict) \in {"granted", "refused"}
    BY DEF Decisions, Standing
  <2>5. blocks \in SUBSET pending
    OBVIOUS
  <2> HIDE DEF m, blocks, verdict
  <2>6. /\ blocks \in SUBSET Block /\ \A b \in blocks : UseState[b] = "asked"
        /\ UseState' = [b \in Block |-> IF b \in blocks THEN Standing(verdict) ELSE UseState[b]]
    BY <1>1, <2>2, <2>3, <2>4, <2>5, SettleRefines
  <2>7. Promise!Decide(blocks, Standing(verdict))
    BY <2>3, <2>6 DEF Promise!Decide
  <2>8. QED BY <2>4, <2>6, <2>7 DEF Refined, Promise!Next
<1>6. QED BY <1>3, <1>4, <1>5

LEMMA NextRefines ==
    ASSUME WebInv, WebInv', UseFacts, UseFacts', Drained, [Next]_vars
    PROVE  Refined
<1>1. CASE HubBroadcast \/ UNCHANGED vars
  <2>1. UNCHANGED <<pc, cur, todo, used, auto, decision>>
    BY <1>1 DEF HubBroadcast, vars, chatVars, gateVars
  <2>2. QED BY <2>1, NoUseMoves DEF Refined, Promise!vars
<1>2. ASSUME NEW c \in Client,
             \/ Connect(c) \/ WritePump(c) \/ ReadError(c) \/ HubUnregister(c)
             \/ Chat(c) \/ Timeout(c) \/ Handle(c) \/ \E m \in Sent : UserSends(c, m)
      PROVE  Refined
  <2>1. CASE Answer(c) \/ BulkAnswer(c)
    BY <2>1, AnswerRefines
  <2>2. CASE ModelAnswers(c)
    BY <2>2, ModelRefines DEF Refined, Promise!vars
  <2>3. CASE \E b \in Block : ToolStart(c, b)
    BY <2>3, ToolStartRefines
  <2>4. CASE Execute(c) \/ GiveUp(c)
    BY <2>4, EndRefines DEF Execute, GiveUp, AtTool, gateVars
  <2>5. CASE TakeAnswer(c)
    BY <2>5, TakeRefines
  <2>6. CASE \/ Connect(c) \/ WritePump(c) \/ ReadError(c) \/ HubUnregister(c)
             \/ \E m \in Sent : UserSends(c, m)
             \/ ChatBegin(c) \/ Abort(c) \/ Notify(c) \/ RoundEnd(c) \/ Register(c) \/ Timeout(c)
    BY <2>6, QuietRefines DEF Refined, Promise!vars
  <2>7. QED BY <1>2, <2>1, <2>2, <2>3, <2>4, <2>5, <2>6 DEF Chat, Handle
<1>3. QED BY <1>1, <1>2 DEF Next

\* A chat leaves its tools only when it has none left.
LEMMA DrainedStep ==
    ASSUME WebInv, Drained, [Next]_vars
    PROVE  Drained'
<1>1. CASE HubBroadcast \/ UNCHANGED vars
  BY <1>1 DEF HubBroadcast, vars, chatVars, Drained
<1>2. ASSUME NEW c \in Client, NEW d \in Client,
             \/ Connect(c) \/ WritePump(c) \/ ReadError(c) \/ HubUnregister(c)
             \/ Chat(c) \/ Timeout(c) \/ Handle(c) \/ \E m \in Sent : UserSends(c, m)
      PROVE  pc'[d] \notin AtTool \cup {"tools"} => todo'[d] = {}
  <2> USE DEF WebInv, ToolPart, Drained
  <2>1. CASE Connect(c) \/ WritePump(c) \/ ReadError(c) \/ HubUnregister(c) \/ Timeout(c)
             \/ \E m \in Sent : UserSends(c, m)
    BY <2>1 DEF Connect, WritePump, ReadError, HubUnregister, Timeout, UserSends, chatVars, AtTool
  <2>2. CASE Handle(c)
    <3>1. pc[c] = "read" /\ UNCHANGED todo /\ \E next : pc' = [pc EXCEPT ![c] = next]
      BY <2>2 DEF Handle, ChatBegin, Answer, BulkAnswer, Abort, Notify, Read, chatVars
    <3>2. QED BY <3>1 DEF AtTool
  <2>3. CASE ModelAnswers(c) \/ RoundEnd(c)
    BY <2>3 DEF ModelAnswers, RoundEnd, ChatEnd, chatVars, AtTool
  <2>4. CASE Register(c) \/ \E b \in Block : ToolStart(c, b)
    BY <2>4 DEF Register, ToolStart, chatVars, AtTool
  <2>5. CASE Execute(c) \/ TakeAnswer(c) \/ GiveUp(c)
    BY <2>5 DEF Execute, TakeAnswer, GiveUp, ToolEnd, chatVars, AtTool
  <2>6. QED BY <1>2, <2>1, <2>2, <2>3, <2>4, <2>5 DEF Chat
<1>3. QED BY <1>1, <1>2 DEF Next, Drained

\* However answers, timers and users interleave, each tool use runs at most
\* once, after at most one decision, and not unless it was approved.
THEOREM ApprovalsRefined == Spec => KeepsApprovals
<1>1. Init => Promise!Init /\ Drained
  BY DEF Init, Promise!Init, UseState, At, Drained
<1>2. WebInv => UseFacts
  BY UseStates DEF WebInv
<1>3. WebInv' => UseFacts'
  BY <1>2, PTL
<1>4. WebInv /\ Drained /\ [Next]_vars => Drained'
  BY DrainedStep
<1>5. WebInv /\ WebInv' /\ Drained /\ [Next]_vars => [Promise!Next]_(Promise!vars)
  BY <1>2, <1>3, NextRefines DEF Refined
<1>6. QED BY <1>1, <1>4, <1>5, WebInvariant, PTL DEF Spec, KeepsApprovals, Promise!Spec
=============================================================================
