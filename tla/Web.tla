--------------------------------- MODULE Web ---------------------------------
(* The web server of internal/web: browsers connected by WebSockets, the hub *)
(* that broadcasts to them, and chats whose tools wait for a user's approval.*)
(* Each connection has a readPump, which runs HandleMessage and with it the  *)
(* whole of handleChat before it reads the next message, and a writePump,    *)
(* which empties client.send.  The hub closes the channel of a client that   *)
(* leaves or is too slow; a send on a closed channel panics and, because no  *)
(* pump recovers, ends the process.                                          *)
EXTENDS Integers, Sequences

CONSTANTS
    Client,      \* WebSocket connections, by client.ID
    Block,       \* ids of the tool uses a model may ask for
    Tool,        \* tool names
    ToolOf,      \* the tool a block names
    Gated,       \* blocks the permission engine wants approved
    AgentTool,   \* tools whose start and end are broadcast
    SendCap,     \* capacity of client.send
    HubCap,      \* capacity of hub.broadcast
    MaxRounds,   \* maxIterations of the tool loop
    Sent,        \* the messages browsers send
    MaxSent,     \* bound: messages the browsers send
    NoBlock, AnyTool

Verdicts == {"approve", "always_approve", "deny"}
Message == [kind : {"chat", "abort", "notify"}]
           \cup [kind : {"answer"}, block : Block, verdict : Verdicts]
           \cup [kind : {"bulk"}, approve : BOOLEAN, tool : Tool \cup {AnyTool}]

ASSUME WebAssumption ==
    /\ ToolOf \in [Block -> Tool]
    /\ Gated \subseteq Block /\ AgentTool \subseteq Tool /\ Sent \subseteq Message
    /\ {SendCap, HubCap, MaxRounds, MaxSent} \subseteq Nat \ {0}
    /\ NoBlock \notin Block /\ AnyTool \notin Tool

VARIABLES
    pc,          \* where the client's readPump is
    inbox,       \* messages of the browser it has not read
    sent,        \* what MaxSent bounds
    clients,     \* hub.clients
    broadcasts,  \* length of hub.broadcast
    queued,      \* length of client.send
    closed,      \* client.send has been closed
    todo, cur,   \* handleChat: tool uses of this round not yet answered, and the current one
    rounds,      \* handleChat: iteration
    used,        \* blocks a model has asked for
    cancels,     \* h.cancelFuncs
    pending,     \* h.pendingApprovals
    meta,        \* h.pendingApprovalMeta
    box,         \* the channel of an approval request
    auto,        \* h.autoApproved
    decision,    \* h.approvalHistory, by block
    crash        \* who sent on or closed a closed channel

chatVars == <<todo, cur, rounds, used, cancels>>
gateVars == <<pending, meta, box, auto, decision>>
hubVars  == <<clients, broadcasts, queued, closed>>
vars     == <<pc, inbox, sent, hubVars, chatVars, gateVars, crash>>

Chatting == {"model", "tools", "ask", "wait", "expired", "exec"}
Decisions == {"none", "approved", "always_approved", "denied"}

Init ==
    /\ pc = [c \in Client |-> "out"]
    /\ inbox = [c \in Client |-> <<>>]
    /\ sent = 0
    /\ clients = {} /\ broadcasts = 0
    /\ queued = [c \in Client |-> 0]
    /\ closed = [c \in Client |-> FALSE]
    /\ todo = [c \in Client |-> {}]
    /\ cur = [c \in Client |-> NoBlock]
    /\ rounds = [c \in Client |-> 0]
    /\ used = {} /\ cancels = {} /\ pending = {} /\ meta = {}
    /\ box = [b \in Block |-> "empty"]
    /\ auto = [c \in Client |-> {}]
    /\ decision = [b \in Block |-> "none"]
    /\ crash = "no"

\* A panic ends the process.
Up == crash = "no"

-----------------------------------------------------------------------------
(* Sending.  sendToClient gives up after five seconds on a full channel.     *)

Say(c) ==
    /\ queued' = [queued EXCEPT ![c] = IF @ < SendCap THEN @ + 1 ELSE @]
    /\ crash' = IF closed[c] THEN "pump" ELSE crash
    /\ UNCHANGED <<clients, closed>>

Silent == UNCHANGED <<clients, closed, queued, crash>>

\* hub.Broadcast waits while the hub's channel is full.
Announce(announced) ==
    /\ announced => broadcasts < HubCap
    /\ broadcasts' = broadcasts + (IF announced THEN 1 ELSE 0)

-----------------------------------------------------------------------------
(* Connections and the two pumps.                                            *)

\* handleWebSocket: registration, the first message, and the pumps.
Connect(c) ==
    /\ Up /\ pc[c] = "out"
    /\ pc' = [pc EXCEPT ![c] = "read"]
    /\ clients' = clients \cup {c}
    /\ queued' = [queued EXCEPT ![c] = 1]
    /\ UNCHANGED <<inbox, sent, broadcasts, closed, chatVars, gateVars, crash>>

\* The browser sends; an answer is to a block it can have been asked about.
UserSends(c, m) ==
    /\ Up /\ pc[c] \notin {"out", "unregister", "gone"} /\ sent < MaxSent
    /\ m.kind = "answer" => m.block \in used
    /\ inbox' = [inbox EXCEPT ![c] = Append(@, m)]
    /\ sent' = sent + 1
    /\ UNCHANGED <<pc, hubVars, chatVars, gateVars, crash>>

\* writePump writes all that is queued, unless its connection has failed.
WritePump(c) ==
    /\ Up /\ pc[c] # "out" /\ queued[c] > 0
    /\ queued' = [queued EXCEPT ![c] = 0]
    /\ UNCHANGED <<pc, inbox, sent, clients, broadcasts, closed, chatVars, gateVars, crash>>

\* readPump: conn.Read fails, also after 60 seconds without a message.
ReadError(c) ==
    /\ Up /\ pc[c] = "read"
    /\ pc' = [pc EXCEPT ![c] = "unregister"]
    /\ UNCHANGED <<inbox, sent, hubVars, chatVars, gateVars, crash>>

\* readPump takes the next message and is done with it at once ("read") or
\* goes on with it.
Read(c, kind, next) ==
    /\ Up /\ pc[c] = "read" /\ inbox[c] # <<>>
    /\ Head(inbox[c]).kind = kind
    /\ inbox' = [inbox EXCEPT ![c] = Tail(@)]
    /\ pc' = [pc EXCEPT ![c] = next]
    /\ UNCHANGED sent

-----------------------------------------------------------------------------
(* The hub.                                                                  *)

\* A mutant of HubUnregister: closes the channel of a client already dropped.
HubUnregisterAgain(c) ==
    /\ Up /\ pc[c] = "unregister"
    /\ clients' = clients \ {c}
    /\ closed' = [closed EXCEPT ![c] = TRUE]
    /\ crash' = IF closed[c] THEN "hub" ELSE crash
    /\ pc' = [pc EXCEPT ![c] = "gone"]
    /\ inbox' = [inbox EXCEPT ![c] = <<>>]
    /\ queued' = [queued EXCEPT ![c] = 0]
    /\ UNCHANGED <<sent, broadcasts, chatVars, gateVars>>

\* What the client still had in its channels goes with the connection.
HubUnregister(c) ==
    /\ Up /\ pc[c] = "unregister"
    /\ clients' = clients \ {c}
    /\ closed' = [closed EXCEPT ![c] = @ \/ c \in clients]
    /\ crash' = IF c \in clients /\ closed[c] THEN "hub" ELSE crash
    /\ pc' = [pc EXCEPT ![c] = "gone"]
    /\ inbox' = [inbox EXCEPT ![c] = <<>>]
    /\ queued' = [queued EXCEPT ![c] = 0]
    /\ UNCHANGED <<sent, broadcasts, chatVars, gateVars>>

\* A mutant of HubBroadcast: does not look whether a client's channel is full.
HubBroadcastAll ==
    /\ Up /\ broadcasts > 0
    /\ broadcasts' = broadcasts - 1
    /\ queued' = [c \in Client |-> queued[c] + (IF c \in clients THEN 1 ELSE 0)]
    /\ crash' = IF \E c \in clients : closed[c] THEN "hub" ELSE crash
    /\ UNCHANGED <<pc, inbox, sent, clients, closed, chatVars, gateVars>>

\* A broadcast drops and closes every client whose channel is full.
HubBroadcast ==
    LET slow == {c \in clients : queued[c] = SendCap} IN
    /\ Up /\ broadcasts > 0
    /\ broadcasts' = broadcasts - 1
    /\ queued' = [c \in Client |-> queued[c] + (IF c \in clients \ slow THEN 1 ELSE 0)]
    /\ clients' = clients \ slow
    /\ closed' = [c \in Client |-> closed[c] \/ c \in slow]
    /\ crash' = IF \E c \in clients : closed[c] THEN "hub" ELSE crash
    /\ UNCHANGED <<pc, inbox, sent, chatVars, gateVars>>

-----------------------------------------------------------------------------
(* handleChat: rounds of a model's answer and the tools it asks for.         *)

ChatBegin(c) ==
    /\ Read(c, "chat", "model")
    /\ cancels' = cancels \cup {c}
    /\ rounds' = [rounds EXCEPT ![c] = 0]
    /\ Say(c)
    /\ UNCHANGED <<broadcasts, todo, cur, used, gateVars>>

ChatEnd(c) ==
    /\ pc' = [pc EXCEPT ![c] = "read"]
    /\ cancels' = cancels \ {c}
    /\ Say(c)
    /\ UNCHANGED <<inbox, sent, broadcasts, todo, cur, rounds, used, gateVars>>

\* The model asks for tools, or ends the chat with an answer or an error.
ModelAnswers(c) ==
    /\ Up /\ pc[c] = "model"
    /\ \/ \E asked \in SUBSET (Block \ used) \ {{}} :
              /\ todo' = [todo EXCEPT ![c] = asked]
              /\ used' = used \cup asked
              /\ pc' = [pc EXCEPT ![c] = "tools"]
              /\ rounds' = [rounds EXCEPT ![c] = @ + 1]
              /\ Say(c)
              /\ UNCHANGED <<inbox, sent, broadcasts, cur, cancels, gateVars>>
       \/ ChatEnd(c)

\* needsApproval: nobody has approved the tool for this client for good.
NeedsApproval(c, b) == b \in Gated /\ ToolOf[b] \notin auto[c]

\* tool_start and, if the tool needs it, the approval request are sent.
ToolStart(c, b) ==
    /\ Up /\ pc[c] = "tools" /\ b \in todo[c]
    /\ cur' = [cur EXCEPT ![c] = b]
    /\ pc' = [pc EXCEPT ![c] = IF NeedsApproval(c, b) THEN "ask" ELSE "exec"]
    /\ Say(c)
    /\ Announce(ToolOf[b] \in AgentTool)
    /\ UNCHANGED <<inbox, sent, todo, rounds, used, cancels, gateVars>>

\* The result of the current tool use, error or not, is noted and sent.
ToolEnd(c) ==
    /\ pc' = [pc EXCEPT ![c] = "tools"]
    /\ todo' = [todo EXCEPT ![c] = @ \ {cur[c]}]
    /\ cur' = [cur EXCEPT ![c] = NoBlock]
    /\ Say(c)
    /\ Announce(ToolOf[cur[c]] \in AgentTool)
    /\ UNCHANGED <<inbox, sent, rounds, used, cancels>>

Execute(c) ==
    /\ Up /\ pc[c] = "exec"
    /\ ToolEnd(c)
    /\ UNCHANGED gateVars

\* All results are in: the next iteration, if there is one.
RoundEnd(c) ==
    /\ Up /\ pc[c] = "tools" /\ todo[c] = {}
    /\ IF rounds[c] < MaxRounds
       THEN /\ pc' = [pc EXCEPT ![c] = "model"]
            /\ Silent
            /\ UNCHANGED <<inbox, sent, broadcasts, chatVars, gateVars>>
       ELSE ChatEnd(c)

-----------------------------------------------------------------------------
(* requestApproval, in the goroutine of the chat.                            *)

Register(c) ==
    /\ Up /\ pc[c] = "ask"
    /\ pending' = pending \cup {cur[c]}
    /\ meta' = meta \cup {cur[c]}
    /\ box' = [box EXCEPT ![cur[c]] = "empty"]
    /\ pc' = [pc EXCEPT ![c] = "wait"]
    /\ UNCHANGED <<inbox, sent, hubVars, chatVars, auto, decision, crash>>

\* A mutant of TakeAnswer: runs the tool whatever the answer was.
TakeAnyAnswer(c) ==
    /\ Up /\ pc[c] = "wait" /\ box[cur[c]] # "empty"
    /\ box' = [box EXCEPT ![cur[c]] = "empty"]
    /\ pc' = [pc EXCEPT ![c] = "exec"]
    /\ Silent
    /\ UNCHANGED <<inbox, sent, broadcasts, chatVars, pending, meta, auto, decision>>

TakeAnswer(c) ==
    /\ Up /\ pc[c] = "wait" /\ box[cur[c]] # "empty"
    /\ box' = [box EXCEPT ![cur[c]] = "empty"]
    /\ IF box[cur[c]] = "yes"
       THEN /\ pc' = [pc EXCEPT ![c] = "exec"]
            /\ Silent
            /\ UNCHANGED <<inbox, sent, broadcasts, chatVars>>
       ELSE ToolEnd(c)
    /\ UNCHANGED <<pending, meta, auto, decision>>

\* Five minutes have passed; h.mu is yet to be taken.
Timeout(c) ==
    /\ Up /\ pc[c] = "wait"
    /\ pc' = [pc EXCEPT ![c] = "expired"]
    /\ UNCHANGED <<inbox, sent, hubVars, chatVars, gateVars, crash>>

\* Mutants of GiveUp: leaves its request in the maps; asks again.
GiveUpSilently(c) ==
    /\ Up /\ pc[c] = "expired"
    /\ ToolEnd(c)
    /\ UNCHANGED gateVars

GiveUpAsksAgain(c) ==
    /\ Up /\ pc[c] = "expired"
    /\ pending' = pending \ {cur[c]}
    /\ meta' = meta \ {cur[c]}
    /\ pc' = [pc EXCEPT ![c] = "ask"]
    /\ UNCHANGED <<inbox, sent, hubVars, chatVars, box, auto, decision, crash>>

GiveUp(c) ==
    /\ Up /\ pc[c] = "expired"
    /\ pending' = pending \ {cur[c]}
    /\ meta' = meta \ {cur[c]}
    /\ ToolEnd(c)
    /\ UNCHANGED <<box, auto, decision>>

-----------------------------------------------------------------------------
(* The other messages.  A send into a full approval channel would wait with  *)
(* h.mu held.                                                                *)

Settle(blocks, yes, verdict) ==
    /\ \A b \in blocks : box[b] = "empty"
    /\ pending' = pending \ blocks
    /\ meta' = meta \ blocks
    /\ box' = [b \in Block |-> IF b \in blocks THEN (IF yes THEN "yes" ELSE "no") ELSE box[b]]
    /\ decision' = [b \in Block |-> IF b \in blocks THEN verdict ELSE decision[b]]

\* handleToolApproval; "always" is kept for the client that answers.
Answer(c) ==
    LET m == Head(inbox[c]) IN
    /\ Read(c, "answer", "read")
    /\ IF m.block \in pending
       THEN /\ Settle({m.block}, m.verdict # "deny",
                      CASE m.verdict = "approve" -> "approved"
                        [] m.verdict = "always_approve" -> "always_approved"
                        [] OTHER -> "denied")
            /\ auto' = IF m.verdict = "always_approve"
                       THEN [auto EXCEPT ![c] = @ \cup {ToolOf[m.block]}] ELSE auto
       ELSE UNCHANGED gateVars
    /\ Silent
    /\ UNCHANGED <<broadcasts, chatVars>>

BulkAnswer(c) ==
    LET m == Head(inbox[c]) IN
    /\ Read(c, "bulk", "read")
    /\ Settle({b \in pending : m.tool \in {AnyTool, ToolOf[b]}}, m.approve,
              IF m.approve THEN "approved" ELSE "denied")
    /\ Say(c)
    /\ UNCHANGED <<broadcasts, chatVars, auto>>

\* handleAbort calls and forgets the client's cancel function, if it has one.
Abort(c) ==
    /\ Read(c, "abort", "read")
    /\ cancels' = cancels \ {c}
    /\ Say(c)
    /\ UNCHANGED <<broadcasts, todo, cur, rounds, used, gateVars>>

\* A handler that tells every client something, for one handleChangeProject.
Notify(c) ==
    /\ Read(c, "notify", "read")
    /\ Announce(TRUE)
    /\ Silent
    /\ UNCHANGED <<chatVars, gateVars>>

-----------------------------------------------------------------------------
Chat(c) ==
    \/ ModelAnswers(c) \/ RoundEnd(c) \/ Execute(c)
    \/ \E b \in Block : ToolStart(c, b)
    \/ Register(c) \/ TakeAnswer(c) \/ GiveUp(c)

Handle(c) == ChatBegin(c) \/ Answer(c) \/ BulkAnswer(c) \/ Abort(c) \/ Notify(c)

Next ==
    \/ HubBroadcast
    \/ \E c \in Client :
        \/ Connect(c) \/ WritePump(c) \/ ReadError(c) \/ HubUnregister(c)
        \/ Chat(c) \/ Timeout(c) \/ Handle(c)
        \/ \E m \in Sent : UserSends(c, m)

Spec == Init /\ [][Next]_vars

\* Hub, models and tools go on; a sender that waits for the hub's channel is
\* served in turn.  Nothing is assumed of browsers and networks.
ServerFairness == WF_vars(HubBroadcast) /\ \A c \in Client : SF_vars(Chat(c))

\* The timers fire.  Messages need not even be read.
FairSpec == Spec /\ ServerFairness /\ \A c \in Client : WF_vars(Timeout(c))

\* Messages are read and handled, but five minutes may never pass.
PatientSpec == Spec /\ ServerFairness /\ \A c \in Client : SF_vars(Handle(c))

-----------------------------------------------------------------------------
(* Properties.                                                               *)

\* Every variable has its type; no channel holds more than its capacity.
TypeOK ==
    /\ pc \in [Client -> {"out", "read", "unregister", "gone"} \cup Chatting]
    /\ inbox \in [Client -> Seq(Sent)] /\ sent \in 0..MaxSent
    /\ closed \in [Client -> BOOLEAN]
    /\ clients \subseteq Client /\ cancels \subseteq Client
    /\ broadcasts \in 0..HubCap /\ queued \in [Client -> 0..SendCap]
    /\ todo \in [Client -> SUBSET Block] /\ used \subseteq Block
    /\ cur \in [Client -> Block \cup {NoBlock}]
    /\ rounds \in [Client -> 0..MaxRounds]
    /\ pending \subseteq Block /\ meta \subseteq Block
    /\ box \in [Block -> {"empty", "yes", "no"}]
    /\ auto \in [Client -> SUBSET Tool]
    /\ decision \in [Block -> Decisions]
    /\ crash \in {"no", "pump", "hub"}

\* The two maps of approval requests agree; who answers a request finds its
\* channel empty (or it would wait with h.mu held and stop every handler) and
\* a chat that still listens; and a chat that waits for a request no longer in
\* the maps has its answer.
RequestsAwaited ==
    /\ pending = meta
    /\ \A b \in pending :
          box[b] = "empty" /\ \E c \in Client : cur[c] = b /\ pc[c] \in {"wait", "expired"}
    /\ \A c \in Client :
          pc[c] = "wait" /\ cur[c] \notin pending => box[cur[c]] # "empty"

\* A tool use the permission engine wants approved is executed only if it was
\* approved, or its tool for good by the same client: never after a denial, a
\* timeout, or an answer to another request.
RunsApproved ==
    \A c \in Client : pc[c] = "exec" /\ cur[c] \in Gated =>
        decision[cur[c]] \in {"approved", "always_approved"} \/ ToolOf[cur[c]] \in auto[c]

\* The hub never closes a channel twice and never broadcasts into a closed
\* one, however a slow client's removal and its departure interleave.
HubSurvives == crash # "hub"

\* The approval history decides about a tool use once; two users, or a single
\* and a bulk answer, cannot both have a say.
DecidedOnce == [][\A b \in Block : decision[b] # "none" => decision'[b] = decision[b]]_vars

\* What has become of a tool use: the chat that is at it knows.
At(b, places) == \E c \in Client : cur[c] = b /\ pc[c] \in places
UseState ==
    [b \in Block |->
        IF At(b, {"exec"}) THEN "running"
        ELSE IF At(b, {"ask", "wait", "expired"})
        THEN CASE decision[b] = "none"   -> "asked"
               [] decision[b] = "denied" -> "refused"
               [] OTHER                  -> "granted"
        ELSE IF b \in used /\ \A c \in Client : b \notin todo[c] THEN "over"
        ELSE "idle"]
Promise == INSTANCE ToolApproval WITH Use <- Block, state <- UseState, trusted <- auto

\* The chats, the maps of requests and their channels implement ToolApproval:
\* however answers, timers and several users interleave, each tool use runs at
\* most once, after at most one decision, and not unless it was approved.
KeepsApprovals == Promise!Spec

\* Every chat ends, whether or not anybody answers its requests.
ChatEnds == \A c \in Client : pc[c] \in Chatting ~> (pc[c] \notin Chatting \/ ~Up)

\* An answer from the browser that was asked ends the wait for it (expected by
\* static/tools.js, which sends the answer on the connection of the request).
AnswerEndsWait ==
    \A c \in Client :
        (pc[c] = "wait" /\ \E i \in 1..Len(inbox[c]) :
            inbox[c][i].kind = "answer" /\ inbox[c][i].block = cur[c])
        ~> (pc[c] # "wait" \/ ~Up)
=============================================================================
