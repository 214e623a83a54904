------------------------------- MODULE Handoff -------------------------------
(* The handoff queue of one War Room session: HandoffManager of              *)
(* internal/warroom/handoff.go, and its users in runner.go: an agent polls   *)
(* the queue at the start of an iteration and starts a goroutine that        *)
(* answers; an agent that calls the warroom_handoff tool is blocked until    *)
(* RequestHandoff returns.  The chat's own warroom_handoff tool asks too.    *)
(* ToAgent is left out: nothing in the code reads it to route a request.     *)
EXTENDS Naturals, Sequences, FiniteSets

CONSTANTS
    Request,     \* the uuids of the requests: one call of RequestHandoff each
    Agent,       \* the agents that run in the session
    QueueCap,    \* capacity of the request channel (16)
    NoAgent      \* nobody; as the asker, the chat tool

ASSUME HandoffAssumption == QueueCap \in Nat \ {0} /\ NoAgent \notin Agent

VARIABLES
    registered,  \* the session has its entries in h.requests and h.responses
    queue,       \* the buffered requests
    pending,     \* the keys of h.responses of the session
    box,         \* the buffered answer of a response channel, by its author
    pc,          \* where the call of a request is
    asker,       \* FromAgent
    got,         \* the answer a call received
    polling,     \* agents between the lookup and the receive of TryRecvRequest
    answering,   \* goroutines started for a taken request
    taker        \* history: who took a request off the queue

vars == <<registered, queue, pending, box, pc, asker, got, polling, answering, taker>>

InCall == {"enqueue", "wait", "leave"}
Ended  == {"answered", "failed"}

Init ==
    /\ registered = TRUE /\ queue = <<>> /\ pending = {}
    /\ box = [r \in Request |-> NoAgent]
    /\ pc = [r \in Request |-> "new"]
    /\ asker = [r \in Request |-> NoAgent]
    /\ got = [r \in Request |-> NoAgent]
    /\ polling = {} /\ answering = {}
    /\ taker = [r \in Request |-> NoAgent]

\* The agent runs and is neither in a tool call nor in TryRecvRequest.
Free(a) == /\ a \notin polling
           /\ \A r \in Request : pc[r] \in InCall => asker[r] # a

-----------------------------------------------------------------------------
(* RequestHandoff.                                                           *)

Goto(r, p) == pc' = [pc EXCEPT ![r] = p]

\* Register the response channel, or fail: no such session.
Register(r) ==
    /\ pc[r] = "new"
    /\ \E a \in {b \in Agent : Free(b)} \cup {NoAgent} :
         asker' = [asker EXCEPT ![r] = a]
    /\ IF registered
       THEN pending' = pending \cup {r} /\ Goto(r, "enqueue")
       ELSE Goto(r, "failed") /\ UNCHANGED pending
    /\ UNCHANGED <<registered, queue, box, got, polling, answering, taker>>

\* Fault: the channel is made one longer than its capacity.
EnqueueLate(r) ==
    /\ pc[r] = "enqueue"
    /\ Len(queue) <= QueueCap
    /\ queue' = Append(queue, r)
    /\ Goto(r, "wait")
    /\ UNCHANGED <<registered, pending, box, asker, got, polling, answering, taker>>

\* The channel is the one looked up before: a close does not stop the send.
Enqueue(r) ==
    /\ pc[r] = "enqueue"
    /\ Len(queue) < QueueCap
    /\ queue' = Append(queue, r)
    /\ Goto(r, "wait")
    /\ UNCHANGED <<registered, pending, box, asker, got, polling, answering, taker>>

\* The context of the caller ends, in either select.
CtxDone(r) ==
    /\ pc[r] \in {"enqueue", "wait"}
    /\ Goto(r, "leave")
    /\ UNCHANGED <<registered, queue, pending, box, asker, got, polling, answering, taker>>

Receive(r) ==
    /\ pc[r] = "wait" /\ box[r] # NoAgent
    /\ got' = [got EXCEPT ![r] = box[r]]
    /\ box' = [box EXCEPT ![r] = NoAgent]
    /\ Goto(r, "leave")
    /\ UNCHANGED <<registered, queue, pending, asker, polling, answering, taker>>

\* Fault: the timer is only armed for a request that somebody has taken.
TimeoutTaken(r) ==
    /\ pc[r] = "wait" /\ taker[r] # NoAgent
    /\ Goto(r, "leave")
    /\ UNCHANGED <<registered, queue, pending, box, asker, got, polling, answering, taker>>

\* Thirty seconds have passed; an answer may have arrived at the same moment.
Timeout(r) ==
    /\ pc[r] = "wait"
    /\ Goto(r, "leave")
    /\ UNCHANGED <<registered, queue, pending, box, asker, got, polling, answering, taker>>

\* Fault: only a call that got its answer deletes its entry.
LeaveUndeleted(r) ==
    /\ pc[r] = "leave"
    /\ pending' = IF got[r] # NoAgent THEN pending \ {r} ELSE pending
    /\ Goto(r, IF got[r] # NoAgent THEN "answered" ELSE "failed")
    /\ UNCHANGED <<registered, queue, box, asker, got, polling, answering, taker>>

\* Delete the entry and return.
Leave(r) ==
    /\ pc[r] = "leave"
    /\ pending' = pending \ {r}
    /\ Goto(r, IF got[r] # NoAgent THEN "answered" ELSE "failed")
    /\ UNCHANGED <<registered, queue, box, asker, got, polling, answering, taker>>

-----------------------------------------------------------------------------
(* An agent takes a request, and answers it five seconds later.              *)

\* Fault: the agent polls while one of its tool calls waits for an answer.
PollLookupBusy(a) ==
    /\ a \notin polling
    /\ registered
    /\ polling' = polling \cup {a}
    /\ UNCHANGED <<registered, queue, pending, box, pc, asker, got, answering, taker>>

\* TryRecvRequest: the channel is looked up under h.mu and read without it.
PollLookup(a) ==
    /\ Free(a)
    /\ registered
    /\ polling' = polling \cup {a}
    /\ UNCHANGED <<registered, queue, pending, box, pc, asker, got, answering, taker>>

\* Fault: the request stays in the queue while it is being answered.
PollPeek(a) ==
    /\ a \in polling
    /\ polling' = polling \ {a}
    /\ IF queue = <<>>
       THEN UNCHANGED <<answering, taker>>
       ELSE /\ taker' = [taker EXCEPT ![Head(queue)] = a]
            /\ answering' = answering \cup {[r |-> Head(queue), by |-> a, pc |-> "sleep"]}
    /\ UNCHANGED <<registered, queue, pending, box, pc, asker, got>>

PollRecv(a) ==
    /\ a \in polling
    /\ polling' = polling \ {a}
    /\ IF queue = <<>>
       THEN UNCHANGED <<queue, answering, taker>>
       ELSE /\ queue' = Tail(queue)
            /\ taker' = [taker EXCEPT ![Head(queue)] = a]
            /\ answering' = answering \cup {[r |-> Head(queue), by |-> a, pc |-> "sleep"]}
    /\ UNCHANGED <<registered, pending, box, pc, asker, got>>

\* SendResponse: the channel is looked up under h.mu (or the call is over) ...
AnswerLookup(g) ==
    /\ g.pc = "sleep"
    /\ answering' = (answering \ {g}) \cup
                    (IF g.r \in pending THEN {[g EXCEPT !.pc = "send"]} ELSE {})
    /\ UNCHANGED <<registered, queue, pending, box, pc, asker, got, polling, taker>>

\* ... and filled without it; an answer that finds the buffer full is dropped.
AnswerSend(g) ==
    /\ g.pc = "send"
    /\ box' = IF box[g.r] = NoAgent THEN [box EXCEPT ![g.r] = g.by] ELSE box
    /\ answering' = answering \ {g}
    /\ UNCHANGED <<registered, queue, pending, pc, asker, got, polling, taker>>

\* CloseSession, called when the War Room session is closed or evicted.
Close ==
    /\ registered
    /\ registered' = FALSE /\ pending' = {}
    /\ UNCHANGED <<queue, box, pc, asker, got, polling, answering, taker>>

-----------------------------------------------------------------------------
RequestHandoff(r) == \/ Register(r) \/ Enqueue(r) \/ CtxDone(r) \/ Receive(r)
                     \/ Timeout(r) \/ Leave(r)
TryRecvRequest(a) == PollLookup(a) \/ PollRecv(a)
SendResponse(g)   == AnswerLookup(g) \/ AnswerSend(g)

Next ==
    \/ \E r \in Request : RequestHandoff(r)
    \/ \E a \in Agent : TryRecvRequest(a)
    \/ \E g \in answering : SendResponse(g)
    \/ Close

Spec == Init /\ [][Next]_vars

\* Timers fire, started goroutines go on, and a send with room succeeds.
\* Nothing obliges an agent to poll: it does so only while it runs a task.
Fairness ==
    \A r \in Request :
        /\ WF_vars(Enqueue(r)) /\ WF_vars(Leave(r))
        /\ WF_vars(Receive(r) \/ Timeout(r))
        /\ WF_vars(\E g \in answering : g.r = r /\ SendResponse(g))
FairSpec == Spec /\ Fairness

-----------------------------------------------------------------------------
(* Properties.                                                               *)

Answerers == [r : Request, by : Agent, pc : {"sleep", "send"}]

\* Every variable has its type; the queue holds at most QueueCap requests.
TypeOK ==
    /\ registered \in BOOLEAN
    /\ queue \in Seq(Request) /\ Len(queue) <= QueueCap
    /\ pending \in SUBSET Request
    /\ box \in [Request -> Agent \cup {NoAgent}]
    /\ pc \in [Request -> {"new"} \cup InCall \cup Ended]
    /\ asker \in [Request -> Agent \cup {NoAgent}]
    /\ got \in [Request -> Agent \cup {NoAgent}]
    /\ polling \in SUBSET Agent
    /\ answering \in SUBSET Answerers
    /\ taker \in [Request -> Agent \cup {NoAgent}]

\* The response map holds exactly the calls that are under way, until the
\* session is closed: no way out of RequestHandoff leaves its entry behind.
NoLeak == pending = IF registered THEN {r \in Request : pc[r] \in InCall} ELSE {}

\* At most one goroutine ever answers a request, so an answer never finds the
\* response channel full: SendResponse never drops one.
NeverDropped ==
    /\ \A g, h \in answering : g.r = h.r => g = h
    /\ \A g \in answering : box[g.r] = NoAgent /\ got[g.r] = NoAgent

Outcome(p) == IF p = "new" THEN "idle" ELSE IF p \in InCall THEN "asked" ELSE p
Abstract   == [r \in Request |-> Outcome(pc[r])]
Promise == INSTANCE HandoffPromise WITH state <- Abstract

\* The queue, the response channels and the timers implement the promise.
KeepsPromise == Promise!Spec

\* The inductive strengthening of NoLeak, NeverDropped and the promise.

\* A queued request has been asked, and nobody has taken or answered it.
QueueSound ==
    /\ \A i \in 1..Len(queue) : /\ pc[queue[i]] \notin {"new", "enqueue"}
                               /\ taker[queue[i]] = NoAgent
    /\ \A i, j \in 1..Len(queue) : queue[i] = queue[j] => i = j
\* What a request's taker, its answerers and its answer say of each other.
TakenSound ==
    \A r \in Request :
        /\ taker[r] # NoAgent => pc[r] \notin {"new", "enqueue"}
        /\ box[r] \in {NoAgent, taker[r]} /\ got[r] \in {NoAgent, taker[r]}
        /\ got[r] # NoAgent => pc[r] \in {"leave", "answered"}
        /\ pc[r] = "answered" => got[r] # NoAgent
AnswererSound == \A g \in answering : taker[g.r] = g.by
\* An agent in a tool call is not polling.
PollerFree == \A r \in Request : pc[r] \in InCall => asker[r] \notin polling

HandoffInv == /\ NoLeak /\ NeverDropped /\ QueueSound /\ TakenSound
              /\ AnswererSound /\ PollerFree

\* A call that has put its request in the queue ends, whoever takes it and
\* whatever happens to the session: two agents that ask each other do not wait
\* for each other for ever.
WaitEnds == \A r \in Request : pc[r] = "wait" ~> pc[r] \in Ended

\* README.md:70 of a handoff: it "times out after 30 seconds if the target
\* agent is unavailable".  The send into the request channel has no timeout.
CallEnds == \A r \in Request : pc[r] = "enqueue" ~> pc[r] \in Ended
=============================================================================
