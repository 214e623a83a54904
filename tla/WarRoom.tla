------------------------------- MODULE WarRoom -------------------------------
(* The War Room coordinator of internal/warroom/warroom.go, in the mode the  *)
(* CLI wires (an AgentRunner, no StagedExecutor): the maps guarded by c.mu,  *)
(* the Go channels, the goroutines runAgent and processFindings, the calls   *)
(* StartWarRoom, AssignTask, Broadcast, SubmitFinding, CloseSession and      *)
(* Shutdown, and RestoreSessions after the process died.  One action is one  *)
(* critical section or one channel operation, so calls interleave where the  *)
(* code releases the lock.  Timelines, texts and blackboard contents are     *)
(* left out.                                                                 *)
EXTENDS Integers, Sequences, FiniteSets

CONSTANTS
    Session,       \* the uuids StartWarRoom may draw
    Agent,         \* the domain agent types
    Caller,        \* goroutines that call the coordinator: HTTP handlers, tools
    Teams,         \* the agent sets a request may ask for
    MaxSessions,   \* c.maxSessions
    AgentBuf,      \* capacity of an agent channel
    FindingsBuf,   \* capacity of a findings channel
    HasStore,      \* whether SetStore was called
    Ops,           \* the operations the callers use
    MaxCalls,      \* bound: calls in a behaviour
    MaxCrashes,    \* bound: crashes of the process
    NoSession, NoAgent

ASSUME WarRoomAssumption ==
    /\ Agent # {} /\ IsFiniteSet(Agent) /\ IsFiniteSet(Caller)
    /\ Caller # {}
    /\ Teams \subseteq SUBSET Agent
    /\ NoSession \notin Session /\ NoAgent \notin Agent
    /\ MaxSessions \in Nat /\ AgentBuf \in Nat /\ FindingsBuf \in Nat
    /\ HasStore \in BOOLEAN
    /\ MaxCalls \in Nat /\ MaxCrashes \in Nat

VARIABLES
    sessions,    \* keys of c.sessions
    status,      \* Status of the session object ("none": no object)
    created,     \* CreatedAt; 0 while the uuid has not been drawn
    team,        \* the agents a session was started with
    reg,         \* keys of the other per-session maps of the coordinator
    clock,       \* the time of the last CreatedAt
    closedCh,    \* sessions whose channels have been close()d
    cancelled,   \* sessions whose context is done
    inbox,       \* the buffered messages of each agent channel
    fq,          \* the buffered findings of a session, by author
    agentSt,     \* AgentAssignment.Status
    findings,    \* number of findings each agent has in session.Findings
    ag,          \* where the runAgent goroutine of an agent is
    pf,          \* where the processFindings goroutine is, and its targets
    call,        \* where each caller is, and its local variables
    store,       \* the committed rows of the SQLite store
    restoring,   \* the sessions RestoreSessions has listed and not yet loaded
    gauge,       \* smartclaw_warroom_sessions_active
    proc,        \* "up", or a goroutine died of a send on a closed channel
    calls, crashes,     \* what the bounds count
    durable, acked      \* history: see DurableClose, AckedFindingStored

coord   == <<sessions, status, created, team, reg, clock>>
chans   == <<closedCh, cancelled, inbox, fq>>
work    == <<agentSt, findings, ag, pf>>
disk    == <<store, restoring>>
history == <<calls, crashes, durable, acked>>
vars    == <<coord, chans, work, call, disk, gauge, proc, history>>

-----------------------------------------------------------------------------
(* Data.                                                                     *)

Tables   == {"channels", "findings", "cancels", "blackboards", "handoff"}
Statuses == {"none", "active", "closed"}
AgentStatuses == {"spawning", "running", "complete", "failed"}
Message  == {"task", "bcast"}

NoFindings == [a \in Agent |-> 0]
NewAgents  == [a \in Agent |-> "spawning"]
NoRow      == [st |-> "none", f |-> NoFindings, ag |-> NewAgents]
\* Fault: a status the coordinator never uses is saved.
RowPaused(s) == [st |-> "paused", f |-> findings[s], ag |-> agentSt[s]]
Row(s)     == [st |-> status[s], f |-> findings[s], ag |-> agentSt[s]]

Frame(p, s, a, T) == [pc |-> p, s |-> s, a |-> a, todo |-> T, row |-> NoRow]
IdleCall    == Frame("idle", NoSession, NoAgent, {})
At(c, p)    == proc = "up" /\ call[c].pc = p
Enter(c, f) == call' = [call EXCEPT ![c] = f]
Return(c)   == Enter(c, IdleCall)
Goto(c, p)  == Enter(c, [call[c] EXCEPT !.pc = p])
Begin(c, op) == /\ At(c, "idle")
                /\ op \in Ops
                /\ calls < MaxCalls
                /\ calls' = calls + 1

\* An uncommitted SaveSession of StartWarRoom is in flight for s.
SavePending(s) == \E c \in Caller : call[c].pc = "commit" /\ call[c].s = s

\* Faults of the disposal: the handoff queue stays, the closed channels stay in
\* their map, the context is not cancelled, the channels are not closed.
DisposeButHandoff(s) ==
    /\ cancelled' = IF s \in reg["cancels"] THEN cancelled \cup {s} ELSE cancelled
    /\ status' = [status EXCEPT ![s] = "closed"]
    /\ closedCh' = IF s \in reg["channels"] THEN closedCh \cup {s} ELSE closedCh
    /\ reg' = [t \in Tables |-> IF t = "handoff" THEN reg[t] ELSE reg[t] \ {s}]
    /\ gauge' = gauge - 1
DisposeButChannels(s) ==
    /\ cancelled' = IF s \in reg["cancels"] THEN cancelled \cup {s} ELSE cancelled
    /\ status' = [status EXCEPT ![s] = "closed"]
    /\ closedCh' = IF s \in reg["channels"] THEN closedCh \cup {s} ELSE closedCh
    /\ reg' = [t \in Tables |-> IF t = "channels" THEN reg[t] ELSE reg[t] \ {s}]
    /\ gauge' = gauge - 1
DisposeUncancelled(s) ==
    /\ status' = [status EXCEPT ![s] = "closed"]
    /\ closedCh' = IF s \in reg["channels"] THEN closedCh \cup {s} ELSE closedCh
    /\ reg' = [t \in Tables |-> reg[t] \ {s}]
    /\ gauge' = gauge - 1
    /\ UNCHANGED cancelled
DisposeUnclosed(s) ==
    /\ cancelled' = IF s \in reg["cancels"] THEN cancelled \cup {s} ELSE cancelled
    /\ status' = [status EXCEPT ![s] = "closed"]
    /\ reg' = [t \in Tables |-> reg[t] \ {s}]
    /\ gauge' = gauge - 1
    /\ UNCHANGED closedCh

\* Everything CloseSession and cleanupSessionLocked have in common.
Dispose(s) ==
    /\ cancelled' = IF s \in reg["cancels"] THEN cancelled \cup {s} ELSE cancelled
    /\ status' = [status EXCEPT ![s] = "closed"]
    /\ closedCh' = IF s \in reg["channels"] THEN closedCh \cup {s} ELSE closedCh
    /\ reg' = [t \in Tables |-> reg[t] \ {s}]
    /\ gauge' = gauge - 1

Init ==
    /\ sessions = {}
    /\ status = [s \in Session |-> "none"]
    /\ created = [s \in Session |-> 0]
    /\ team = [s \in Session |-> {}]
    /\ reg = [t \in Tables |-> {}]
    /\ clock = 0
    /\ closedCh = {} /\ cancelled = {}
    /\ inbox = [s \in Session |-> [a \in Agent |-> <<>>]]
    /\ fq = [s \in Session |-> <<>>]
    /\ agentSt = [s \in Session |-> NewAgents]
    /\ findings = [s \in Session |-> NoFindings]
    /\ ag = [s \in Session |-> [a \in Agent |-> "none"]]
    /\ pf = [s \in Session |-> [pc |-> "none", todo |-> {}]]
    /\ call = [c \in Caller |-> IdleCall]
    /\ store = [s \in Session |-> NoRow]
    /\ restoring = {}
    /\ gauge = 0 /\ proc = "up"
    /\ calls = 0 /\ crashes = 0
    /\ durable = {} /\ acked = [s \in Session |-> NoFindings]

-----------------------------------------------------------------------------
(* StartWarRoom: the capacity check and the insertion are two critical       *)
(* sections; the save, the gauge and the goroutines come after the second.   *)

\* Fault: the limit is compared with > instead of >=.
StartEvictLate(c) ==
    /\ Begin(c, "start")
    /\ Goto(c, "evicted")
    /\ IF MaxSessions > 0 /\ Cardinality(sessions) > MaxSessions
       THEN \E oldest \in sessions :
              /\ \A s \in sessions : created[oldest] <= created[s]
              /\ Dispose(oldest)
              /\ sessions' = sessions \ {oldest}
       ELSE UNCHANGED <<sessions, status, reg, closedCh, cancelled, gauge>>
    /\ UNCHANGED <<created, team, clock, inbox, fq, work, disk, proc,
                   crashes, durable, acked>>

StartEvict(c) ==
    /\ Begin(c, "start")
    /\ Goto(c, "evicted")
    /\ IF MaxSessions > 0 /\ Cardinality(sessions) >= MaxSessions
       THEN \E oldest \in sessions :
              /\ \A s \in sessions : created[oldest] <= created[s]
              /\ Dispose(oldest)
              /\ sessions' = sessions \ {oldest}
       ELSE UNCHANGED <<sessions, status, reg, closedCh, cancelled, gauge>>
    /\ UNCHANGED <<created, team, clock, inbox, fq, work, disk, proc,
                   crashes, durable, acked>>

StartBuild(c) ==
    /\ At(c, "evicted")
    /\ \E s \in Session, T \in Teams :
         /\ created[s] = 0
         /\ created' = [created EXCEPT ![s] = clock + 1]
         /\ team' = [team EXCEPT ![s] = T]
         /\ Enter(c, Frame("built", s, NoAgent, {}))
    /\ clock' = clock + 1
    /\ UNCHANGED <<sessions, status, reg, chans, work, disk, gauge, proc, history>>

StartPublish(c) ==
    LET s == call[c].s IN
    /\ At(c, "built")
    /\ sessions' = sessions \cup {s}
    /\ status' = [status EXCEPT ![s] = "active"]
    /\ reg' = [t \in Tables |-> reg[t] \cup {s}]
    /\ Goto(c, IF HasStore THEN "published" ELSE "saved")
    /\ UNCHANGED <<created, team, clock, chans, work, disk, gauge, proc, history>>

\* SaveSession reads the session without c.mu ...
StartSave(c) ==
    /\ At(c, "published")
    /\ Enter(c, [call[c] EXCEPT !.pc = "commit", !.row = Row(call[c].s)])
    /\ UNCHANGED <<coord, chans, work, disk, gauge, proc, history>>

\* ... and its transaction commits what it read.
StartCommit(c) ==
    /\ At(c, "commit")
    /\ store' = [store EXCEPT ![call[c].s] = call[c].row]
    /\ Goto(c, "saved")
    /\ UNCHANGED <<coord, chans, work, restoring, gauge, proc, history>>

StartSpawn(c) ==
    LET s == call[c].s IN
    /\ At(c, "saved")
    /\ gauge' = gauge + 1
    /\ pf' = [pf EXCEPT ![s].pc = "start"]
    /\ ag' = [ag EXCEPT ![s] =
                [a \in Agent |-> IF a \in team[s] THEN "start" ELSE "none"]]
    /\ Return(c)
    /\ UNCHANGED <<coord, chans, agentSt, findings, disk, proc, history>>

-----------------------------------------------------------------------------
(* Sends.  A send on a closed channel panics: net/http recovers the panic of *)
(* a handler's goroutine, any other panic ends the process.                  *)

Deliver(s, a, m)  == inbox' = [inbox EXCEPT ![s][a] = Append(@, m)]
PostFinding(s, a) == fq' = [fq EXCEPT ![s] = Append(@, a)]

PanicCall(c) ==
    /\ \/ Return(c) /\ UNCHANGED proc
       \/ proc' = "panicked" /\ UNCHANGED call
    /\ UNCHANGED inbox

AssignLookup(c) ==
    /\ Begin(c, "assign")
    /\ \E s \in reg["channels"] : \E a \in team[s] :
         Enter(c, Frame("assign", s, a, {}))
    /\ UNCHANGED <<coord, chans, work, disk, gauge, proc, crashes, durable, acked>>

\* A blocking send: it waits for room, or for the channel to be closed.
AssignSend(c) ==
    LET s == call[c].s
        a == call[c].a
    IN
    /\ At(c, "assign")
    /\ \/ /\ s \in closedCh
          /\ PanicCall(c)
       \/ /\ s \notin closedCh
          /\ Len(inbox[s][a]) < AgentBuf
          /\ Deliver(s, a, "task")
          /\ Return(c)
          /\ UNCHANGED proc
    /\ UNCHANGED <<coord, closedCh, cancelled, fq, work, disk, gauge, history>>

\* The caller's context ends while the send is waiting.
AssignCancelled(c) ==
    /\ At(c, "assign")
    /\ Return(c)
    /\ UNCHANGED <<coord, chans, work, disk, gauge, proc, history>>

BroadcastLookup(c) ==
    /\ Begin(c, "broadcast")
    /\ \E s \in reg["channels"] :
         Enter(c, Frame("bcast", s, NoAgent, team[s]))
    /\ UNCHANGED <<coord, chans, work, disk, gauge, proc, crashes, durable, acked>>

\* A non-blocking send: a full inbox drops the message.
Offer(s, a) ==
    IF Len(inbox[s][a]) < AgentBuf THEN Deliver(s, a, "bcast") ELSE UNCHANGED inbox

BroadcastSend(c) ==
    LET s == call[c].s IN
    /\ At(c, "bcast")
    /\ \/ /\ call[c].todo # {} /\ s \in closedCh
          /\ PanicCall(c)
       \/ /\ call[c].todo # {} /\ s \notin closedCh
          /\ \E a \in call[c].todo :
               /\ Offer(s, a)
               /\ Enter(c, [call[c] EXCEPT !.todo = @ \ {a}])
          /\ UNCHANGED proc
       \/ /\ call[c].todo = {}
          /\ Return(c)
          /\ UNCHANGED <<inbox, proc>>
    /\ UNCHANGED <<coord, closedCh, cancelled, fq, work, disk, gauge, history>>

\* Fault: the session is saved before the finding is appended.
SubmitSaveFirst(c) ==
    /\ Begin(c, "submit")
    /\ \E s \in sessions, a \in Agent :
         LET more == [findings[s] EXCEPT ![a] = @ + 1] IN
         /\ findings' = [findings EXCEPT ![s] = more]
         /\ store' = IF HasStore THEN [store EXCEPT ![s] = Row(s)] ELSE store
         /\ acked' = IF HasStore /\ ~SavePending(s)
                     THEN [acked EXCEPT ![s] = more] ELSE acked
         /\ Enter(c, Frame("recorded", s, a, {}))
    /\ UNCHANGED <<coord, chans, agentSt, ag, pf, restoring, gauge, proc,
                   crashes, durable>>

\* Record the finding and save the session, both under c.mu.
SubmitRecord(c) ==
    /\ Begin(c, "submit")
    /\ \E s \in sessions, a \in Agent :
         LET more == [findings[s] EXCEPT ![a] = @ + 1] IN
         /\ findings' = [findings EXCEPT ![s] = more]
         /\ store' = IF HasStore
                     THEN [store EXCEPT ![s] = [Row(s) EXCEPT !.f = more]]
                     ELSE store
         /\ acked' = IF HasStore /\ ~SavePending(s)
                     THEN [acked EXCEPT ![s] = more] ELSE acked
         /\ Enter(c, Frame("recorded", s, a, {}))
    /\ UNCHANGED <<coord, chans, agentSt, ag, pf, restoring, gauge, proc,
                   crashes, durable>>

SubmitLookup(c) ==
    /\ At(c, "recorded")
    /\ IF call[c].s \in reg["findings"] THEN Goto(c, "submit") ELSE Return(c)
    /\ UNCHANGED <<coord, chans, work, disk, gauge, proc, history>>

SubmitSend(c) ==
    LET s == call[c].s IN
    /\ At(c, "submit")
    /\ \/ /\ s \in closedCh
          /\ PanicCall(c)
          /\ UNCHANGED fq
       \/ /\ s \notin closedCh
          /\ IF Len(fq[s]) < FindingsBuf THEN PostFinding(s, call[c].a)
             ELSE UNCHANGED fq
          /\ Return(c)
          /\ UNCHANGED <<inbox, proc>>
    /\ UNCHANGED <<coord, closedCh, cancelled, work, disk, gauge, history>>

-----------------------------------------------------------------------------
(* CloseSession, Shutdown, and the end of the context a caller passed to     *)
(* StartWarRoom.                                                             *)

\* Fault: the closed session is not saved.
CloseUnsaved(s) ==
    /\ s \in sessions
    /\ Dispose(s)
    /\ durable' = IF HasStore /\ ~SavePending(s) THEN durable \cup {s} ELSE durable
    /\ UNCHANGED <<sessions, created, team, clock, inbox, fq, work, store, restoring,
                   proc, crashes, acked>>

Close(s) ==
    /\ s \in sessions
    /\ Dispose(s)
    /\ store' = IF HasStore
                THEN [store EXCEPT ![s] = [Row(s) EXCEPT !.st = "closed"]]
                ELSE store
    /\ durable' = IF HasStore /\ ~SavePending(s) THEN durable \cup {s} ELSE durable
    /\ UNCHANGED <<sessions, created, team, clock, inbox, fq, work, restoring,
                   proc, crashes, acked>>

CloseSession(c) ==
    /\ Begin(c, "close")
    /\ \E s \in sessions : Close(s)
    /\ UNCHANGED call

ShutdownList(c) ==
    /\ Begin(c, "shutdown")
    /\ Enter(c, Frame("shutdown", NoSession, NoAgent, sessions))
    /\ UNCHANGED <<coord, chans, work, disk, gauge, proc, crashes, durable, acked>>

ShutdownClose(c) ==
    /\ At(c, "shutdown")
    /\ \/ \E s \in call[c].todo \cap sessions :
            /\ Close(s)
            /\ Enter(c, [call[c] EXCEPT !.todo = @ \ {s}])
            /\ UNCHANGED calls
       \/ /\ call[c].todo \cap sessions = {}     \* "session not found"
          /\ Return(c)
          /\ UNCHANGED <<coord, chans, work, disk, gauge, proc, history>>

ParentDone(s) ==
    /\ proc = "up"
    /\ s \in reg["cancels"] \ cancelled
    /\ cancelled' = cancelled \cup {s}
    /\ UNCHANGED <<coord, closedCh, inbox, fq, work, call, disk, gauge, proc, history>>

-----------------------------------------------------------------------------
(* The goroutine runAgent of agent a in session s.                           *)

AgentAt(s, a, p)    == proc = "up" /\ ag[s][a] = p
AgentGoto(s, a, p)  == ag' = [ag EXCEPT ![s][a] = p]
SetStatus(s, a, st) == agentSt' = IF s \in sessions
                                  THEN [agentSt EXCEPT ![s][a] = st] ELSE agentSt

AgentBegin(s, a) ==
    /\ AgentAt(s, a, "start")
    /\ SetStatus(s, a, "running")
    /\ AgentGoto(s, a, "fetch")
    /\ UNCHANGED <<coord, chans, findings, pf, call, disk, gauge, proc, history>>

AgentFetch(s, a) ==
    /\ AgentAt(s, a, "fetch")
    /\ AgentGoto(s, a, IF s \in reg["channels"] THEN "loop" ELSE "done")
    /\ UNCHANGED <<coord, chans, agentSt, findings, pf, call, disk, gauge, proc, history>>

AgentQuit(s, a) ==
    /\ AgentAt(s, a, "loop")
    /\ s \in cancelled
    /\ SetStatus(s, a, "complete")
    /\ AgentGoto(s, a, "done")
    /\ UNCHANGED <<coord, chans, findings, pf, call, disk, gauge, proc, history>>

AgentRecv(s, a) ==
    /\ AgentAt(s, a, "loop")
    /\ inbox[s][a] # <<>>
    /\ inbox' = [inbox EXCEPT ![s][a] = Tail(@)]
    /\ SetStatus(s, a, "running")
    /\ AgentGoto(s, a, IF Head(inbox[s][a]) = "task" THEN "run" ELSE "loop")
    /\ UNCHANGED <<coord, closedCh, cancelled, fq, findings, pf, call, disk, gauge,
                   proc, history>>

\* A closed and drained channel: the goroutine returns, its status stays.
AgentClosed(s, a) ==
    /\ AgentAt(s, a, "loop")
    /\ inbox[s][a] = <<>> /\ s \in closedCh
    /\ AgentGoto(s, a, "done")
    /\ UNCHANGED <<coord, chans, agentSt, findings, pf, call, disk, gauge, proc, history>>

\* A fault: a failed task ends the agent's goroutine.
AgentReportExit(s, a) ==
    /\ AgentAt(s, a, "run")
    /\ SetStatus(s, a, "failed")
    /\ AgentGoto(s, a, "done")
    /\ UNCHANGED <<coord, chans, findings, pf, call, disk, gauge, proc, history>>

\* RunAgent returns a text, no text, or an error with or without a text.
AgentReport(s, a) ==
    /\ AgentAt(s, a, "run")
    /\ \E failed \in BOOLEAN, text \in BOOLEAN :
         /\ agentSt' = IF failed /\ s \in sessions
                       THEN [agentSt EXCEPT ![s][a] = "failed"] ELSE agentSt
         /\ findings' = IF ~failed /\ text /\ s \in sessions
                        THEN [findings EXCEPT ![s][a] = @ + 1] ELSE findings
         /\ AgentGoto(s, a, IF text THEN "send" ELSE "loop")
    /\ UNCHANGED <<coord, chans, pf, call, disk, gauge, proc, history>>

\* A blocking send on the findings channel fetched at the start.
AgentSend(s, a) ==
    /\ AgentAt(s, a, "send")
    /\ \/ /\ s \in closedCh
          /\ proc' = "panicked"
          /\ UNCHANGED <<fq, ag>>
       \/ /\ s \notin closedCh
          /\ Len(fq[s]) < FindingsBuf
          /\ PostFinding(s, a)
          /\ AgentGoto(s, a, "loop")
          /\ UNCHANGED proc
    /\ UNCHANGED <<coord, closedCh, cancelled, inbox, agentSt, findings, pf, call,
                   disk, gauge, history>>

-----------------------------------------------------------------------------
(* The goroutine processFindings of session s.                               *)

PfAt(s, p) == proc = "up" /\ pf[s].pc = p
PfGoto(s, p) == pf' = [pf EXCEPT ![s] = [pc |-> p, todo |-> {}]]

PfBegin(s) ==
    /\ PfAt(s, "start")
    /\ PfGoto(s, IF s \in reg["findings"] THEN "loop" ELSE "done")
    /\ UNCHANGED <<coord, chans, agentSt, findings, ag, call, disk, gauge, proc, history>>

PfQuit(s) ==
    /\ PfAt(s, "loop")
    /\ s \in cancelled \/ (fq[s] = <<>> /\ s \in closedCh)
    /\ PfGoto(s, "done")
    /\ UNCHANGED <<coord, chans, agentSt, findings, ag, call, disk, gauge, proc, history>>

\* Fault: processFindings returns after one finding.
PfRecvOnce(s) ==
    /\ PfAt(s, "loop")
    /\ fq[s] # <<>>
    /\ fq' = [fq EXCEPT ![s] = Tail(@)]
    /\ PfGoto(s, "done")
    /\ UNCHANGED <<coord, closedCh, cancelled, inbox, agentSt, findings, ag, call,
                   disk, gauge, proc, history>>

PfRecv(s) ==
    /\ PfAt(s, "loop")
    /\ fq[s] # <<>>
    /\ fq' = [fq EXCEPT ![s] = Tail(@)]
    /\ pf' = [pf EXCEPT ![s] =
                IF s \in reg["channels"]
                THEN [pc |-> "fan", todo |-> team[s] \ {Head(fq[s])}]
                ELSE [pc |-> "loop", todo |-> {}]]
    /\ UNCHANGED <<coord, closedCh, cancelled, inbox, agentSt, findings, ag, call,
                   disk, gauge, proc, history>>

PfSend(s) ==
    /\ PfAt(s, "fan")
    /\ \/ /\ pf[s].todo # {} /\ s \in closedCh
          /\ proc' = "panicked"
          /\ UNCHANGED <<inbox, pf>>
       \/ /\ pf[s].todo # {} /\ s \notin closedCh
          /\ \E a \in pf[s].todo :
               /\ Offer(s, a)
               /\ pf' = [pf EXCEPT ![s].todo = @ \ {a}]
          /\ UNCHANGED proc
       \/ /\ pf[s].todo = {}
          /\ PfGoto(s, "loop")
          /\ UNCHANGED <<inbox, proc>>
    /\ UNCHANGED <<coord, closedCh, cancelled, fq, agentSt, findings, ag, call, disk,
                   gauge, history>>

-----------------------------------------------------------------------------
(* The process dies and a new one calls RestoreSessions: it lists the store, *)
(* then loads each active session on its own, without channels, context,     *)
(* goroutines or gauge, and whatever the capacity.                           *)

Crash ==
    /\ crashes < MaxCrashes
    /\ crashes' = crashes + 1
    /\ sessions' = {} /\ status' = [s \in Session |-> "none"]
    /\ team' = [s \in Session |-> {}]
    /\ reg' = [t \in Tables |-> {}]
    /\ closedCh' = {} /\ cancelled' = {}
    /\ inbox' = [s \in Session |-> [a \in Agent |-> <<>>]]
    /\ fq' = [s \in Session |-> <<>>]
    /\ agentSt' = [s \in Session |-> NewAgents]
    /\ findings' = [s \in Session |-> NoFindings]
    /\ ag' = [s \in Session |-> [a \in Agent |-> "none"]]
    /\ pf' = [s \in Session |-> [pc |-> "none", todo |-> {}]]
    /\ call' = [c \in Caller |-> IdleCall]
    /\ restoring' = {s \in Session : store[s].st = "active"}
    /\ gauge' = 0 /\ proc' = "up"
    /\ UNCHANGED <<created, clock, store, calls, durable, acked>>

RestoreSession(s) ==
    /\ proc = "up"
    /\ s \in restoring
    /\ restoring' = restoring \ {s}
    /\ sessions' = sessions \cup {s}
    /\ status' = [status EXCEPT ![s] = store[s].st]
    /\ findings' = [findings EXCEPT ![s] = store[s].f]
    /\ agentSt' = [agentSt EXCEPT ![s] = store[s].ag]
    /\ reg' = [reg EXCEPT !["blackboards"] = @ \cup {s}, !["handoff"] = @ \cup {s}]
    /\ UNCHANGED <<created, team, clock, chans, ag, pf, call, store, gauge, proc,
                   history>>

-----------------------------------------------------------------------------
StartWarRoom(c) == \/ StartEvict(c) \/ StartBuild(c) \/ StartPublish(c)
                   \/ StartSave(c) \/ StartCommit(c) \/ StartSpawn(c)
AssignTask(c)   == AssignLookup(c) \/ AssignSend(c) \/ AssignCancelled(c)
Broadcast(c)    == BroadcastLookup(c) \/ BroadcastSend(c)
SubmitFinding(c) == SubmitRecord(c) \/ SubmitLookup(c) \/ SubmitSend(c)
Shutdown(c)     == ShutdownList(c) \/ ShutdownClose(c)
runAgent(s, a)  == \/ AgentBegin(s, a) \/ AgentFetch(s, a) \/ AgentQuit(s, a)
                   \/ AgentRecv(s, a) \/ AgentClosed(s, a) \/ AgentReport(s, a)
                   \/ AgentSend(s, a)
processFindings(s) == PfBegin(s) \/ PfQuit(s) \/ PfRecv(s) \/ PfSend(s)

Next ==
    \/ \E c \in Caller : \/ StartWarRoom(c) \/ AssignTask(c) \/ Broadcast(c)
                         \/ SubmitFinding(c) \/ CloseSession(c) \/ Shutdown(c)
    \/ \E s \in Session : \/ ParentDone(s) \/ processFindings(s) \/ RestoreSession(s)
                          \/ \E a \in Agent : runAgent(s, a)
    \/ Crash

Spec == Init /\ [][Next]_vars

\* The Go scheduler runs every goroutine that can run, and RunAgent returns
\* (the runner stops after five model calls).
Fairness ==
    /\ \A s \in Session : /\ WF_vars(processFindings(s))
                          /\ \A a \in Agent : WF_vars(runAgent(s, a))
    /\ \A c \in Caller :
         /\ WF_vars(StartPublish(c) \/ StartSave(c) \/ StartCommit(c) \/ StartSpawn(c))
         /\ WF_vars(AssignSend(c))
FairSpec == Spec /\ Fairness

-----------------------------------------------------------------------------
(* Properties.                                                               *)

Rows == [st : Statuses, f : [Agent -> Nat], ag : [Agent -> AgentStatuses]]
CallPCs == {"idle", "evicted", "built", "published", "commit", "saved", "assign",
            "bcast", "recorded", "submit", "shutdown"}

AgentPCs == {"none", "start", "fetch", "loop", "run", "send", "done"}
PfFrames == [pc : {"none", "start", "loop", "fan", "done"}, todo : SUBSET Agent]
RawFrames == [pc : CallPCs, s : Session \cup {NoSession}, a : Agent \cup {NoAgent},
              todo : SUBSET (Agent \cup Session), row : Rows]
\* A call that is under way has looked its session and its agent up.
FrameOK(f) ==
    /\ f.pc \notin {"idle", "evicted", "shutdown"} => f.s \in Session
    /\ f.pc \in {"assign", "recorded", "submit"} => f.a \in Agent
    /\ f.pc = "bcast" => f.todo \subseteq Agent
    /\ f.pc = "shutdown" => f.todo \subseteq Session
Frames == {f \in RawFrames : FrameOK(f)}

CoordType ==
    /\ sessions \in SUBSET Session
    /\ status \in [Session -> Statuses]
    /\ created \in [Session -> Nat] /\ clock \in Nat
    /\ team \in [Session -> SUBSET Agent]
    /\ reg \in [Tables -> SUBSET Session]
ChansType ==
    /\ closedCh \in SUBSET Session /\ cancelled \in SUBSET Session
    /\ inbox \in [Session -> [Agent -> Seq(Message)]]
    /\ fq \in [Session -> Seq(Agent)]
WorkType ==
    /\ agentSt \in [Session -> [Agent -> AgentStatuses]]
    /\ findings \in [Session -> [Agent -> Nat]]
    /\ ag \in [Session -> [Agent -> AgentPCs]]
    /\ pf \in [Session -> PfFrames]
DiskType ==
    /\ store \in [Session -> Rows]
    /\ restoring \in SUBSET Session
    /\ durable \in SUBSET Session /\ acked \in [Session -> [Agent -> Nat]]
EnvType ==
    /\ gauge \in Int /\ proc \in {"up", "panicked"}
    /\ calls \in Nat /\ crashes \in Nat

\* Every variable has its type: in particular the table entries are sessions,
\* each goroutine is at one of its blocking points, and a saved row has a
\* status the coordinator uses.
TypeOK == /\ CoordType /\ ChansType /\ WorkType /\ DiskType /\ EnvType
          /\ call \in [Caller -> Frames]

\* The maps of the coordinator agree: a session is Active exactly when it has
\* a blackboard and a handoff queue; channels, findings channel and cancel
\* function come and go together, and only an Active session has them.
MapsAgree ==
    /\ reg["channels"] = reg["findings"] /\ reg["channels"] = reg["cancels"]
    /\ reg["blackboards"] = reg["handoff"]
    /\ reg["blackboards"] = {s \in sessions : status[s] = "active"}
    /\ reg["channels"] \subseteq reg["blackboards"]

\* Looking a session up never yields a closed channel: a send can panic only
\* if the close fell between the call's lookup and its send.
LookupsOpen == reg["channels"] \cap closedCh = {}

\* Neither processFindings nor any runAgent of s is running.
Stopped(s) == /\ pf[s].pc \in {"none", "done"}
              /\ \A a \in Agent : ag[s][a] \in {"none", "done"}

\* No goroutine of a session runs on after its channels left the maps without
\* its context having been cancelled: whatever closes or evicts a session
\* tells runAgent and processFindings to stop.
NoOrphan == \A s \in Session \ reg["channels"] : ~Stopped(s) => s \in cancelled

\* The check of maxSessions and the insertion are two critical sections, so
\* concurrent starts overshoot, but by less than their number (before any
\* restart: RestoreSessions ignores the limit).
CapacityBound ==
    crashes = 0 /\ MaxSessions > 0
        => Cardinality(sessions) <= MaxSessions + Cardinality(Caller) - 1

\* metrics.go:11 of smartclaw_warroom_sessions_active: "Active war room
\* sessions".  Once no start is between its insertion and its metric update,
\* the gauge is their number.
GaugeIsActive ==
    (\A c \in Caller : call[c].pc \notin {"published", "commit", "saved"})
        => gauge = Cardinality({s \in Session : status[s] = "active"})

\* A session closed while its StartWarRoom had no save in flight is closed on
\* disk: no later save and no restart makes it active again.
DurableClose ==
    \A s \in durable : status[s] # "active" /\ store[s].st = "closed"

\* A finding SubmitFinding recorded while no initial save was in flight is in
\* the store, whatever saves, crashes and restores follow.
AckedFindingStored ==
    \A s \in Session, a \in Agent : acked[s][a] <= store[s].f[a]

\* The inductive strengthening of MapsAgree, LookupsOpen, NoOrphan,
\* DurableClose and AckedFindingStored.
Starting  == {"built", "published", "commit", "saved"}

\* A uuid nobody has drawn has left no trace.
NoTrace ==
    \A s \in Session : created[s] = 0 =>
        /\ status[s] = "none" /\ store[s].st = "none"
        /\ s \notin durable /\ \A a \in Agent : acked[s][a] = 0
StatusSound ==
    /\ \A s \in sessions : status[s] # "none"
    /\ \A s \in Session : status[s] = "active" => s \in sessions
    /\ \A s \in closedCh : status[s] = "closed"
\* A uuid belongs to the one StartWarRoom that drew it.
StarterOwns ==
    \A c \in Caller : call[c].pc \in Starting =>
        /\ created[call[c].s] # 0 /\ call[c].s \notin restoring
        /\ \A d \in Caller \ {c} :
             call[d].pc \in Starting => call[d].s # call[c].s
BuiltFresh ==
    \A c \in Caller : call[c].pc = "built" =>
        /\ status[call[c].s] = "none" /\ call[c].s \notin durable
        /\ \A a \in Agent : acked[call[c].s][a] = 0
PublishedKnown ==
    \A c \in Caller : call[c].pc \in {"published", "commit", "saved"} =>
        /\ status[call[c].s] # "none"
        /\ call[c].s \in reg["channels"] \cup cancelled
RestoringOut ==
    \A s \in restoring : /\ status[s] = "none" /\ created[s] # 0
                         /\ store[s].st = "active"
CommitSound ==
    \A c \in Caller : call[c].pc = "commit" =>
        /\ call[c].s \in durable => call[c].row.st = "closed"
        /\ \A a \in Agent : acked[call[c].s][a] <= call[c].row.f[a]
FindingsCover ==
    \A s \in Session : status[s] # "none" =>
        \A a \in Agent : acked[s][a] <= findings[s][a]

IInv == /\ MapsAgree /\ NoOrphan /\ DurableClose /\ AckedFindingStored
        /\ NoTrace /\ StatusSound /\ StarterOwns /\ BuiltFresh
        /\ PublishedKnown /\ RestoringOut /\ CommitSound /\ FindingsCover

\* A start counts against the limit from its capacity check to its insertion.
PendingStarts == {c \in Caller : call[c].pc \in {"evicted", "built"}}
CapacityInv ==
    crashes = 0 =>
        /\ restoring = {}
        /\ MaxSessions > 0 =>
             Cardinality(sessions) + Cardinality(PendingStarts)
                 <= MaxSessions + Cardinality(Caller) - 1

\* The goroutines of a session that was closed or evicted return, also the
\* agent that waits for room in the findings channel (its send panics).
CloseReaps ==
    \A s \in Session : status[s] = "closed" ~> (Stopped(s) \/ proc = "panicked")

\* A task handed to AssignTask is taken, as long as the context of the session
\* lives: its agent keeps receiving, because processFindings keeps the
\* findings channel from filling up.
TaskAccepted ==
    \A c \in Caller : \A s \in Session :
        (call[c].pc = "assign" /\ call[c].s = s)
            ~> (call[c].pc # "assign" \/ s \in cancelled \/ proc = "panicked")

\* A finding waiting for processFindings is fanned out while the context lives.
FindingsDrained ==
    \A s \in Session : fq[s] # <<>> ~> (fq[s] = <<>> \/ s \in cancelled \/ proc = "panicked")

=============================================================================
