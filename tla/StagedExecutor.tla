---------------------------- MODULE StagedExecutor ----------------------------
(* One call of ExecuteStaged (internal/warroom/dispatcher.go), which runs a  *)
(* War Room session when the coordinator was initialised with an LLM: the    *)
(* executor's goroutine, the goroutine of each agent it starts, and the end  *)
(* of the session under their feet.  Prompts, texts and the blackboard are   *)
(* left out; SubmitFinding is its critical section (WarRoom has the rest).   *)
EXTENDS Naturals, Sequences, FiniteSets

CONSTANTS
    Agent,       \* the domain agents SelectAgents scores
    Reasoner,    \* AgentReasoning
    Infra, App,  \* the domain agents chosen by default
    Rank,        \* the position of an agent in the list of scores
    Cap,         \* most agents of phase 1 (4)
    Teams,       \* the agent sets a session may be started with
    MaxRecs      \* bound: agents the reasoner recommends

Everybody == Agent \cup {Reasoner}

ASSUME ExecutorAssumption ==
    /\ IsFiniteSet(Agent) /\ Reasoner \notin Agent
    /\ Infra \in Agent /\ App \in Agent
    /\ Rank \in [Agent -> Nat] /\ \A a, b \in Agent : Rank[a] = Rank[b] => a = b
    /\ Cap \in Nat \ {0} /\ MaxRecs \in Nat
    /\ Teams \subseteq SUBSET Everybody

VARIABLES
    score,       \* how many keywords of each agent the description has: 0, 1, 2 or more
    pc,          \* where ExecuteStaged is
    todo,        \* the rest of phase3ToRun
    worker,      \* the goroutines of the agents of this phase that are not done
    said,        \* whether reasoningResult has a text
    heard,       \* phase1Findings
    session,     \* "open", "closed", or "gone": evicted from c.sessions
    cancelled,   \* the context of the session is done
    assigned,    \* the agents in session.Agents
    agentSt,     \* their status
    findings     \* session.Findings, by phase and author

vars == <<score, pc, todo, worker, said, heard, session, cancelled, assigned, agentSt,
          findings>>

Finding(p, a, k) == [phase |-> p, by |-> a, k |-> k]

-----------------------------------------------------------------------------
(* SelectAgents: agents with two keywords or more are chosen, those with one *)
(* are in the pool of phase 3.                                               *)

Strong  == {a \in Agent : score[a] >= 2}
Pool    == {a \in Agent : score[a] = 1}
Default == IF score[Infra] > 0 \/ score[App] > 0 THEN {Infra, App} ELSE {Infra}
First(n, S) == {a \in S : Cardinality({b \in S : Rank[b] < Rank[a]}) < n}
Phase1  == First(Cap, IF Strong = {} THEN Default ELSE Strong)

Init ==
    /\ score \in [Agent -> 0..2]
    /\ pc = "plan" /\ todo = <<>> /\ worker = {} /\ said = FALSE /\ heard = {}
    /\ session = "open" /\ cancelled = FALSE
    /\ assigned \in Teams
    /\ agentSt = [a \in Everybody |-> "spawning"]
    /\ findings = {}

-----------------------------------------------------------------------------
(* What the executor does to the session, each in a critical section.        *)

\* updateAgentStatus: of an agent of a session that is still in the map.
SetStatus(a, st) ==
    agentSt' = IF session # "gone" /\ a \in assigned
               THEN [agentSt EXCEPT ![a] = st] ELSE agentSt

\* SubmitFinding, which does not mind a closed session.
Submit(f) == findings' = IF session # "gone" THEN findings \cup {f} ELSE findings

Goto(p) == pc' = p

-----------------------------------------------------------------------------
(* The goroutine of one agent.                                               *)

PhaseNow == IF pc = "wait1" THEN 1 ELSE 3

WorkerBegin(w) ==
    /\ w.pc = "start"
    /\ SetStatus(w.a, "running")
    /\ worker' = (worker \ {w}) \cup {[w EXCEPT !.pc = "run"]}
    /\ UNCHANGED <<score, pc, todo, said, heard, session, cancelled, assigned, findings>>

\* Faults: a failed agent keeps its status; a failed agent never signs off.
WorkerReturnRunning(w) ==
    /\ w.pc = "run"
    /\ \E result \in {"error", "empty", "text"} :
         /\ IF result = "error" THEN UNCHANGED agentSt ELSE SetStatus(w.a, "complete")
         /\ worker' = (worker \ {w}) \cup
                      (IF result = "text" THEN {[w EXCEPT !.pc = "submit"]} ELSE {})
         /\ heard' = IF result = "text" /\ PhaseNow = 1
                     THEN heard \cup {Finding(1, w.a, w.k)} ELSE heard
    /\ UNCHANGED <<score, pc, todo, said, session, cancelled, assigned, findings>>
WorkerReturnStuck(w) ==
    /\ w.pc = "run"
    /\ \E result \in {"error", "empty", "text"} :
         /\ SetStatus(w.a, IF result = "error" THEN "failed" ELSE "complete")
         /\ worker' = (worker \ {w}) \cup
                      (IF result = "text" THEN {[w EXCEPT !.pc = "submit"]}
                       ELSE IF result = "error" THEN {[w EXCEPT !.pc = "stuck"]} ELSE {})
         /\ heard' = IF result = "text" /\ PhaseNow = 1
                     THEN heard \cup {Finding(1, w.a, w.k)} ELSE heard
    /\ UNCHANGED <<score, pc, todo, said, session, cancelled, assigned, findings>>

\* RunAgent returns an error, no text, or a text.
WorkerReturn(w) ==
    /\ w.pc = "run"
    /\ \E result \in {"error", "empty", "text"} :
         /\ SetStatus(w.a, IF result = "error" THEN "failed" ELSE "complete")
         /\ worker' = (worker \ {w}) \cup
                      (IF result = "text" THEN {[w EXCEPT !.pc = "submit"]} ELSE {})
         /\ heard' = IF result = "text" /\ PhaseNow = 1
                     THEN heard \cup {Finding(1, w.a, w.k)} ELSE heard
    /\ UNCHANGED <<score, pc, todo, said, session, cancelled, assigned, findings>>

WorkerSubmit(w) ==
    /\ w.pc = "submit"
    /\ Submit(Finding(PhaseNow, w.a, w.k))
    /\ worker' = worker \ {w}
    /\ UNCHANGED <<score, pc, todo, said, heard, session, cancelled, assigned, agentSt>>

-----------------------------------------------------------------------------
(* The executor.                                                             *)

Started(a, k) == [a |-> a, k |-> k, pc |-> "start"]

StartPhase1 ==
    /\ pc = "plan"
    /\ worker' = {Started(a, 0) : a \in Phase1}
    /\ Goto("wait1")
    /\ UNCHANGED <<score, todo, said, heard, session, cancelled, assigned, agentSt, findings>>

\* Fault: the executor does not wait for the findings to be submitted.
EndPhase1Early ==
    /\ pc = "wait1" /\ \A w \in worker : w.pc = "submit"
    /\ IF cancelled
       THEN Goto("done") /\ UNCHANGED agentSt
       ELSE Goto("reason2") /\ SetStatus(Reasoner, "running")
    /\ UNCHANGED <<score, todo, worker, said, heard, session, cancelled, assigned, findings>>

\* wg.Wait; a cancelled context ends the execution after each phase.
EndPhase1 ==
    /\ pc = "wait1" /\ worker = {}
    /\ IF cancelled
       THEN Goto("done") /\ UNCHANGED agentSt
       ELSE Goto("reason2") /\ SetStatus(Reasoner, "running")
    /\ UNCHANGED <<score, todo, worker, said, heard, session, cancelled, assigned, findings>>

\* The reasoner returns; a failed call may leave a partial text.
Reasoned ==
    /\ pc \in {"reason2", "reason4"}
    /\ \E failed \in BOOLEAN, text \in BOOLEAN :
         /\ SetStatus(Reasoner, IF failed THEN "failed" ELSE "complete")
         /\ said' = text
         /\ Goto(CASE ~failed /\ text -> IF pc = "reason2" THEN "submit2" ELSE "submit4"
                   [] OTHER           -> IF pc = "reason2" THEN "end2" ELSE "end4")
    /\ UNCHANGED <<score, todo, worker, heard, session, cancelled, assigned, findings>>

SubmitRootCause ==
    /\ pc \in {"submit2", "submit4"}
    /\ Submit(IF pc = "submit2" THEN Finding(2, Reasoner, 0) ELSE Finding(4, Reasoner, 0))
    /\ Goto(IF pc = "submit2" THEN "end2" ELSE "end4")
    /\ UNCHANGED <<score, todo, worker, said, heard, session, cancelled, assigned, agentSt>>

\* Fault: recommendations are not looked up in the pool.
EndPhase2Unfiltered ==
    /\ pc = "end2"
    /\ \/ /\ ~cancelled /\ said
          /\ \E n \in 1..MaxRecs : \E recs \in [1..n -> Everybody] : todo' = recs
          /\ Goto("spawn3")
       \/ /\ Goto("done")
          /\ UNCHANGED todo
    /\ UNCHANGED <<score, worker, said, heard, session, cancelled, assigned, agentSt, findings>>

\* The recommended agents that are in the pool: named more than once, an agent
\* runs more than once.
EndPhase2 ==
    /\ pc = "end2"
    /\ \/ /\ ~cancelled /\ said
          /\ \E n \in 1..MaxRecs : \E recs \in [1..n -> Pool] : todo' = recs
          /\ Goto("spawn3")
       \/ /\ Goto("done")
          /\ UNCHANGED todo
    /\ UNCHANGED <<score, worker, said, heard, session, cancelled, assigned, agentSt, findings>>

\* addAgentAssignment, and the goroutine.
Spawn3 ==
    /\ pc = "spawn3" /\ todo # <<>>
    /\ assigned' = IF session # "gone" THEN assigned \cup {Head(todo)} ELSE assigned
    /\ worker' = worker \cup {Started(Head(todo), Len(todo))}
    /\ todo' = Tail(todo)
    /\ UNCHANGED <<score, pc, said, heard, session, cancelled, agentSt, findings>>

\* Fault: the executor does not wait for the agents of phase 3.
EndPhase3Early ==
    /\ pc = "spawn3" /\ todo = <<>>
    /\ IF cancelled
       THEN Goto("done") /\ UNCHANGED agentSt
       ELSE Goto("reason4") /\ SetStatus(Reasoner, "running")
    /\ UNCHANGED <<score, todo, worker, said, heard, session, cancelled, assigned, findings>>

EndPhase3 ==
    /\ pc = "spawn3" /\ todo = <<>> /\ worker = {}
    /\ IF cancelled
       THEN Goto("done") /\ UNCHANGED agentSt
       ELSE Goto("reason4") /\ SetStatus(Reasoner, "running")
    /\ UNCHANGED <<score, todo, worker, said, heard, session, cancelled, assigned, findings>>

EndPhase4 ==
    /\ pc = "end4"
    /\ Goto("done")
    /\ UNCHANGED <<score, todo, worker, said, heard, session, cancelled, assigned, agentSt,
                   findings>>

-----------------------------------------------------------------------------
(* Meanwhile: CloseSession, an eviction by StartWarRoom, or the end of the   *)
(* context StartWarRoom was called with.                                     *)

CloseSession ==
    /\ session = "open"
    /\ session' = "closed" /\ cancelled' = TRUE
    /\ UNCHANGED <<score, pc, todo, worker, said, heard, assigned, agentSt, findings>>

Evict ==
    /\ session # "gone"
    /\ session' = "gone" /\ cancelled' = TRUE
    /\ UNCHANGED <<score, pc, todo, worker, said, heard, assigned, agentSt, findings>>

ParentDone ==
    /\ ~cancelled
    /\ cancelled' = TRUE
    /\ UNCHANGED <<score, pc, todo, worker, said, heard, session, assigned, agentSt, findings>>

-----------------------------------------------------------------------------
RunWorker(w)  == WorkerBegin(w) \/ WorkerReturn(w) \/ WorkerSubmit(w)
ExecuteStaged == \/ StartPhase1 \/ EndPhase1 \/ Reasoned \/ SubmitRootCause
                 \/ EndPhase2 \/ Spawn3 \/ EndPhase3 \/ EndPhase4

Next == \/ ExecuteStaged
        \/ \E w \in worker : RunWorker(w)
        \/ CloseSession \/ Evict \/ ParentDone

Spec == Init /\ [][Next]_vars

\* RunAgent returns (five model calls, each with a timeout), and goroutines
\* that can run do.
FairSpec == Spec /\ WF_vars(ExecuteStaged) /\ WF_vars(\E w \in worker : RunWorker(w))

-----------------------------------------------------------------------------
(* Properties.                                                               *)

PCs == {"plan", "wait1", "reason2", "submit2", "end2", "spawn3", "reason4", "submit4",
        "end4", "done"}
Findings == [phase : 1..4, by : Everybody, k : Nat]
Workers  == [a : Agent, k : Nat, pc : {"start", "run", "submit"}]

\* Every variable has its type: in particular whatever the reasoner recommends,
\* only domain agents are started.
TypeOK ==
    /\ score \in [Agent -> 0..2]
    /\ pc \in PCs /\ todo \in Seq(Agent) /\ worker \in SUBSET Workers
    /\ said \in BOOLEAN /\ heard \in SUBSET Findings
    /\ session \in {"open", "closed", "gone"} /\ cancelled \in BOOLEAN
    /\ assigned \in SUBSET Everybody
    /\ agentSt \in [Everybody -> {"spawning", "running", "complete", "failed"}]
    /\ findings \in SUBSET Findings

\* Who is running RunAgent.
Running == {w.a : w \in {v \in worker : v.pc = "run"}} \cup
           (IF pc \in {"reason2", "reason4"} THEN {Reasoner} ELSE {})

\* An agent that is shown as running is running, however the agents' failures,
\* the end of the session and repeated recommendations interleave: nobody is
\* left "running" when the execution is over.
NoGhost == session # "gone" =>
    \A a \in assigned : agentSt[a] = "running" => a \in Running

\* From the reasoner's first turn on, the findings it was told about are the
\* phase 1 findings on record, unless the session was evicted.
AllHeard == pc \notin {"plan", "wait1"} /\ session # "gone" =>
    heard = {f \in findings : f.phase = 1}

\* The inductive strengthening of NoGhost, AllHeard and the phases: goroutines
\* are under way only while the executor waits; an agent the session does not
\* have has no status; during phase 1 the findings still to be submitted make
\* up the difference between what was heard and what is on record.
WorkersWait == worker # {} => pc \in {"wait1", "spawn3"}
Newcomers   == \A a \in Everybody \ assigned : agentSt[a] = "spawning"
InFlight    == {Finding(1, w.a, w.k) : w \in {v \in worker : v.pc = "submit"}}
OnRecord    == {f \in findings : f.phase = 1}
HeardSoFar  == session # "gone" =>
    heard = OnRecord \cup (IF pc \in {"plan", "wait1"} THEN InFlight ELSE {})
ExecutorInv == WorkersWait /\ Newcomers /\ NoGhost /\ HeardSoFar

PhaseOf(p) == CASE p = "plan" -> 0
                [] p = "wait1" -> 1
                [] p \in {"reason2", "submit2", "end2"} -> 2
                [] p = "spawn3" -> 3
                [] p \in {"reason4", "submit4", "end4"} -> 4
                [] OTHER -> 5
Busy == {w.a : w \in worker} \cup
        (IF pc \in {"reason2", "submit2", "reason4", "submit4"} THEN {Reasoner} ELSE {})
Phases == INSTANCE Investigation WITH phase <- PhaseOf(pc), busy <- Busy

\* The goroutines, wait groups and checks of the context implement the phases.
KeepsPhases == Phases!Spec

\* Whatever the agents answer, and whenever the session ends, the execution
\* ends.
Ends == <>(pc = "done")
=============================================================================
