------------------------- MODULE StagedExecutorProofs -------------------------
(* For any set of agents, any scores and any recommendations: nobody is left *)
(* shown as running, the reasoner hears what is on record, and the           *)
(* goroutines, wait groups and checks of the context implement Investigation.*)
EXTENDS StagedExecutor, SequenceTheorems, FiniteSetTheorems, TLAPS

\* Agents SelectAgents chooses are domain agents.
LEMMA ChosenAreAgents == Phase1 \subseteq Agent
BY ExecutorAssumption DEF Phase1, First, Strong, Default

LEMMA StartPhase1Step ==
    ASSUME TypeOK, ExecutorInv, StartPhase1
    PROVE  TypeOK' /\ ExecutorInv'
<1> USE DEF ExecutorInv, StartPhase1, Goto, Started
<1>1. TypeOK'
  BY ChosenAreAgents DEF TypeOK, PCs, Workers
<1>2. WorkersWait' /\ Newcomers'
  BY DEF WorkersWait, Newcomers
<1>3. NoGhost'
  BY DEF NoGhost, Running, WorkersWait
<1>4. HeardSoFar'
  BY DEF HeardSoFar, OnRecord, InFlight, WorkersWait
<1>5. QED BY <1>1, <1>2, <1>3, <1>4

\* The other steps of the executor that start or end no goroutine.
LEMMA TurnStep ==
    ASSUME TypeOK, ExecutorInv,
           EndPhase1 \/ Reasoned \/ SubmitRootCause \/ EndPhase3 \/ EndPhase4
    PROVE  TypeOK' /\ ExecutorInv'
<1> USE ExecutorAssumption DEF ExecutorInv, Goto, SetStatus, Everybody
<1>1. CASE EndPhase1 \/ EndPhase3
  <2> USE <1>1 DEF EndPhase1, EndPhase3
  <2>1. TypeOK'
    BY DEF TypeOK, PCs
  <2>2. WorkersWait' /\ Newcomers'
    BY DEF TypeOK, WorkersWait, Newcomers
  <2>3. NoGhost'
    BY DEF TypeOK, NoGhost, Running
  <2>4. HeardSoFar'
    BY DEF HeardSoFar, OnRecord, InFlight
  <2>5. QED BY <2>1, <2>2, <2>3, <2>4
<1>2. CASE Reasoned
  <2> USE <1>2 DEF Reasoned
  <2>1. TypeOK'
    BY DEF TypeOK, PCs
  <2>2. WorkersWait' /\ Newcomers'
    BY DEF TypeOK, WorkersWait, Newcomers
  <2>3. NoGhost'
    BY DEF TypeOK, NoGhost, Running
  <2>4. HeardSoFar'
    BY DEF HeardSoFar, OnRecord, InFlight
  <2>5. QED BY <2>1, <2>2, <2>3, <2>4
<1>3. CASE SubmitRootCause
  <2> USE <1>3 DEF SubmitRootCause, Submit, Finding
  <2>1. TypeOK'
    BY DEF TypeOK, PCs, Findings
  <2>2. WorkersWait' /\ Newcomers'
    BY DEF WorkersWait, Newcomers
  <2>3. NoGhost'
    BY DEF TypeOK, NoGhost, Running
  <2>4. HeardSoFar'
    BY DEF HeardSoFar, OnRecord, InFlight
  <2>5. QED BY <2>1, <2>2, <2>3, <2>4
<1>4. CASE EndPhase4
  BY <1>4 DEF EndPhase4, TypeOK, PCs, WorkersWait, Newcomers, NoGhost, Running,
              HeardSoFar, OnRecord, InFlight
<1>5. QED BY <1>1, <1>2, <1>3, <1>4

LEMMA EndPhase2Step ==
    ASSUME TypeOK, ExecutorInv, EndPhase2
    PROVE  TypeOK' /\ ExecutorInv'
<1> USE DEF ExecutorInv, EndPhase2, Goto
<1>1. todo' \in Seq(Agent)
  <2>1. CASE todo' = todo
    BY <2>1 DEF TypeOK
  <2>2. CASE \E n \in 1..MaxRecs : \E recs \in [1..n -> Pool] : todo' = recs
    <3>1. PICK n \in 1..MaxRecs : todo' \in [1..n -> Pool]
      BY <2>2
    <3>2. n \in Nat /\ todo' \in [1..n -> Agent]
      BY <3>1, ExecutorAssumption DEF Pool
    <3>3. QED BY <3>2, SeqDef
  <2>3. QED BY <2>1, <2>2
<1>2. TypeOK'
  BY <1>1 DEF TypeOK, PCs
<1>3. WorkersWait' /\ Newcomers' /\ NoGhost'
  BY DEF WorkersWait, Newcomers, NoGhost, Running
<1>4. HeardSoFar'
  BY DEF HeardSoFar, OnRecord, InFlight
<1>5. QED BY <1>2, <1>3, <1>4

LEMMA Spawn3Step ==
    ASSUME TypeOK, ExecutorInv, Spawn3
    PROVE  TypeOK' /\ ExecutorInv'
<1> USE DEF ExecutorInv, Spawn3, Started
<1>1. Head(todo) \in Agent /\ Tail(todo) \in Seq(Agent) /\ Len(todo) \in Nat
  BY HeadTailProperties, LenProperties DEF TypeOK
<1>2. TypeOK'
  BY <1>1 DEF TypeOK, Workers, Everybody
<1>3. WorkersWait' /\ Newcomers'
  BY DEF WorkersWait, Newcomers
<1>4. NoGhost'
  BY <1>1 DEF TypeOK, NoGhost, Running, Newcomers, Everybody
<1>5. HeardSoFar'
  BY DEF HeardSoFar, OnRecord, InFlight
<1>6. QED BY <1>2, <1>3, <1>4, <1>5

LEMMA WorkerBeginStep ==
    ASSUME TypeOK, ExecutorInv, NEW w \in worker, WorkerBegin(w)
    PROVE  TypeOK' /\ ExecutorInv'
<1> USE DEF ExecutorInv, WorkerBegin, SetStatus
<1>1. TypeOK'
  BY DEF TypeOK, Workers, Everybody
<1>2. WorkersWait' /\ Newcomers'
  BY DEF TypeOK, WorkersWait, Newcomers
<1>3. NoGhost'
  <2>1. [w EXCEPT !.pc = "run"] \in {v \in worker' : v.pc = "run"}
        /\ [w EXCEPT !.pc = "run"].a = w.a /\ w.pc = "start"
    BY DEF TypeOK, Workers
  <2>2. w.a \in Running' /\ Running \subseteq Running'
    BY <2>1 DEF Running
  <2>3. QED BY <2>2 DEF NoGhost, TypeOK
<1>4. HeardSoFar'
  <2>1. InFlight' = InFlight
    BY DEF InFlight, TypeOK, Workers
  <2>2. QED BY <2>1 DEF HeardSoFar, OnRecord
<1>5. QED BY <1>1, <1>2, <1>3, <1>4

LEMMA WorkerReturnStep ==
    ASSUME TypeOK, ExecutorInv, NEW w \in worker, WorkerReturn(w)
    PROVE  TypeOK' /\ ExecutorInv'
<1> USE DEF ExecutorInv
<1>0. pc \in {"wait1", "spawn3"} /\ w \in Workers /\ w.pc = "run"
  BY DEF WorkersWait, TypeOK, WorkerReturn
<1>1. TypeOK'
  BY <1>0 DEF WorkerReturn, SetStatus, TypeOK, Workers, Everybody, Findings, Finding
<1>2. WorkersWait' /\ Newcomers'
  BY <1>0 DEF WorkerReturn, SetStatus, TypeOK, WorkersWait, Newcomers
<1>3. NoGhost'
  BY <1>0 DEF WorkerReturn, SetStatus, TypeOK, Workers, NoGhost, Running, Everybody
<1>4. HeardSoFar'
  <2>1. PICK result \in {"error", "empty", "text"} :
           /\ worker' = (worker \ {w}) \cup
                        (IF result = "text" THEN {[w EXCEPT !.pc = "submit"]} ELSE {})
           /\ heard' = IF result = "text" /\ PhaseNow = 1
                       THEN heard \cup {Finding(1, w.a, w.k)} ELSE heard
    BY DEF WorkerReturn
  <2>2. InFlight' = IF result = "text" THEN InFlight \cup {Finding(1, w.a, w.k)}
                                       ELSE InFlight
    <3>1. CASE result = "text"
      <4>1. {v \in worker' : v.pc = "submit"}
              = {v \in worker : v.pc = "submit"} \cup {[w EXCEPT !.pc = "submit"]}
        BY <1>0, <2>1, <3>1 DEF Workers
      <4>2. [w EXCEPT !.pc = "submit"].a = w.a /\ [w EXCEPT !.pc = "submit"].k = w.k
        BY <1>0 DEF Workers
      <4>3. QED BY <3>1, <4>1, <4>2 DEF InFlight
    <3>2. CASE result # "text"
      <4>1. {v \in worker' : v.pc = "submit"} = {v \in worker : v.pc = "submit"}
        BY <1>0, <2>1, <3>2
      <4>2. QED BY <3>2, <4>1 DEF InFlight
    <3>3. QED BY <3>1, <3>2
  <2>3. UNCHANGED <<pc, session, findings>>
    BY DEF WorkerReturn
  <2>4. QED BY <1>0, <2>1, <2>2, <2>3 DEF HeardSoFar, OnRecord, PhaseNow
<1>5. QED BY <1>1, <1>2, <1>3, <1>4

LEMMA WorkerSubmitStep ==
    ASSUME TypeOK, ExecutorInv, NEW w \in worker, WorkerSubmit(w)
    PROVE  TypeOK' /\ ExecutorInv'
<1> USE DEF ExecutorInv, WorkerSubmit, Submit
<1>0. pc \in {"wait1", "spawn3"} /\ w \in Workers /\ w.pc = "submit"
  BY DEF WorkersWait, TypeOK
<1>1. TypeOK'
  BY <1>0 DEF TypeOK, Workers, Everybody, Findings, Finding, PhaseNow
<1>2. WorkersWait' /\ Newcomers'
  BY DEF WorkersWait, Newcomers
<1>3. NoGhost'
  BY <1>0 DEF TypeOK, Workers, NoGhost, Running
<1>4. HeardSoFar'
  <2>1. CASE pc = "wait1"
    <3>1. InFlight \cup {Finding(1, w.a, w.k)} = InFlight' \cup {Finding(1, w.a, w.k)}
      BY <1>0 DEF InFlight
    <3>2. Finding(1, w.a, w.k) \in InFlight
      BY <1>0 DEF InFlight
    <3>3. Finding(1, w.a, w.k).phase = 1
      BY DEF Finding
    <3>4. session # "gone" => OnRecord' = OnRecord \cup {Finding(1, w.a, w.k)}
      BY <2>1, <3>3 DEF OnRecord, PhaseNow
    <3>5. QED BY <2>1, <3>1, <3>2, <3>4 DEF HeardSoFar
  <2>2. CASE pc = "spawn3"
    <3>1. OnRecord' = OnRecord
      BY <2>2 DEF OnRecord, PhaseNow, Finding
    <3>2. QED BY <2>2, <3>1 DEF HeardSoFar
  <2>3. QED BY <1>0, <2>1, <2>2
<1>5. QED BY <1>1, <1>2, <1>3, <1>4

LEMMA SessionStep ==
    ASSUME TypeOK, ExecutorInv, CloseSession \/ Evict \/ ParentDone \/ UNCHANGED vars
    PROVE  TypeOK' /\ ExecutorInv'
<1> USE DEF CloseSession, Evict, ParentDone, vars, ExecutorInv
<1>1. TypeOK'
  BY DEF TypeOK
<1>2. WorkersWait' /\ Newcomers'
  BY DEF WorkersWait, Newcomers
<1>3. NoGhost'
  BY DEF NoGhost, Running
<1>4. HeardSoFar'
  BY DEF HeardSoFar, OnRecord, InFlight
<1>5. QED BY <1>1, <1>2, <1>3, <1>4

LEMMA NextStep ==
    ASSUME TypeOK, ExecutorInv, [Next]_vars
    PROVE  TypeOK' /\ ExecutorInv'
<1>1. CASE ExecuteStaged
  BY <1>1, StartPhase1Step, TurnStep, EndPhase2Step, Spawn3Step DEF ExecuteStaged
<1>2. CASE \E w \in worker : RunWorker(w)
  BY <1>2, WorkerBeginStep, WorkerReturnStep, WorkerSubmitStep DEF RunWorker
<1>3. CASE CloseSession \/ Evict \/ ParentDone \/ UNCHANGED vars
  BY <1>3, SessionStep
<1>4. QED BY <1>1, <1>2, <1>3 DEF Next

\* The type invariant and the inductive invariant of the staged execution.
THEOREM ExecutorInvariant == Spec => [](TypeOK /\ ExecutorInv)
<1>1. Init => TypeOK /\ ExecutorInv
  <2> SUFFICES ASSUME Init PROVE TypeOK /\ ExecutorInv
    OBVIOUS
  <2> USE ExecutorAssumption DEF Init, Everybody
  <2>1. TypeOK
    <3>1. todo \in Seq(Agent) /\ worker \in SUBSET Workers /\ heard \in SUBSET Findings
          /\ findings \in SUBSET Findings
      OBVIOUS
    <3>2. /\ score \in [Agent -> 0..2] /\ assigned \in SUBSET Everybody
          /\ agentSt \in [Everybody -> {"spawning", "running", "complete", "failed"}]
      BY DEF Everybody
    <3>3. QED BY <3>1, <3>2 DEF TypeOK, PCs
  <2>2. WorkersWait /\ Newcomers
    BY DEF WorkersWait, Newcomers
  <2>3. NoGhost
    BY DEF NoGhost
  <2>4. HeardSoFar
    BY DEF HeardSoFar, OnRecord, InFlight
  <2>5. QED BY <2>1, <2>2, <2>3, <2>4 DEF ExecutorInv
<1>2. TypeOK /\ ExecutorInv /\ [Next]_vars => (TypeOK /\ ExecutorInv)'
  BY NextStep
<1>3. QED BY <1>1, <1>2, PTL DEF Spec

\* Nobody is shown as running who is not.
THEOREM NobodyHaunts == Spec => []NoGhost
<1>1. TypeOK /\ ExecutorInv => NoGhost
  BY DEF ExecutorInv
<1>2. QED BY <1>1, ExecutorInvariant, PTL

\* What the reasoner was told is what is on record.
THEOREM ReasonerHearsAll == Spec => []AllHeard
<1>1. TypeOK /\ ExecutorInv => AllHeard
  BY DEF ExecutorInv, HeardSoFar, OnRecord, AllHeard
<1>2. QED BY <1>1, ExecutorInvariant, PTL

-----------------------------------------------------------------------------
(* The refinement.                                                           *)

LEMMA WorkerRefines ==
    ASSUME TypeOK, ExecutorInv, NEW w \in worker, RunWorker(w)
    PROVE  [Phases!Next]_(Phases!vars)
<1>1. /\ w \in Workers /\ w.a \in Busy /\ w.a \in Agent
      /\ pc \in {"wait1", "spawn3"} /\ pc' = pc
  BY DEF TypeOK, Workers, Busy, RunWorker, WorkerBegin, WorkerReturn, WorkerSubmit,
         ExecutorInv, WorkersWait
<1>2. \/ worker' = (worker \ {w}) \cup {[w EXCEPT !.pc = "run"]}
      \/ worker' = (worker \ {w}) \cup {[w EXCEPT !.pc = "submit"]}
      \/ worker' = worker \ {w}
  BY DEF RunWorker, WorkerBegin, WorkerReturn, WorkerSubmit
<1>3. Busy' = Busy \/ Busy' = Busy \ {w.a}
  <2>1. CASE worker' = worker \ {w}
    BY <1>1, <2>1 DEF Busy
  <2>2. ASSUME NEW p \in {"run", "submit"},
               worker' = (worker \ {w}) \cup {[w EXCEPT !.pc = p]}
        PROVE  Busy' = Busy
    <3>1. [w EXCEPT !.pc = p].a = w.a
      BY <1>1 DEF Workers
    <3>2. QED BY <1>1, <2>2, <3>1 DEF Busy
  <2>3. QED BY <1>2, <2>1, <2>2
<1>4. CASE Busy' = Busy
  BY <1>1, <1>4 DEF Phases!vars
<1>5. CASE Busy' = Busy \ {w.a}
  BY <1>1, <1>5 DEF Phases!Next, Phases!Report
<1>6. QED BY <1>3, <1>4, <1>5

LEMMA ExecutorRefines ==
    ASSUME TypeOK, ExecutorInv, ExecuteStaged
    PROVE  [Phases!Next]_(Phases!vars)
<1> USE DEF ExecutorInv, WorkersWait, Goto
<1>1. CASE StartPhase1
  <2>1. Busy = {} /\ Busy' \subseteq Agent
    BY <1>1, ChosenAreAgents DEF StartPhase1, Busy, Started
  <2>2. Phases!Advance
    BY <1>1, <2>1 DEF StartPhase1, Phases!Advance, Phases!Members, PhaseOf
  <2>3. QED BY <2>2 DEF Phases!Next
<1>2. CASE EndPhase1 \/ EndPhase3
  <2>1. Busy = {} /\ pc \in {"wait1", "spawn3"}
    BY <1>2 DEF EndPhase1, EndPhase3, Busy
  <2>2. CASE pc' = "done"
    <3>1. Busy' = {}
      BY <1>2, <2>2 DEF EndPhase1, EndPhase3, Busy
    <3>2. Phases!End
      BY <2>1, <2>2, <3>1 DEF Phases!End, PhaseOf
    <3>3. QED BY <3>2 DEF Phases!Next
  <2>3. CASE pc' # "done"
    <3>1. /\ Busy' = {Reasoner}
          /\ \/ pc = "wait1" /\ pc' = "reason2"
             \/ pc = "spawn3" /\ pc' = "reason4"
      BY <1>2, <2>3 DEF EndPhase1, EndPhase3, Busy
    <3>2. Phases!Advance
      BY <2>1, <3>1 DEF Phases!Advance, Phases!Members, PhaseOf
    <3>3. QED BY <3>2 DEF Phases!Next
  <2>4. QED BY <2>2, <2>3
<1>3. CASE Reasoned
  <2>1. /\ worker = {} /\ worker' = {} /\ pc \in {"reason2", "reason4"}
        /\ Busy = {Reasoner} /\ PhaseOf(pc') = PhaseOf(pc)
        /\ Busy' = {Reasoner} \/ Busy' = {}
    BY <1>3 DEF Reasoned, Busy, PhaseOf
  <2>2. CASE Busy' = {Reasoner}
    BY <2>1, <2>2 DEF Phases!vars
  <2>3. CASE Busy' = {}
    BY <2>1, <2>3 DEF Phases!Next, Phases!Report
  <2>4. QED BY <2>1, <2>2, <2>3
<1>4. CASE SubmitRootCause
  <2>1. Busy = {Reasoner} /\ Busy' = {} /\ PhaseOf(pc') = PhaseOf(pc)
    BY <1>4 DEF SubmitRootCause, Busy, PhaseOf
  <2>2. QED BY <2>1 DEF Phases!Next, Phases!Report
<1>5. CASE EndPhase2
  <2>1. Busy = {} /\ Busy' = {} /\ pc = "end2" /\ pc' \in {"spawn3", "done"}
    BY <1>5 DEF EndPhase2, Busy
  <2>2. Phases!Advance \/ Phases!End
    BY <2>1 DEF Phases!Advance, Phases!End, Phases!Members, PhaseOf
  <2>3. QED BY <2>2 DEF Phases!Next
<1>6. CASE Spawn3
  <2>1. Head(todo) \in Agent
    BY <1>6, HeadTailProperties DEF Spawn3, TypeOK
  <2>2. Busy' = Busy \cup {Head(todo)} /\ pc = "spawn3" /\ pc' = pc
    <3>1. /\ pc = "spawn3" /\ pc' = pc
          /\ worker' = worker \cup {Started(Head(todo), Len(todo))}
      BY <1>6 DEF Spawn3
    <3>2. Started(Head(todo), Len(todo)).a = Head(todo)
      BY DEF Started
    <3>3. QED BY <3>1, <3>2 DEF Busy
  <2>3. Phases!Join(Head(todo))
    BY <2>1, <2>2 DEF Phases!Join, Phases!Members, PhaseOf
  <2>4. QED BY <2>1, <2>3 DEF Phases!Next
<1>7. CASE EndPhase4
  <2>1. Busy = {} /\ Busy' = {} /\ pc = "end4" /\ pc' = "done"
    BY <1>7 DEF EndPhase4, Busy
  <2>2. Phases!End
    BY <2>1 DEF Phases!End, PhaseOf
  <2>3. QED BY <2>2 DEF Phases!Next
<1>8. QED BY <1>1, <1>2, <1>3, <1>4, <1>5, <1>6, <1>7 DEF ExecuteStaged

LEMMA StepRefines ==
    ASSUME TypeOK, ExecutorInv, [Next]_vars
    PROVE  [Phases!Next]_(Phases!vars)
<1>1. CASE ExecuteStaged
  BY <1>1, ExecutorRefines
<1>2. CASE \E w \in worker : RunWorker(w)
  BY <1>2, WorkerRefines
<1>3. CASE CloseSession \/ Evict \/ ParentDone \/ UNCHANGED vars
  BY <1>3 DEF CloseSession, Evict, ParentDone, vars, Phases!vars, Busy
<1>4. QED BY <1>1, <1>2, <1>3 DEF Next

\* The staged execution keeps to its phases: agents of one phase are at work
\* only when those of the phase before have reported or failed.
THEOREM PhasesRefined == Spec => KeepsPhases
<1>1. Init => Phases!Init
  BY DEF Init, Phases!Init, PhaseOf, Busy
<1>2. TypeOK /\ ExecutorInv /\ [Next]_vars => [Phases!Next]_(Phases!vars)
  BY StepRefines
<1>3. QED BY <1>1, <1>2, ExecutorInvariant, PTL DEF Spec, KeepsPhases, Phases!Spec

-----------------------------------------------------------------------------
(* SelectAgents keeps its cap.                                               *)

\* Every agent of First(n, S) has a place of its own below n: the number of
\* agents of S before it.
LEMMA FirstBounded ==
    ASSUME NEW S \in SUBSET Agent, NEW n \in Nat
    PROVE  IsFiniteSet(First(n, S)) /\ Cardinality(First(n, S)) <= n
<1> DEFINE before(a) == {b \in S : Rank[b] < Rank[a]}
           place == [a \in First(n, S) |-> Cardinality(before(a)) + 1]
<1>1. ASSUME NEW a \in Agent
      PROVE  IsFiniteSet(before(a)) /\ Cardinality(before(a)) \in Nat
  BY ExecutorAssumption, FS_Subset, FS_CardinalityType
<1>2. First(n, S) \subseteq Agent /\ \A a \in First(n, S) : a \in S /\ Cardinality(before(a)) < n
  BY DEF First
<1>3. place \in [First(n, S) -> 1..n]
  BY <1>1, <1>2
<1>4. ASSUME NEW a \in First(n, S), NEW b \in First(n, S), Rank[a] < Rank[b]
      PROVE  Cardinality(before(a)) < Cardinality(before(b))
  <2>1. a \in S /\ \A c \in S : Rank[c] \in Nat
    BY <1>2, ExecutorAssumption
  <2>2. before(a) \subseteq before(b)
    <3>1. ASSUME NEW c \in S, Rank[c] < Rank[a] PROVE Rank[c] < Rank[b]
      <4>1. Rank[a] \in Nat /\ Rank[b] \in Nat /\ Rank[c] \in Nat
        BY <1>2, <2>1
      <4>2. QED BY <1>4, <3>1, <4>1
    <3>2. QED BY <3>1
  <2>3. a \in before(b) /\ a \notin before(a)
    BY <1>2, <1>4, <2>1
  <2>4. /\ IsFiniteSet(before(a)) /\ Cardinality(before(a)) \in Nat
        /\ IsFiniteSet(before(b)) /\ Cardinality(before(b)) \in Nat
    BY <1>1, <1>2
  <2> HIDE DEF before
  <2>5. Cardinality(before(a)) <= Cardinality(before(b))
    BY <2>2, <2>4, FS_Subset
  <2>6. Cardinality(before(b)) # Cardinality(before(a))
    BY <2>2, <2>3, <2>4, FS_Subset
  <2>7. QED BY <2>4, <2>5, <2>6
<1>5. ASSUME NEW a \in First(n, S), NEW b \in First(n, S), a # b
      PROVE  place[a] # place[b]
  <2>1. Rank[a] \in Nat /\ Rank[b] \in Nat /\ Rank[a] # Rank[b]
    BY <1>2, <1>5, ExecutorAssumption
  <2>2. Rank[a] < Rank[b] \/ Rank[b] < Rank[a]
    BY <2>1
  <2>3. Cardinality(before(a)) \in Nat /\ Cardinality(before(b)) \in Nat
    BY <1>1, <1>2
  <2>4. Cardinality(before(a)) # Cardinality(before(b))
    <3> HIDE DEF before, place
    <3>1. QED BY <1>4, <2>2, <2>3
  <2>5. place[a] = Cardinality(before(a)) + 1 /\ place[b] = Cardinality(before(b)) + 1
    OBVIOUS
  <2> HIDE DEF before, place
  <2>6. QED BY <2>3, <2>4, <2>5
<1>6. IsFiniteSet(1..n) /\ Cardinality(1..n) = n
  BY FS_Interval
<1>7. IsFiniteSet(First(n, S)) /\ Cardinality(First(n, S)) \in Nat
  BY <1>2, ExecutorAssumption, FS_Subset, FS_CardinalityType
<1> HIDE DEF place
<1>8. ~(n < Cardinality(First(n, S)))
  BY <1>3, <1>5, <1>6, <1>7, FS_PigeonHole
<1>9. QED BY <1>7, <1>8

\* Phase 1 starts at most Cap agents, whatever the description says.
LEMMA PhaseOneCapped == TypeOK => IsFiniteSet(Phase1) /\ Cardinality(Phase1) <= Cap
<1>1. Strong \in SUBSET Agent /\ Default \in SUBSET Agent /\ Cap \in Nat
  BY ExecutorAssumption DEF Strong, Default
<1>2. CASE Strong = {}
  BY <1>1, <1>2, FirstBounded DEF Phase1
<1>3. CASE Strong # {}
  BY <1>1, <1>3, FirstBounded DEF Phase1
<1>4. QED BY <1>2, <1>3

-----------------------------------------------------------------------------
(* The execution is finite: StepsLeft bounds the steps that the executor and *)
(* its goroutines still take.  A goroutine takes at most three; phase 3 has  *)
(* at most MaxRecs of them, phase 1 at most Cap.                             *)

Begun      == {w \in worker : w.pc = "start"}
Unreturned == {w \in worker : w.pc \in {"start", "run"}}
TurnsLeft  ==
    CASE pc = "done"    -> 0
      [] pc = "end4"    -> 1
      [] pc = "submit4" -> 2
      [] pc = "reason4" -> 3
      [] pc = "spawn3"  -> 4
      [] pc = "end2"    -> 5 + 4 * MaxRecs
      [] pc = "submit2" -> 6 + 4 * MaxRecs
      [] pc = "reason2" -> 7 + 4 * MaxRecs
      [] pc = "wait1"   -> 8 + 4 * MaxRecs
      [] OTHER          -> 9 + 4 * MaxRecs + 3 * Cap
StepsLeft == TurnsLeft + 4 * Len(todo)
             + Cardinality(worker) + Cardinality(Unreturned) + Cardinality(Begun)

Working == ExecuteStaged \/ \E w \in worker : RunWorker(w)
Shrinks == [][/\ Working => StepsLeft' < StepsLeft
              /\ ~Working => StepsLeft' = StepsLeft]_vars

Reckoned == TypeOK /\ IsFiniteSet(worker)
Counted  == /\ TurnsLeft \in Nat /\ Len(todo) \in Nat /\ Cardinality(worker) \in Nat
            /\ Cardinality(Unreturned) \in Nat /\ Cardinality(Begun) \in Nat

LEMMA OneMore ==
    ASSUME NEW S, NEW x, IsFiniteSet(S)
    PROVE  /\ IsFiniteSet(S \cup {x}) /\ Cardinality(S \cup {x}) \in Nat
           /\ Cardinality(S \cup {x}) <= Cardinality(S) + 1
<1>1. Cardinality(S) \in Nat
  BY FS_CardinalityType
<1>2. /\ IsFiniteSet(S \cup {x})
      /\ Cardinality(S \cup {x}) = IF x \in S THEN Cardinality(S) ELSE Cardinality(S) + 1
  BY FS_AddElement
<1> DEFINE n == Cardinality(S)
           m == Cardinality(S \cup {x})
<1>3. m \in Nat
  BY <1>2, FS_CardinalityType
<1>4. m <= n + 1
  BY <1>1, <1>2
<1>5. QED BY <1>2, <1>3, <1>4

LEMMA OneLess ==
    ASSUME NEW S, NEW x \in S, IsFiniteSet(S)
    PROVE  /\ IsFiniteSet(S \ {x}) /\ Cardinality(S \ {x}) \in Nat
           /\ Cardinality(S \ {x}) = Cardinality(S) - 1
BY FS_RemoveElement, FS_CardinalityType

\* An element is replaced by another, which may be there already.
LEMMA OneExchanged ==
    ASSUME NEW S, NEW x \in S, NEW y, IsFiniteSet(S)
    PROVE  /\ IsFiniteSet((S \ {x}) \cup {y}) /\ Cardinality((S \ {x}) \cup {y}) \in Nat
           /\ Cardinality((S \ {x}) \cup {y}) <= Cardinality(S)
<1>1. /\ IsFiniteSet(S \ {x}) /\ Cardinality(S \ {x}) \in Nat
      /\ Cardinality(S \ {x}) = Cardinality(S) - 1
  BY OneLess
<1>2. Cardinality(S) \in Nat
  BY FS_CardinalityType
<1> DEFINE T == S \ {x}
<1>3. IsFiniteSet(T)
  BY <1>1
<1>4. /\ IsFiniteSet(T \cup {y}) /\ Cardinality(T \cup {y}) \in Nat
      /\ Cardinality(T \cup {y}) <= Cardinality(T) + 1
  <2> HIDE DEF T
  <2>1. QED BY <1>3, OneMore
<1>5. QED BY <1>1, <1>2, <1>4

LEMMA WorkersCounted ==
    IsFiniteSet(worker) =>
           /\ IsFiniteSet(Begun) /\ IsFiniteSet(Unreturned)
           /\ Cardinality(worker) \in Nat /\ Cardinality(Begun) \in Nat
           /\ Cardinality(Unreturned) \in Nat
           /\ Cardinality(Begun) <= Cardinality(worker)
           /\ Cardinality(Unreturned) <= Cardinality(worker)
<1>1. Begun \subseteq worker /\ Unreturned \subseteq worker
  BY DEF Begun, Unreturned
<1>2. QED BY <1>1, FS_Subset, FS_CardinalityType

LEMMA TurnsType == TypeOK => TurnsLeft \in Nat /\ Len(todo) \in Nat
<1> SUFFICES ASSUME TypeOK PROVE TurnsLeft \in Nat /\ Len(todo) \in Nat
  OBVIOUS
<1>1. Len(todo) \in Nat
  BY LenProperties DEF TypeOK
<1>2. 4 * MaxRecs \in Nat /\ 3 * Cap \in Nat
  BY ExecutorAssumption
<1>3. TurnsLeft \in Nat
  BY <1>2 DEF TurnsLeft
<1>4. QED BY <1>1, <1>3

\* Each step of a goroutine is one less.
LEMMA WorkerShrinks ==
    ASSUME TypeOK, TypeOK', IsFiniteSet(worker), NEW w \in worker, RunWorker(w)
    PROVE  IsFiniteSet(worker') /\ StepsLeft' < StepsLeft
<1>1. TurnsLeft' = TurnsLeft /\ todo' = todo
  BY DEF RunWorker, WorkerBegin, WorkerReturn, WorkerSubmit, TurnsLeft
<1>2. TurnsLeft \in Nat /\ Len(todo) \in Nat
  BY TurnsType
<1>3. w \in Workers
  BY DEF TypeOK
<1>4. /\ IsFiniteSet(Begun) /\ IsFiniteSet(Unreturned)
      /\ Cardinality(worker) \in Nat /\ Cardinality(Begun) \in Nat
      /\ Cardinality(Unreturned) \in Nat
  BY WorkersCounted
<1>5. CASE WorkerBegin(w)
  <2> DEFINE v == [w EXCEPT !.pc = "run"]
  <2>1. w.pc = "start" /\ v.pc = "run" /\ worker' = (worker \ {w}) \cup {v}
    BY <1>3, <1>5 DEF WorkerBegin, Workers
  <2>2. Begun' = Begun \ {w} /\ w \in Begun
    BY <2>1 DEF Begun
  <2>3. Unreturned' = (Unreturned \ {w}) \cup {v} /\ w \in Unreturned
    BY <2>1 DEF Unreturned
  <2> HIDE DEF v
  <2>4. /\ IsFiniteSet(worker') /\ Cardinality(worker') \in Nat
        /\ Cardinality(worker') <= Cardinality(worker)
    BY <2>1, OneExchanged
  <2>5. Cardinality(Unreturned') \in Nat /\ Cardinality(Unreturned') <= Cardinality(Unreturned)
    BY <1>4, <2>3, OneExchanged
  <2>6. Cardinality(Begun') \in Nat /\ Cardinality(Begun') = Cardinality(Begun) - 1
    BY <1>4, <2>2, OneLess
  <2>7. QED BY <1>1, <1>2, <1>4, <2>4, <2>5, <2>6 DEF StepsLeft
<1>6. CASE WorkerReturn(w)
  <2> DEFINE v == [w EXCEPT !.pc = "submit"]
  <2>1. /\ w.pc = "run" /\ v.pc = "submit"
        /\ worker' = (worker \ {w}) \cup {v} \/ worker' = worker \ {w}
    BY <1>3, <1>6 DEF WorkerReturn, Workers
  <2>2. Begun' = Begun
    BY <2>1 DEF Begun
  <2>3. Unreturned' = Unreturned \ {w} /\ w \in Unreturned
    BY <2>1 DEF Unreturned
  <2> HIDE DEF v
  <2>4. /\ IsFiniteSet(worker') /\ Cardinality(worker') \in Nat
        /\ Cardinality(worker') <= Cardinality(worker)
    <3>1. CASE worker' = (worker \ {w}) \cup {v}
      BY <3>1, OneExchanged
    <3>2. CASE worker' = worker \ {w}
      <4>1. /\ IsFiniteSet(worker \ {w}) /\ Cardinality(worker \ {w}) \in Nat
            /\ Cardinality(worker \ {w}) = Cardinality(worker) - 1
        BY OneLess
      <4>2. QED BY <1>4, <3>2, <4>1
    <3>3. QED BY <2>1, <3>1, <3>2
  <2>5. /\ Cardinality(Unreturned') \in Nat
        /\ Cardinality(Unreturned') = Cardinality(Unreturned) - 1
    BY <1>4, <2>3, OneLess
  <2>6. QED BY <1>1, <1>2, <1>4, <2>2, <2>4, <2>5 DEF StepsLeft
<1>7. CASE WorkerSubmit(w)
  <2>1. w.pc = "submit" /\ worker' = worker \ {w}
    BY <1>7 DEF WorkerSubmit
  <2>2. Begun' = Begun /\ Unreturned' = Unreturned
    BY <2>1 DEF Begun, Unreturned
  <2>3. /\ IsFiniteSet(worker') /\ Cardinality(worker') \in Nat
        /\ Cardinality(worker') = Cardinality(worker) - 1
    BY <2>1, OneLess
  <2>4. QED BY <1>1, <1>2, <1>4, <2>2, <2>3 DEF StepsLeft
<1>8. QED BY <1>5, <1>6, <1>7 DEF RunWorker

\* One agent fewer to start pays for a goroutine with its three steps.
LEMMA Descent ==
    ASSUME NEW t \in Nat, NEW l \in Nat, NEW x \in Nat, NEW y \in Nat, NEW z \in Nat,
           NEW m \in Nat, NEW i \in Nat, NEW j \in Nat, NEW k \in Nat,
           m = l - 1, i <= x + 1, j <= y + 1, k <= z + 1
    PROVE  t + 4 * m + i + j + k < t + 4 * l + x + y + z
OBVIOUS

LEMMA ExecutorShrinks ==
    ASSUME TypeOK, TypeOK', WorkersWait, IsFiniteSet(worker), ExecuteStaged
    PROVE  IsFiniteSet(worker') /\ StepsLeft' < StepsLeft
<1>1. /\ TurnsLeft \in Nat /\ Len(todo) \in Nat /\ MaxRecs \in Nat /\ Cap \in Nat
      /\ Cardinality(worker) \in Nat /\ Cardinality(Begun) \in Nat
      /\ Cardinality(Unreturned) \in Nat
  BY TurnsType, WorkersCounted, ExecutorAssumption
<1>2. CASE StartPhase1
  <2>1. /\ pc = "plan" /\ pc' = "wait1" /\ todo' = todo /\ worker = {}
        /\ worker' = {Started(a, 0) : a \in Phase1}
    BY <1>2 DEF StartPhase1, Goto, WorkersWait
  <2>2. IsFiniteSet(worker') /\ Cardinality(worker') \in Nat /\ Cardinality(worker') <= Cap
    <3>1. IsFiniteSet(Phase1) /\ Cardinality(Phase1) <= Cap /\ Cardinality(Phase1) \in Nat
      BY PhaseOneCapped, FS_CardinalityType
    <3> DEFINE first == [a \in Phase1 |-> Started(a, 0)]
    <3>2. first \in Surjection(Phase1, worker')
      BY <2>1 DEF Surjection
    <3> HIDE DEF first
    <3>3. IsFiniteSet(worker') /\ Cardinality(worker') <= Cardinality(Phase1)
      BY <3>1, <3>2, FS_Surjection
    <3>4. Cardinality(worker') \in Nat
      BY <3>3, FS_CardinalityType
    <3>5. QED BY <1>1, <3>1, <3>3, <3>4
  <2>3. /\ Cardinality(Begun') \in Nat /\ Cardinality(Unreturned') \in Nat
        /\ Cardinality(Begun') <= Cap /\ Cardinality(Unreturned') <= Cap
    <3>1. Begun' \subseteq worker' /\ Unreturned' \subseteq worker'
      BY DEF Begun, Unreturned
    <3>2. /\ Cardinality(Begun') \in Nat /\ Cardinality(Unreturned') \in Nat
          /\ Cardinality(Begun') <= Cardinality(worker')
          /\ Cardinality(Unreturned') <= Cardinality(worker')
      BY <2>2, <3>1, FS_Subset, FS_CardinalityType
    <3>3. QED BY <1>1, <2>2, <3>2
  <2>4. TurnsLeft' = 8 + 4 * MaxRecs /\ TurnsLeft = 9 + 4 * MaxRecs + 3 * Cap
    BY <2>1 DEF TurnsLeft
  <2>5. QED BY <1>1, <2>1, <2>2, <2>3, <2>4 DEF StepsLeft
<1>3. CASE EndPhase2
  <2>1. /\ pc = "end2" /\ worker' = worker
        /\ \/ pc' = "spawn3" /\ Len(todo') \in 1..MaxRecs
           \/ pc' = "done" /\ todo' = todo
    <3>1. ASSUME NEW n \in 1..MaxRecs, todo' \in [1..n -> Pool]
          PROVE  Len(todo') \in 1..MaxRecs
      <4>1. DOMAIN todo' = 1..n /\ todo' \in Seq(Agent) /\ n \in Nat
        BY <3>1, <1>1 DEF TypeOK
      <4>2. Len(todo') = n
        BY <4>1, LenProperties
      <4>3. QED BY <4>2
    <3>2. QED BY <1>3, <3>1 DEF EndPhase2, Goto
  <2>2. Begun' = Begun /\ Unreturned' = Unreturned
    BY <2>1 DEF Begun, Unreturned
  <2>3. TurnsLeft = 5 + 4 * MaxRecs /\ TurnsLeft' = IF pc' = "spawn3" THEN 4 ELSE 0
    BY <2>1 DEF TurnsLeft
  <2>4. QED BY <1>1, <2>1, <2>2, <2>3 DEF StepsLeft
<1>4. CASE Spawn3
  <2> DEFINE v == Started(Head(todo), Len(todo))
  <2>1. /\ pc = "spawn3" /\ pc' = pc /\ worker' = worker \cup {v}
        /\ todo # <<>> /\ todo' = Tail(todo)
    BY <1>4 DEF Spawn3
  <2>2. Len(todo') = Len(todo) - 1 /\ Len(todo') \in Nat
    BY <1>1, <2>1, HeadTailProperties, TurnsType DEF TypeOK
  <2>3. Begun' = Begun \cup {v} /\ Unreturned' = Unreturned \cup {v}
    BY <2>1 DEF Begun, Unreturned, Started
  <2>4. TurnsLeft' = TurnsLeft
    BY <2>1 DEF TurnsLeft
  <2> HIDE DEF v
  <2>5. /\ IsFiniteSet(worker') /\ Cardinality(worker') \in Nat
        /\ Cardinality(worker') <= Cardinality(worker) + 1
    BY <2>1, OneMore
  <2>6. IsFiniteSet(Begun) /\ IsFiniteSet(Unreturned)
    BY WorkersCounted
  <2>7. /\ Cardinality(Begun') \in Nat /\ Cardinality(Begun') <= Cardinality(Begun) + 1
        /\ Cardinality(Unreturned') \in Nat
        /\ Cardinality(Unreturned') <= Cardinality(Unreturned) + 1
    BY <2>3, <2>6, OneMore
  <2>8. QED BY <1>1, <2>2, <2>4, <2>5, <2>7, Descent DEF StepsLeft
<1>5. CASE EndPhase1 \/ Reasoned \/ SubmitRootCause \/ EndPhase3 \/ EndPhase4
  <2>1. worker' = worker /\ todo' = todo
    BY <1>5 DEF EndPhase1, Reasoned, SubmitRootCause, EndPhase3, EndPhase4
  <2>2. Begun' = Begun /\ Unreturned' = Unreturned
    BY <2>1 DEF Begun, Unreturned
  <2>3. TurnsLeft' < TurnsLeft /\ TurnsLeft' \in Nat
    <3>1. 4 * MaxRecs \in Nat
      BY <1>1
    <3>2. CASE EndPhase1
      <4>1. pc = "wait1" /\ pc' \in {"reason2", "done"}
        BY <3>2 DEF EndPhase1, Goto
      <4>2. QED BY <3>1, <4>1 DEF TurnsLeft
    <3>3. CASE EndPhase3 \/ EndPhase4
      <4>1. \/ pc = "spawn3" /\ pc' \in {"reason4", "done"}
            \/ pc = "end4" /\ pc' = "done"
        BY <3>3 DEF EndPhase3, EndPhase4, Goto
      <4>2. QED BY <4>1 DEF TurnsLeft
    <3>4. CASE Reasoned
      BY <3>1, <3>4 DEF Reasoned, Goto, TurnsLeft
    <3>5. CASE SubmitRootCause
      BY <3>1, <3>5 DEF SubmitRootCause, Goto, TurnsLeft
    <3>6. QED BY <1>5, <3>2, <3>3, <3>4, <3>5
  <2>4. QED BY <1>1, <2>1, <2>2, <2>3 DEF StepsLeft
<1>6. QED BY <1>2, <1>3, <1>4, <1>5 DEF ExecuteStaged

\* What ends a session under the execution leaves its steps alone.
LEMMA NextShrinks ==
    ASSUME TypeOK, TypeOK', WorkersWait, IsFiniteSet(worker), [Next]_vars
    PROVE  /\ IsFiniteSet(worker')
           /\ Working => StepsLeft' < StepsLeft
           /\ ~Working => StepsLeft' = StepsLeft
<1>1. CASE Working
  BY <1>1, WorkerShrinks, ExecutorShrinks DEF Working
<1>2. CASE ~Working
  <2>1. UNCHANGED <<pc, todo, worker>>
    BY <1>2 DEF Next, Working, CloseSession, Evict, ParentDone, vars
  <2>2. StepsLeft' = StepsLeft
    BY <2>1 DEF StepsLeft, TurnsLeft, Begun, Unreturned
  <2>3. QED BY <1>2, <2>1, <2>2
<1>3. QED BY <1>1, <1>2

\* Whatever the agents answer and whenever the session ends, an execution takes
\* at most 9 + 4 MaxRecs + 3 Cap steps: StepsLeft begins there, every step of the
\* executor and its goroutines makes it smaller, no other step changes it, and
\* it is a natural number.
THEOREM ExecutionFinite ==
    Spec => [](StepsLeft \in 0..(9 + 4 * MaxRecs + 3 * Cap)) /\ Shrinks
<1> DEFINE Limit == 9 + 4 * MaxRecs + 3 * Cap
           Inv == TypeOK /\ ExecutorInv
           Fin == IsFiniteSet(worker) /\ StepsLeft <= Limit
<1>1. Init => Fin
  <2>1. SUFFICES ASSUME Init PROVE Fin
    OBVIOUS
  <2>2. pc = "plan" /\ todo = <<>> /\ worker = {} /\ Begun = {} /\ Unreturned = {}
    BY <2>1 DEF Init, Begun, Unreturned
  <2>3. Cardinality({}) = 0 /\ IsFiniteSet({}) /\ Len(<<>>) = 0
    BY FS_EmptySet
  <2>4. TurnsLeft = Limit /\ Limit \in Nat
    BY <2>2, ExecutorAssumption DEF TurnsLeft
  <2> HIDE DEF Limit
  <2>5. QED BY <2>2, <2>3, <2>4 DEF StepsLeft
<1>2. Inv /\ Fin => StepsLeft \in Nat
  BY TurnsType, WorkersCounted DEF StepsLeft
<1>3. Reckoned => Counted
  BY TurnsType, WorkersCounted DEF Reckoned, Counted
<1>4. Reckoned' => Counted'
  BY <1>3, PTL
<1>5. Inv /\ Inv' /\ Fin /\ [Next]_vars =>
        Fin' /\ (Working => StepsLeft' < StepsLeft) /\ (~Working => StepsLeft' = StepsLeft)
  <2>1. SUFFICES ASSUME Inv, Inv', Fin, [Next]_vars
                 PROVE  /\ Fin'
                        /\ Working => StepsLeft' < StepsLeft
                        /\ ~Working => StepsLeft' = StepsLeft
    OBVIOUS
  <2>2. /\ IsFiniteSet(worker')
        /\ Working => StepsLeft' < StepsLeft
        /\ ~Working => StepsLeft' = StepsLeft
    BY <2>1, NextShrinks DEF ExecutorInv
  <2>3. Counted'
    BY <1>4, <2>1, <2>2 DEF Reckoned
  <2>4. StepsLeft \in Nat /\ StepsLeft' \in Nat /\ Limit \in Nat
    BY <1>2, <2>1, <2>3, ExecutorAssumption DEF StepsLeft, Counted
  <2> HIDE DEF Limit
  <2>5. QED BY <2>1, <2>2, <2>4
<1>6. Inv /\ Fin => StepsLeft \in 0..Limit
  <2>1. Limit \in Nat
    BY ExecutorAssumption
  <2> HIDE DEF Limit, Inv
  <2>2. QED BY <1>2, <2>1
<1>7. QED BY <1>1, <1>5, <1>6, ExecutorInvariant, PTL DEF Spec, Shrinks
=============================================================================
