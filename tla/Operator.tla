------------------------------- MODULE Operator -------------------------------
(* The operator mode: OperatorManager with its configurations, the scheduler  *)
(* loops Enable starts, and check cycles (RunCheckCycle, called by cron and   *)
(* by tools) that record results, escalate and act.  A cycle takes the lock   *)
(* anew for every step, so operators are disabled, replaced and evicted       *)
(* between its steps.                                                         *)
EXTENDS Integers, Sequences, FiniteSets, FiniteSetsExt

CONSTANTS
    Op,          \* configuration ids
    Level,       \* escalation levels
    Action,      \* actions of escalation levels
    ActionsOf,   \* the actions of a level
    PreApproved, \* notify and create_incident
    UsesConfig,  \* actions that look into the configuration (warroom, auto_remediate)
    Cycle,       \* goroutines in RunCheckCycle; bound: cycles at a time
    Loop,        \* goroutines of runSchedulerLoop, with the stop channel of each;
                 \* bound: loops at a time
    MaxConfigs,  \* maxConfigs
    MaxResults,  \* maxCheckResults
    Grant,       \* autonomy levels Enable is called with
    NoOp, NoLoop, NoAction

Autonomy == {"observe", "suggest", "auto", "full"}

ASSUME OperatorAssumption ==
    /\ Level \subseteq Nat /\ ActionsOf \in [Level -> SUBSET Action]
    /\ PreApproved \subseteq Action /\ UsesConfig \subseteq Action
    /\ IsFiniteSet(Cycle) /\ IsFiniteSet(Level) /\ Op # {} /\ Action # {}
    /\ {MaxConfigs, MaxResults} \subseteq Nat \ {0}
    /\ Grant \subseteq Autonomy
    /\ NoOp \notin Op /\ NoLoop \notin Loop /\ NoAction \notin Action

VARIABLES
    known,       \* m.configs (and m.statuses): the ids in it
    enabled,     \* config.Enabled
    autonomy,    \* config.AutonomyLevel
    results,     \* m.checkResults: the levels each result would trigger
    escalated,   \* m.escalationState
    active,      \* status.ActiveEscalations
    stop,        \* m.stopChans
    closed,      \* stop channels that have been closed
    watches,     \* the id a running scheduler loop watches
    pc, op,      \* a cycle: where it is, and its operator
    todo,        \* the actions it has yet to take
    doing,       \* the action it has been allowed
    panic,       \* a nil configuration was looked into
    overruled    \* history: actions taken that the present autonomy would not allow

confVars  == <<known, enabled, autonomy, results, escalated, active>>
loopVars  == <<stop, closed, watches>>
cycleVars == <<pc, op, todo, doing>>
vars      == <<confVars, loopVars, cycleVars, panic, overruled>>

Init ==
    /\ known = {}
    /\ enabled = [o \in Op |-> FALSE]
    /\ autonomy = [o \in Op |-> "suggest"]
    /\ results = [o \in Op |-> <<>>]
    /\ escalated = [o \in Op |-> {}]
    /\ active = [o \in Op |-> 0]
    /\ stop = [o \in Op |-> NoLoop]
    /\ closed = {}
    /\ watches = [l \in Loop |-> NoOp]
    /\ pc = [k \in Cycle |-> "idle"]
    /\ op = [k \in Cycle |-> NoOp]
    /\ todo = [k \in Cycle |-> {}]
    /\ doing = [k \in Cycle |-> NoAction]
    /\ panic = FALSE
    /\ overruled = [o \in Op |-> 0]

\* What ExecuteAction executes, rather than notes or suggests.
Allows(level, a) == level = "full" \/ (level = "auto" /\ a \in PreApproved)

-----------------------------------------------------------------------------
(* Enabling and disabling.                                                   *)

\* disableLocked of the operators in os.
StopLoops(os) ==
    /\ closed' = closed \cup ({stop[o] : o \in os} \ {NoLoop})
    /\ stop' = [o \in Op |-> IF o \in os THEN NoLoop ELSE stop[o]]

\* Enable, of a new id or again of a known one; with all places taken an
\* operator makes room first, be it the same.
Enable(o, level, l) ==
    /\ ~panic /\ watches[l] = NoOp
    /\ \E gone \in SUBSET known :
          /\ Cardinality(gone) = IF Cardinality(known) >= MaxConfigs THEN 1 ELSE 0
          /\ known' = (known \ gone) \cup {o}
          /\ enabled' = [p \in Op |-> p = o \/ (enabled[p] /\ p \notin gone)]
          /\ results' = [p \in Op |-> IF p \in gone \cup {o} THEN <<>> ELSE results[p]]
          /\ escalated' = [p \in Op |-> IF p \in gone \cup {o} THEN {} ELSE escalated[p]]
          /\ active' = [p \in Op |-> IF p \in gone \cup {o} THEN 0 ELSE active[p]]
          /\ closed' = closed \cup ({stop[p] : p \in gone} \ {NoLoop})
          /\ stop' = [p \in Op |-> IF p = o THEN l ELSE IF p \in gone THEN NoLoop ELSE stop[p]]
          /\ autonomy' = [p \in Op |-> IF p = o THEN level ELSE IF p \in gone THEN "suggest" ELSE autonomy[p]]
          /\ overruled' = [p \in Op |-> IF p \in gone \cup {o} THEN 0 ELSE overruled[p]]
    /\ watches' = [watches EXCEPT ![l] = o]
    /\ UNCHANGED <<cycleVars, panic>>

\* Disable of one operator, or DisableAll.
Disable(os) ==
    /\ ~panic /\ os # {}
    /\ enabled' = [o \in Op |-> enabled[o] /\ o \notin os]
    /\ StopLoops(os)
    /\ UNCHANGED <<known, autonomy, results, escalated, active, watches, cycleVars, panic, overruled>>

ResetEscalationState(o) ==
    /\ ~panic
    /\ escalated' = [escalated EXCEPT ![o] = {}]
    /\ active' = [active EXCEPT ![o] = 0]
    /\ UNCHANGED <<known, enabled, autonomy, results, loopVars, cycleVars, panic, overruled>>

-----------------------------------------------------------------------------
(* A scheduler loop.                                                         *)

LoopEnd(l) ==
    /\ watches' = [watches EXCEPT ![l] = NoOp]
    /\ closed' = closed \ {l}
    /\ UNCHANGED <<confVars, stop, cycleVars, panic, overruled>>

LoopStopped(l) ==
    /\ ~panic /\ l \in closed
    /\ LoopEnd(l)

\* A mutant of LoopTick: ends only when its operator is gone.
LoopTickGone(l) ==
    /\ ~panic /\ watches[l] # NoOp
    /\ watches[l] \notin known
    /\ LoopEnd(l)

\* The interval has passed: the loop looks whether its operator is enabled.
LoopTick(l) ==
    /\ ~panic /\ watches[l] # NoOp
    /\ watches[l] \notin known \/ ~enabled[watches[l]]
    /\ LoopEnd(l)

-----------------------------------------------------------------------------
(* Check results and cycles.                                                 *)

\* HandleCheckResult keeps the latest results, also of an id no longer known.
Keep(o, r) ==
    LET all == Append(results[o], r) IN
    results' = [results EXCEPT ![o] =
        IF Len(all) > MaxResults THEN SubSeq(all, Len(all) - MaxResults + 1, Len(all)) ELSE all]

\* A check with a schedule of its own, which may outlast its operator.
AloneBegin(k, o) ==
    /\ ~panic /\ pc[k] = "idle" /\ o \in known /\ enabled[o]
    /\ pc' = [pc EXCEPT ![k] = "alone"]
    /\ op' = [op EXCEPT ![k] = o]
    /\ UNCHANGED <<confVars, loopVars, todo, doing, panic, overruled>>

AloneCheck(k, r) ==
    /\ ~panic /\ pc[k] = "alone"
    /\ pc' = [pc EXCEPT ![k] = "idle"]
    /\ op' = [op EXCEPT ![k] = NoOp]
    /\ Keep(op[k], r)
    /\ UNCHANGED <<known, enabled, autonomy, escalated, active, loopVars, todo, doing, panic, overruled>>

CycleBegin(k, o) ==
    /\ ~panic /\ pc[k] = "idle" /\ o \in known /\ enabled[o]
    /\ pc' = [pc EXCEPT ![k] = "checks"]
    /\ op' = [op EXCEPT ![k] = o]
    /\ UNCHANGED <<confVars, loopVars, todo, doing, panic, overruled>>

CycleCheck(k, r) ==
    /\ ~panic /\ pc[k] = "checks"
    /\ Keep(op[k], r)
    /\ UNCHANGED <<known, enabled, autonomy, escalated, active, loopVars, cycleVars, panic, overruled>>

\* A mutant of EvaluateEscalation: does not pass over what it escalated to.
EvaluateAgain(k) ==
    LET o == op[k]
        due == {n \in Level : \E i \in 1..Len(results[o]) : n \in results[o][i]}
    IN  /\ ~panic /\ pc[k] = "checks"
        /\ IF o \in known /\ due # {}
           THEN /\ escalated' = [escalated EXCEPT ![o] = @ \cup {Min(due)}]
                /\ active' = [active EXCEPT ![o] = @ + 1]
                /\ todo' = [todo EXCEPT ![k] = ActionsOf[Min(due)]]
           ELSE UNCHANGED <<escalated, active, todo>>
        /\ pc' = [pc EXCEPT ![k] = "act"]
        /\ UNCHANGED <<known, enabled, autonomy, results, loopVars, op, doing, panic, overruled>>

\* EvaluateEscalation: the first level (in the order of the policy) not yet
\* escalated to whose trigger any of the kept results meets.
EvaluateEscalation(k) ==
    LET o == op[k]
        due == {n \in Level \ escalated[o] : \E i \in 1..Len(results[o]) : n \in results[o][i]}
    IN  /\ ~panic /\ pc[k] = "checks"
        /\ IF o \in known /\ due # {}
           THEN /\ escalated' = [escalated EXCEPT ![o] = @ \cup {Min(due)}]
                /\ active' = [active EXCEPT ![o] = @ + 1]
                /\ todo' = [todo EXCEPT ![k] = ActionsOf[Min(due)]]
           ELSE UNCHANGED <<escalated, active, todo>>
        /\ pc' = [pc EXCEPT ![k] = "act"]
        /\ UNCHANGED <<known, enabled, autonomy, results, loopVars, op, doing, panic, overruled>>

\* A mutant of ExecuteAction: does not ask for the autonomy.
ExecuteUnasked(k, a) ==
    /\ ~panic /\ pc[k] = "act" /\ a \in todo[k]
    /\ todo' = [todo EXCEPT ![k] = @ \ {a}]
    /\ pc' = [pc EXCEPT ![k] = "perform"]
    /\ doing' = [doing EXCEPT ![k] = a]
    /\ UNCHANGED <<confVars, loopVars, op, panic, overruled>>

\* ExecuteAction decides by the operator's present autonomy.
ExecuteAction(k, a) ==
    /\ ~panic /\ pc[k] = "act" /\ a \in todo[k]
    /\ todo' = [todo EXCEPT ![k] = @ \ {a}]
    /\ IF op[k] \in known /\ Allows(autonomy[op[k]], a)
       THEN pc' = [pc EXCEPT ![k] = "perform"] /\ doing' = [doing EXCEPT ![k] = a]
       ELSE UNCHANGED <<pc, doing>>
    /\ UNCHANGED <<confVars, loopVars, op, panic, overruled>>

\* executeActionInternal looks the configuration up once more.
Perform(k) ==
    LET o == op[k] IN
    /\ ~panic /\ pc[k] = "perform"
    /\ pc' = [pc EXCEPT ![k] = "act"]
    /\ doing' = [doing EXCEPT ![k] = NoAction]
    /\ panic' = (o \notin known /\ doing[k] \in UsesConfig)
    /\ overruled' = [overruled EXCEPT ![o] =
          @ + (IF o \in known /\ ~Allows(autonomy[o], doing[k]) THEN 1 ELSE 0)]
    /\ UNCHANGED <<confVars, loopVars, op, todo>>

\* The cycle's numbers go into the status it found at its beginning.
CycleEnd(k) ==
    /\ ~panic /\ pc[k] = "act" /\ todo[k] = {}
    /\ pc' = [pc EXCEPT ![k] = "idle"]
    /\ op' = [op EXCEPT ![k] = NoOp]
    /\ UNCHANGED <<confVars, loopVars, todo, doing, panic, overruled>>

-----------------------------------------------------------------------------
Loops == \E l \in Loop : LoopStopped(l) \/ LoopTick(l)

Cycles ==
    \E k \in Cycle :
        \/ \E o \in Op : AloneBegin(k, o) \/ CycleBegin(k, o)
        \/ \E r \in SUBSET Level : AloneCheck(k, r) \/ CycleCheck(k, r)
        \/ EvaluateEscalation(k)
        \/ \E a \in Action : ExecuteAction(k, a)
        \/ Perform(k) \/ CycleEnd(k)

Next ==
    \/ \E o \in Op, level \in Grant, l \in Loop : Enable(o, level, l)
    \/ \E os \in {known} \cup {{o} : o \in known} : Disable(os)
    \/ \E o \in Op : ResetEscalationState(o)
    \/ Loops \/ Cycles

Spec == Init /\ [][Next]_vars

\* The timers of the loops go on; nothing is assumed of cycles and users.
FairSpec == Spec /\ \A l \in Loop : WF_vars(LoopStopped(l)) /\ WF_vars(LoopTick(l))

-----------------------------------------------------------------------------
(* Properties.                                                               *)

\* Every variable has its type; the count of active escalations is the number
\* of levels escalated to, and a stop channel in the map is that of a running
\* loop of its operator and open (to close it twice would panic).
TypeOK ==
    /\ known \subseteq Op
    /\ enabled \in [Op -> BOOLEAN] /\ autonomy \in [Op -> Autonomy]
    /\ results \in [Op -> Seq(SUBSET Level)]
    /\ \A o \in Op : Len(results[o]) <= MaxResults
    /\ escalated \in [Op -> SUBSET Level]
    /\ active = [o \in Op |-> Cardinality(escalated[o])]
    /\ stop \in [Op -> Loop \cup {NoLoop}]
    /\ \A o \in Op : stop[o] # NoLoop => stop[o] \notin closed /\ watches[stop[o]] = o
    /\ closed \subseteq Loop /\ watches \in [Loop -> Op \cup {NoOp}]
    /\ pc \in [Cycle -> {"idle", "alone", "checks", "act", "perform"}]
    /\ op \in [Cycle -> Op \cup {NoOp}]
    /\ todo \in [Cycle -> SUBSET Action] /\ doing \in [Cycle -> Action \cup {NoAction}]
    /\ panic \in BOOLEAN /\ overruled \in [Op -> Nat]

\* Taking autonomy away from an operator by enabling it anew takes effect at
\* once, except for one action of each cycle that had been allowed it before.
OverrideBound == \A o \in Op : overruled[o] <= Cardinality(Cycle)

\* A scheduler loop ends, also one whose stop channel was replaced by a later
\* Enable, unless its operator is enabled again.
LoopsEnd ==
    \A l \in Loop, o \in Op :
        (watches[l] = o /\ ~enabled[o]) ~> (watches[l] # o \/ enabled[o] \/ panic)
=============================================================================
