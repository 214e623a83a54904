----------------------------- MODULE Remediation -----------------------------
(* The remediation engine of internal/autoremediation: actions are created   *)
(* from a runbook, approved, cancelled and executed by concurrent callers.   *)
(* ExecuteAction releases e.mu between its lookup, its claim of the action   *)
(* and each step, so everything else may happen in between.  A step's        *)
(* command succeeds or fails as it likes; a runbook is a sequence of steps.  *)
EXTENDS Integers, Sequences

CONSTANTS
    Action,      \* the uuids of the actions
    Caller,      \* goroutines that call ExecuteAction
    Id,          \* runbook ids
    Runbooks,    \* the runbooks that may be loaded or saved under an id
    MaxHistory,  \* config.MaxHistorySize
    Levels,      \* the autonomy levels callers ask for
    MaxSaves,    \* bound: calls of SaveRunbook
    NoAction

\* Autonomy: suggest 0, pre_approved 1, auto 2, speculative 3.
Suggest   == 0
Automatic == 2
Policies  == {"stop", "continue", "rollback", "skip"}
Steps     == [type : {"work", "approval"}, onFailure : Policies, rollback : BOOLEAN]

ASSUME RemediationAssumption ==
    /\ Runbooks \subseteq [steps : Seq(Steps), autonomy : 0..3]
    /\ Runbooks # {} /\ Id # {} /\ Levels \subseteq 0..3 /\ MaxHistory \in Nat \ {0} /\ MaxSaves \in Nat
    /\ NoAction \notin Action

VARIABLES
    commander,   \* e.commander # nil
    book,        \* e.runbooks
    act,         \* e.actions; status "none": not created
    history,     \* e.history, by action
    call,        \* where each ExecuteAction is, and its local variables
    saves,       \* what MaxSaves bounds
    plan,        \* history: the runbook an action was claimed with
    trace        \* history: the commands run for an action, in order

vars == <<commander, book, act, history, call, saves, plan, trace>>

Statuses == {"none", "pending", "approved", "running", "success", "failed",
             "rolled_back", "cancelled"}
SomeBook == CHOOSE rb \in Runbooks : TRUE
Idle == [pc |-> "idle", a |-> NoAction, rb |-> SomeBook, i |-> 0,
         approved |-> FALSE, ok |-> FALSE]
Event(k, i, ok) == [kind |-> k, step |-> i, ok |-> ok]

Init ==
    /\ commander \in BOOLEAN
    /\ book \in [Id -> Runbooks]
    /\ act = [a \in Action |-> [status |-> "none", id |-> CHOOSE d \in Id : TRUE,
                                autonomy |-> Suggest, approved |-> FALSE, results |-> <<>>]]
    /\ history = <<>>
    /\ call = [c \in Caller |-> Idle]
    /\ saves = 0
    /\ plan = [a \in Action |-> SomeBook]
    /\ trace = [a \in Action |-> <<>>]

-----------------------------------------------------------------------------
(* Operations that are one critical section.                                 *)

SetStatus(a, st) == act' = [act EXCEPT ![a].status = st]

SaveRunbook(d, rb) ==
    /\ saves < MaxSaves
    /\ saves' = saves + 1
    /\ book' = [book EXCEPT ![d] = rb]
    /\ UNCHANGED <<commander, act, history, call, plan, trace>>

CreateAction(a, d, level) ==
    /\ act[a].status = "none"
    /\ act' = [act EXCEPT ![a] = [status |-> "pending", id |-> d, autonomy |-> level,
                                  approved |-> FALSE, results |-> <<>>]]
    /\ UNCHANGED <<commander, book, history, call, saves, plan, trace>>

ApproveAction(a) ==
    /\ act[a].status = "pending"
    /\ act' = [act EXCEPT ![a].status = "approved", ![a].approved = TRUE]
    /\ UNCHANGED <<commander, book, history, call, saves, plan, trace>>

\* Fault: every action but a pending one can be cancelled.
CancelAnything(a) ==
    /\ act[a].status \notin {"none", "pending"}
    /\ SetStatus(a, "cancelled")
    /\ UNCHANGED <<commander, book, history, call, saves, plan, trace>>

CancelAction(a) ==
    /\ act[a].status \in {"pending", "approved", "running"}
    /\ SetStatus(a, "cancelled")
    /\ UNCHANGED <<commander, book, history, call, saves, plan, trace>>

-----------------------------------------------------------------------------
(* ExecuteAction.                                                            *)

At(c, p)    == call[c].pc = p
Goto(c, p)  == call' = [call EXCEPT ![c].pc = p]
Return(c)   == call' = [call EXCEPT ![c] = Idle]
Cur(c)      == call[c].rb.steps[call[c].i]
Mine(c)     == call[c].a
Last(c)     == Len(call[c].rb.steps)

\* Look the action and its runbook up, and compare their autonomy levels.
ExecLookup(c) ==
    /\ At(c, "idle")
    /\ \E a \in Action :
         /\ act[a].status # "none"
         /\ act[a].autonomy >= book[act[a].id].autonomy
         /\ call' = [call EXCEPT ![c] = [Idle EXCEPT !.pc = "claim", !.a = a, !.rb = book[act[a].id]]]
    /\ UNCHANGED <<commander, book, act, history, saves, plan, trace>>

\* Fault: an action that is running may be claimed again.
ExecClaimRunning(c) ==
    /\ At(c, "claim")
    /\ IF act[Mine(c)].status \in {"pending", "approved", "running"}
       THEN /\ SetStatus(Mine(c), "running")
            /\ plan' = [plan EXCEPT ![Mine(c)] = call[c].rb]
            /\ call' = [call EXCEPT ![c].pc = "step", ![c].i = 1,
                                    ![c].approved = act[Mine(c)].status = "approved"]
       ELSE /\ Return(c)
            /\ UNCHANGED <<act, plan>>
    /\ UNCHANGED <<commander, book, history, saves, trace>>

ExecClaim(c) ==
    /\ At(c, "claim")
    /\ IF act[Mine(c)].status \in {"pending", "approved"}
       THEN /\ SetStatus(Mine(c), "running")
            /\ plan' = [plan EXCEPT ![Mine(c)] = call[c].rb]
            /\ call' = [call EXCEPT ![c].pc = "step", ![c].i = 1,
                                    ![c].approved = act[Mine(c)].status = "approved"]
       ELSE /\ Return(c)
            /\ UNCHANGED <<act, plan>>
    /\ UNCHANGED <<commander, book, history, saves, trace>>

GateClosed(c) == /\ Cur(c).type = "approval"
                 /\ act[Mine(c)].autonomy < Automatic
                 /\ ~call[c].approved

AddResult(a, i, st) == act' = [act EXCEPT ![a].results = Append(@, [step |-> i, st |-> st])]

\* Fault: a closed gate is recorded and stepped over.
ExecGateOver(c) ==
    /\ At(c, "step") /\ call[c].i <= Last(c) /\ GateClosed(c)
    /\ AddResult(Mine(c), call[c].i, "pending")
    /\ call' = [call EXCEPT ![c].i = @ + 1]
    /\ UNCHANGED <<commander, book, history, saves, plan, trace>>

\* Nobody approved: the loop is left.
ExecGate(c) ==
    /\ At(c, "step") /\ call[c].i <= Last(c) /\ GateClosed(c)
    /\ AddResult(Mine(c), call[c].i, "pending")
    /\ Goto(c, "finish")
    /\ UNCHANGED <<commander, book, history, saves, plan, trace>>

\* Without a commander every step fails; an approval step that is not closed
\* succeeds, and a command may fail or not.
StepResults(step) == IF ~commander THEN {FALSE}
                     ELSE IF step.type = "approval" THEN {TRUE} ELSE BOOLEAN

\* executeStep.
ExecRun(c) ==
    /\ At(c, "step") /\ call[c].i <= Last(c) /\ ~GateClosed(c)
    /\ \E ok \in StepResults(Cur(c)) :
         /\ call' = [call EXCEPT ![c].pc = "record", ![c].ok = ok]
         /\ trace' = [trace EXCEPT ![Mine(c)] = Append(@, Event("do", call[c].i, ok))]
    /\ UNCHANGED <<commander, book, act, history, saves, plan>>

\* Fault: the failure policy "stop" goes on with the next step.
ExecRecordOn(c) ==
    /\ At(c, "record")
    /\ AddResult(Mine(c), call[c].i, IF call[c].ok THEN "success" ELSE "failed")
    /\ call' = [call EXCEPT ![c] =
                  IF ~call[c].ok /\ Cur(c).onFailure = "rollback"
                  THEN [@ EXCEPT !.pc = "rollback", !.i = Last(c), !.ok = FALSE]
                  ELSE [@ EXCEPT !.pc = "step", !.i = @ + 1, !.ok = FALSE]]
    /\ UNCHANGED <<commander, book, history, saves, plan, trace>>

\* Record the result and follow the failure policy.
ExecRecord(c) ==
    /\ At(c, "record")
    /\ AddResult(Mine(c), call[c].i, IF call[c].ok THEN "success" ELSE "failed")
    /\ call' = [call EXCEPT ![c] =
                  IF ~call[c].ok /\ Cur(c).onFailure = "stop"
                  THEN [@ EXCEPT !.pc = "stop"]
                  ELSE IF ~call[c].ok /\ Cur(c).onFailure = "rollback"
                  THEN [@ EXCEPT !.pc = "rollback", !.i = Last(c), !.ok = FALSE]
                  ELSE [@ EXCEPT !.pc = "step", !.i = call[c].i + 1, !.ok = FALSE]]
    /\ UNCHANGED <<commander, book, history, saves, plan, trace>>

ExecStop(c) ==
    /\ At(c, "stop")
    /\ SetStatus(Mine(c), "failed")
    /\ Return(c)
    /\ UNCHANGED <<commander, book, history, saves, plan, trace>>

Completed(a, i) == \E k \in 1..Len(act[a].results) :
                       act[a].results[k] = [step |-> i, st |-> "success"]

\* Fault: also a step that failed is undone.
UndoUnchecked(c) ==
    /\ At(c, "rollback") /\ call[c].i >= 1
    /\ call' = [call EXCEPT ![c].i = @ - 1]
    /\ IF Cur(c).rollback
       THEN trace' = [trace EXCEPT ![Mine(c)] = Append(@, Event("undo", call[c].i, TRUE))]
       ELSE UNCHANGED trace
    /\ UNCHANGED <<commander, book, act, history, saves, plan>>

\* rollbackAction: from the last step to the first; an undo that
\* fails is only logged.
Undo(c) ==
    /\ At(c, "rollback") /\ call[c].i >= 1
    /\ call' = [call EXCEPT ![c].i = @ - 1]
    /\ IF Cur(c).rollback /\ Completed(Mine(c), call[c].i)
       THEN trace' = [trace EXCEPT ![Mine(c)] = Append(@, Event("undo", call[c].i, TRUE))]
       ELSE UNCHANGED trace
    /\ UNCHANGED <<commander, book, act, history, saves, plan>>

UndoDone(c) ==
    /\ At(c, "rollback") /\ call[c].i = 0
    /\ SetStatus(Mine(c), "rolled_back")
    /\ Return(c)
    /\ UNCHANGED <<commander, book, history, saves, plan, trace>>

\* Fault: the loop ends without the status being set.
ExecFinishSilent(c) ==
    /\ At(c, "finish") \/ (At(c, "step") /\ call[c].i > Last(c))
    /\ Goto(c, "history")
    /\ UNCHANGED <<commander, book, act, history, saves, plan, trace>>

\* The loop ended, at its end or at a closed gate.
ExecFinish(c) ==
    /\ At(c, "finish") \/ (At(c, "step") /\ call[c].i > Last(c))
    /\ SetStatus(Mine(c), "success")
    /\ Goto(c, "history")
    /\ UNCHANGED <<commander, book, history, saves, plan, trace>>

\* Fault: the limit is compared with > instead of >=.
AddToHistoryLate(c) ==
    /\ At(c, "history")
    /\ history' = Append(IF Len(history) > MaxHistory THEN Tail(history) ELSE history, Mine(c))
    /\ Return(c)
    /\ UNCHANGED <<commander, book, act, saves, plan, trace>>

AddToHistory(c) ==
    /\ At(c, "history")
    /\ history' = Append(IF Len(history) >= MaxHistory THEN Tail(history) ELSE history, Mine(c))
    /\ Return(c)
    /\ UNCHANGED <<commander, book, act, saves, plan, trace>>

-----------------------------------------------------------------------------
ExecuteStep(c) == \/ ExecGate(c) \/ ExecRun(c) \/ ExecRecord(c) \/ ExecStop(c)
                  \/ Undo(c) \/ UndoDone(c) \/ ExecFinish(c) \/ AddToHistory(c)
ExecuteAction(c) == ExecLookup(c) \/ ExecClaim(c) \/ ExecuteStep(c)

Next ==
    \/ \E d \in Id, rb \in Runbooks : SaveRunbook(d, rb)
    \/ \E a \in Action : \/ \E d \in Id, level \in Levels : CreateAction(a, d, level)
                         \/ ApproveAction(a) \/ CancelAction(a)
    \/ \E c \in Caller : ExecuteAction(c)

Spec == Init /\ [][Next]_vars

\* Every command of a step has a timeout, so ExecuteAction keeps going.
FairSpec == Spec /\ \A c \in Caller : WF_vars(ExecuteStep(c))

-----------------------------------------------------------------------------
(* Properties.                                                               *)

PCs == {"idle", "claim", "step", "record", "stop", "rollback", "finish", "history"}

\* Every variable has its type; the history holds at most MaxHistory actions.
TypeOK ==
    /\ commander \in BOOLEAN /\ book \in [Id -> Runbooks]
    /\ act \in [Action -> [status : Statuses, id : Id, autonomy : 0..3, approved : BOOLEAN,
                           results : Seq([step : Nat, st : {"pending", "success", "failed"}])]]
    /\ history \in Seq(Action) /\ Len(history) <= MaxHistory
    /\ call \in [Caller -> [pc : PCs, a : Action \cup {NoAction}, rb : Runbooks,
                            i : Nat, approved : BOOLEAN, ok : BOOLEAN]]
    /\ saves \in 0..MaxSaves
    /\ plan \in [Action -> Runbooks]
    /\ trace \in [Action -> Seq([kind : {"do", "undo"}, step : Nat, ok : BOOLEAN])]

Dos(a)   == {k \in DOMAIN trace[a] : trace[a][k].kind = "do"}
Undos(a) == {k \in DOMAIN trace[a] : trace[a][k].kind = "undo"}
StepOf(a, k) == plan[a].steps[trace[a][k].step]

\* However many callers execute an action, its steps run once, from the first
\* on, in the order of the runbook it was claimed with.
RunsOnce == \A a \in Action : \A k \in Dos(a) : trace[a][k].step = k

\* No step after an approval step runs unless the action was approved or its
\* autonomy level is auto or higher.
GateHeld ==
    \A a \in Action : \A k \in Dos(a) :
        (\E i \in 1..trace[a][k].step : plan[a].steps[i].type = "approval")
            => act[a].approved \/ act[a].autonomy >= Automatic

\* Nothing but undo commands follows a failed step whose policy is to stop or
\* to roll back, and after a stop not even those.
StopsAtFailure ==
    \A a \in Action : \A k \in Dos(a) : ~trace[a][k].ok =>
        /\ StepOf(a, k).onFailure \in {"stop", "rollback"} => \A l \in Dos(a) : l <= k
        /\ StepOf(a, k).onFailure = "stop" => Undos(a) = {}

\* Only steps that succeeded are undone, each once, the last one first.
UndoSound ==
    \A a \in Action : \A k \in Undos(a) :
        /\ \E l \in Dos(a) : /\ trace[a][l].step = trace[a][k].step /\ trace[a][l].ok
                             /\ StepOf(a, l).rollback
        /\ \A l \in Undos(a) : l < k => trace[a][l].step > trace[a][k].step

\* A rolled back action has undone every step that succeeded and can be undone.
RollbackComplete ==
    \A a \in Action : act[a].status = "rolled_back" =>
        \A k \in Dos(a) : trace[a][k].ok /\ StepOf(a, k).rollback
            => \E l \in Undos(a) : trace[a][l].step = trace[a][k].step

\* A rollback undoes exactly the steps that succeeded and can be undone, last
\* first, also when failures were ignored on the way.
RollbackExact == UndoSound /\ RollbackComplete

\* An action that has succeeded, failed or been rolled back stays so: it is not
\* approved, cancelled or executed again.
OutcomeStable ==
    [][\A a \in Action : act[a].status \in {"success", "failed", "rolled_back"}
           => act'[a].status = act[a].status]_vars

\* An action that runs gets an outcome.
ExecutionEnds == \A a \in Action : act[a].status = "running" ~> act[a].status # "running"

\* models.go:15 of an approval step: "wait for human approval".  An action with
\* a gate that still waits for its approval is not a success.
WaitsForApproval ==
    \A a \in Action : act[a].status = "success" =>
        \A k \in 1..Len(act[a].results) : act[a].results[k].st # "pending"
=============================================================================
