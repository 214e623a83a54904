--------------------------- MODULE RemediationProofs ---------------------------
(* For any actions, callers and runbooks: steps run once and in order, behind *)
(* the approval gates and as the failure policies say, a rollback undoes      *)
(* exactly what succeeded, an outcome is final, and executions are finite.    *)
EXTENDS Remediation, TLAPS

ActRec  == [status : Statuses, id : Id, autonomy : 0..3, approved : BOOLEAN,
            results : Seq([step : Nat, st : {"pending", "success", "failed"}])]
CallRec == [pc : PCs, a : Action \cup {NoAction}, rb : Runbooks,
            i : Nat, approved : BOOLEAN, ok : BOOLEAN]
Run     == [kind : {"do", "undo"}, step : Nat, ok : BOOLEAN]

\* Where a caller owns the action it executes.
Work == {"step", "record", "stop", "rollback", "finish"}

OneOwner == \A c, d \in Caller :
    call[c].pc \in Work /\ call[d].pc \in Work /\ call[c].a = call[d].a => c = d

\* What an owner may rely on, whatever the others do.
Owns(c) ==
    /\ call[c].pc # "idle" => call[c].a \in Action
    /\ call[c].pc \in Work =>
         /\ act[call[c].a].status \in {"running", "cancelled"}
         /\ plan[call[c].a] = call[c].rb
         /\ call[c].approved => act[call[c].a].approved

\* The first n commands of an action are steps 1..n, with their results.
Recorded(a, n) ==
    /\ Len(act[a].results) = n
    /\ \A k \in 1..n :
         /\ trace[a][k] = Event("do", k, trace[a][k].ok)
         /\ act[a].results[k] = [step |-> k, st |-> IF trace[a][k].ok THEN "success" ELSE "failed"]

Passed(a, n) ==
    \A k \in 1..n : plan[a].steps[k].type = "approval"
        => act[a].approved \/ act[a].autonomy >= Automatic

\* None of the first n steps failed with a policy that ends the action.
GoesOn(a, n) ==
    \A k \in 1..n : trace[a][k].ok \/ plan[a].steps[k].onFailure \notin {"stop", "rollback"}

Stepping(c) ==
    call[c].pc = "step" =>
        /\ call[c].i \in 1..(Last(c) + 1)
        /\ Len(trace[Mine(c)]) = call[c].i - 1
        /\ Recorded(Mine(c), call[c].i - 1)
        /\ Passed(Mine(c), call[c].i - 1)
        /\ GoesOn(Mine(c), call[c].i - 1)

Recording(c) ==
    call[c].pc = "record" =>
        /\ call[c].i \in 1..Last(c)
        /\ Len(trace[Mine(c)]) = call[c].i
        /\ trace[Mine(c)][call[c].i] = Event("do", call[c].i, call[c].ok)
        /\ Recorded(Mine(c), call[c].i - 1)
        /\ Passed(Mine(c), call[c].i)
        /\ GoesOn(Mine(c), call[c].i - 1)

\* An undo in progress has dealt with the steps above i.
RollingBack(c) ==
    call[c].pc = "rollback" =>
        LET a == Mine(c) n == Len(act[a].results) IN
        /\ call[c].i \in 0..Last(c) /\ n <= Last(c) /\ n <= Len(trace[a])
        /\ Recorded(a, n) /\ Dos(a) = 1..n
        /\ \A k \in Dos(a) : trace[a][k].ok \/ plan[a].steps[k].onFailure # "stop"
        /\ \A l \in Undos(a) : trace[a][l].step > call[c].i
        /\ \A k \in Dos(a) : trace[a][k].ok /\ plan[a].steps[k].rollback /\ k > call[c].i
               => \E l \in Undos(a) : trace[a][l].step = k

Untouched(a) == act[a].status \in {"none", "pending", "approved"} =>
    /\ trace[a] = <<>> /\ act[a].results = <<>>
    /\ act[a].status = "approved" => act[a].approved

\* The properties of one action.
InOrder(a) == \A k \in Dos(a) : trace[a][k].step = k /\ k <= Len(plan[a].steps)
Gate(a) == \A k \in Dos(a) :
    (\E i \in 1..trace[a][k].step : plan[a].steps[i].type = "approval")
        => act[a].approved \/ act[a].autonomy >= Automatic
Stops(a) == \A k \in Dos(a) : ~trace[a][k].ok =>
    /\ StepOf(a, k).onFailure \in {"stop", "rollback"} => \A l \in Dos(a) : l <= k
    /\ StepOf(a, k).onFailure = "stop" => Undos(a) = {}
Sound(a) == \A k \in Undos(a) :
    /\ \E l \in Dos(a) : /\ trace[a][l].step = trace[a][k].step /\ trace[a][l].ok
                         /\ StepOf(a, l).rollback
    /\ \A l \in Undos(a) : l < k => trace[a][l].step > trace[a][k].step
Complete(a) == act[a].status = "rolled_back" =>
    \A k \in Dos(a) : trace[a][k].ok /\ StepOf(a, k).rollback
        => \E l \in Undos(a) : trace[a][l].step = trace[a][k].step

Kept(a) == Untouched(a) /\ InOrder(a) /\ Gate(a) /\ Stops(a) /\ Sound(a) /\ Complete(a)
Holds(c) == Owns(c) /\ Stepping(c) /\ Recording(c) /\ RollingBack(c)

RemInv == /\ TypeOK /\ OneOwner
          /\ \A c \in Caller : Holds(c)
          /\ \A a \in Action : Kept(a)

-----------------------------------------------------------------------------
(* What a step does not touch keeps what is known of it.                      *)

SameAction(a) == /\ trace'[a] = trace[a] /\ plan'[a] = plan[a]
                 /\ act'[a].results = act[a].results /\ act'[a].autonomy = act[a].autonomy

LEMMA ActionUntouched ==
    ASSUME NEW a \in Action, Kept(a), SameAction(a), act'[a] = act[a]
    PROVE  Kept(a)'
<1>1. Dos(a)' = Dos(a) /\ Undos(a)' = Undos(a)
  BY DEF Dos, Undos, SameAction
<1>2. Untouched(a)' /\ InOrder(a)' /\ Gate(a)'
  BY <1>1 DEF Kept, Untouched, InOrder, Gate, SameAction
<1>3. trace'[a] = trace[a] /\ plan'[a] = plan[a]
  BY DEF SameAction
<1>4. Stops(a)'
  BY <1>1, <1>3 DEF Kept, Stops, StepOf
<1>5. Sound(a)'
  BY <1>1, <1>3 DEF Kept, Sound, StepOf
<1>6. Complete(a)'
  BY <1>1, <1>3 DEF Kept, Complete, StepOf
<1>7. QED BY <1>2, <1>4, <1>5, <1>6 DEF Kept

LEMMA CallUntouched ==
    ASSUME NEW c \in Caller, Holds(c), call'[c] = call[c],
           call[c].pc \in Work =>
             /\ SameAction(call[c].a)
             /\ act'[call[c].a].status \in {"running", "cancelled"}
             /\ act[call[c].a].approved => act'[call[c].a].approved
    PROVE  Holds(c)'
<1>1. Owns(c)'
  BY DEF Holds, Owns, SameAction
<1>2. Stepping(c)' /\ Recording(c)'
  <2>1. SUFFICES ASSUME call[c].pc \in {"step", "record"}
                 PROVE  Stepping(c)' /\ Recording(c)'
    BY DEF Stepping, Recording
  <2>2. /\ SameAction(Mine(c)) /\ Mine(c)' = Mine(c) /\ Last(c)' = Last(c)
        /\ act[Mine(c)].approved => act'[Mine(c)].approved
    BY <2>1 DEF Work, Mine, Last
  <2>3. ASSUME NEW n PROVE /\ Recorded(Mine(c), n) => Recorded(Mine(c), n)'
                           /\ Passed(Mine(c), n) => Passed(Mine(c), n)'
                           /\ GoesOn(Mine(c), n) => GoesOn(Mine(c), n)'
    BY <2>2 DEF SameAction, Recorded, Passed, GoesOn
  <2>4. QED BY <2>1, <2>2, <2>3 DEF Holds, Stepping, Recording, SameAction
<1>3. RollingBack(c)'
  <2>1. SUFFICES ASSUME call[c].pc = "rollback" PROVE RollingBack(c)'
    BY DEF RollingBack
  <2>2. SameAction(Mine(c)) /\ Mine(c)' = Mine(c) /\ Last(c)' = Last(c)
    BY <2>1 DEF Work, Mine, Last
  <2>3. Dos(Mine(c))' = Dos(Mine(c)) /\ Undos(Mine(c))' = Undos(Mine(c))
    BY <2>2 DEF Dos, Undos, SameAction
  <2>4. ASSUME NEW n PROVE Recorded(Mine(c), n) => Recorded(Mine(c), n)'
    BY <2>2 DEF SameAction, Recorded
  <2>5. /\ act'[Mine(c)].results = act[Mine(c)].results /\ trace'[Mine(c)] = trace[Mine(c)]
        /\ plan'[Mine(c)] = plan[Mine(c)]
    BY <2>2 DEF SameAction
  <2>6. RollingBack(c)
    BY DEF Holds
  <2>7. QED BY <2>1, <2>2, <2>3, <2>4, <2>5, <2>6 DEF RollingBack
<1>4. QED BY <1>1, <1>2, <1>3 DEF Holds

\* An operation on action a that is one critical section.
LEMMA OperationFrame ==
    ASSUME RemInv, TypeOK', UNCHANGED <<call, plan, trace>>, NEW a \in Action, Kept(a)',
           \A b \in Action \ {a} : act'[b] = act[b],
           \A c \in Caller : call[c].pc \in Work /\ call[c].a = a =>
               /\ SameAction(a)
               /\ act'[a].status \in {"running", "cancelled"}
               /\ act[a].approved => act'[a].approved
    PROVE  RemInv'
<1>1. ASSUME NEW b \in Action PROVE Kept(b)'
  <2>1. CASE b = a
    BY <2>1
  <2>2. CASE b # a
    BY <2>2, ActionUntouched DEF RemInv, SameAction
  <2>3. QED BY <2>1, <2>2
<1>2. ASSUME NEW c \in Caller PROVE Holds(c)'
  <2>1. ASSUME call[c].pc \in Work
        PROVE  /\ SameAction(call[c].a)
               /\ act'[call[c].a].status \in {"running", "cancelled"}
               /\ act[call[c].a].approved => act'[call[c].a].approved
    BY <2>1 DEF RemInv, Holds, Owns, Work, SameAction
  <2>2. QED BY <2>1, CallUntouched DEF RemInv
<1>3. OneOwner'
  BY DEF RemInv, OneOwner
<1>4. QED BY <1>1, <1>2, <1>3 DEF RemInv

\* A step of a caller with action a, which nobody else owns or which it leaves
\* as it is.
LEMMA CallerFrame ==
    ASSUME RemInv, TypeOK', NEW c \in Caller, NEW a \in Action, Holds(c)', Kept(a)',
           call'[c].pc \in Work => call'[c].a = a,
           \A d \in Caller \ {c} : call'[d] = call[d],
           \A b \in Action \ {a} : SameAction(b) /\ act'[b] = act[b],
           \/ \A d \in Caller \ {c} : call[d].pc \in Work => call[d].a # a
           \/ SameAction(a) /\ act'[a] = act[a] /\ call'[c].pc \notin Work
    PROVE  RemInv'
<1>1. ASSUME NEW b \in Action PROVE Kept(b)'
  <2>1. CASE b = a
    BY <2>1
  <2>2. CASE b # a
    BY <2>2, ActionUntouched DEF RemInv
  <2>3. QED BY <2>1, <2>2
<1>2. ASSUME NEW d \in Caller PROVE Holds(d)'
  <2>1. CASE d = c
    BY <2>1
  <2>2. CASE d # c
    <3>1. ASSUME call[d].pc \in Work
          PROVE  /\ call[d].a \in Action
                 /\ SameAction(call[d].a) /\ act'[call[d].a] = act[call[d].a]
                 /\ act[call[d].a].status \in {"running", "cancelled"}
      BY <2>2, <3>1 DEF RemInv, Holds, Owns, Work
    <3>2. QED BY <2>2, <3>1, CallUntouched DEF RemInv
  <2>3. QED BY <2>1, <2>2
<1>3. OneOwner'
  BY DEF RemInv, OneOwner
<1>4. QED BY <1>1, <1>2, <1>3 DEF RemInv

LEMMA OthersElsewhere ==
    ASSUME RemInv, NEW c \in Caller, call[c].pc \in Work
    PROVE  /\ Mine(c) \in Action
           /\ act[Mine(c)].status \in {"running", "cancelled"}
           /\ \A d \in Caller \ {c} : call[d].pc \in Work => call[d].a # Mine(c)
BY DEF RemInv, OneOwner, Holds, Owns, Mine, Work

-----------------------------------------------------------------------------
(* The operations that are one critical section.                              *)

LEMMA SaveStep ==
    ASSUME RemInv, NEW d \in Id, NEW rb \in Runbooks, SaveRunbook(d, rb)
    PROVE  RemInv'
<1>1. TypeOK'
  <2>1. book' \in [Id -> Runbooks]
    BY DEF RemInv, TypeOK, SaveRunbook
  <2>2. saves' \in 0..MaxSaves
    BY RemediationAssumption DEF RemInv, TypeOK, SaveRunbook
  <2>3. UNCHANGED <<commander, act, history, call, plan, trace>>
    BY DEF SaveRunbook
  <2>4. QED BY <2>1, <2>2, <2>3 DEF RemInv, TypeOK
<1>2. UNCHANGED <<act, call, plan, trace>>
  BY DEF SaveRunbook
<1>3. ASSUME NEW c \in Caller PROVE Holds(c)'
  BY <1>2, CallUntouched DEF RemInv, SameAction, Holds, Owns
<1>4. ASSUME NEW a \in Action PROVE Kept(a)'
  BY <1>2, ActionUntouched DEF RemInv, SameAction
<1>5. QED BY <1>1, <1>2, <1>3, <1>4 DEF RemInv, OneOwner

LEMMA CreateStep ==
    ASSUME RemInv, NEW a \in Action, NEW d \in Id, NEW level \in Levels, CreateAction(a, d, level)
    PROVE  RemInv'
<1>1. TypeOK'
  <2> DEFINE new == [status |-> "pending", id |-> d, autonomy |-> level, approved |-> FALSE,
                     results |-> <<>>]
             Actions == [status : Statuses, id : Id, autonomy : 0..3, approved : BOOLEAN,
                         results : Seq([step : Nat, st : {"pending", "success", "failed"}])]
  <2>1. new \in Actions
    BY RemediationAssumption DEF Statuses
  <2>2. act' = [act EXCEPT ![a] = new] /\ act \in [Action -> Actions]
    BY DEF RemInv, TypeOK, CreateAction
  <2> HIDE DEF new
  <2>3. act' \in [Action -> Actions]
    BY <2>1, <2>2
  <2>4. QED BY <2>3 DEF RemInv, TypeOK, CreateAction
<1>2. /\ trace[a] = <<>> /\ act[a].status = "none"
      /\ act' = [act EXCEPT ![a] = [status |-> "pending", id |-> d, autonomy |-> level,
                                     approved |-> FALSE, results |-> <<>>]]
      /\ UNCHANGED <<call, plan, trace>>
  BY DEF RemInv, Kept, Untouched, CreateAction
<1>3. act'[a].status = "pending" /\ act'[a].results = <<>>
  BY <1>2 DEF RemInv, TypeOK
<1>4. Kept(a)'
  BY <1>2, <1>3 DEF Kept, Untouched, InOrder, Gate, Stops, Sound, Complete, Dos, Undos
<1>5. \A b \in Action \ {a} : act'[b] = act[b]
  BY <1>2 DEF RemInv, TypeOK
<1>6. \A c \in Caller : call[c].pc \in Work => call[c].a # a
  BY <1>2 DEF RemInv, Holds, Owns
<1>7. QED BY <1>1, <1>2, <1>4, <1>5, <1>6, OperationFrame

\* Approving and cancelling change the status, to one an owner knows of.
LEMMA ApproveStep ==
    ASSUME RemInv, NEW a \in Action, ApproveAction(a)
    PROVE  RemInv'
<1>1. TypeOK'
  <2> DEFINE r == [act[a] EXCEPT !.status = "approved", !.approved = TRUE]
  <2>1. act \in [Action -> ActRec] /\ act' = [act EXCEPT ![a] = r]
    BY DEF RemInv, TypeOK, ActRec, ApproveAction
  <2>2. ASSUME NEW q \in ActRec PROVE [q EXCEPT !.status = "approved", !.approved = TRUE] \in ActRec
    BY DEF ActRec, Statuses
  <2>3. r \in ActRec
    BY <2>1, <2>2
  <2>4. act' \in [Action -> ActRec]
    BY <2>1, <2>3
  <2>5. UNCHANGED <<commander, book, history, call, saves, plan, trace>>
    BY DEF ApproveAction
  <2>6. QED BY <2>4, <2>5 DEF RemInv, TypeOK, ActRec
<1>2. /\ act[a].status = "pending" /\ trace[a] = <<>> /\ act[a].results = <<>>
      /\ act' = [act EXCEPT ![a].status = "approved", ![a].approved = TRUE]
      /\ UNCHANGED <<call, plan, trace>>
  BY DEF RemInv, Kept, Untouched, ApproveAction
<1>3. /\ act'[a].status = "approved" /\ act'[a].approved /\ act'[a].results = <<>>
  BY <1>2 DEF RemInv, TypeOK
<1>4. Kept(a)'
  BY <1>2, <1>3 DEF Kept, Untouched, InOrder, Gate, Stops, Sound, Complete, Dos, Undos
<1>5. \A b \in Action \ {a} : act'[b] = act[b]
  BY <1>2 DEF RemInv, TypeOK
<1>6. \A c \in Caller : call[c].pc \in Work => call[c].a # a
  BY <1>2 DEF RemInv, Holds, Owns
<1>7. QED BY <1>1, <1>2, <1>4, <1>5, <1>6, OperationFrame

\* The commands of an action that runs stay what they are.
LEMMA KeptWithStatus ==
    ASSUME NEW a \in Action, Kept(a), trace'[a] = trace[a], plan'[a] = plan[a],
           act'[a].autonomy = act[a].autonomy, act'[a].approved = act[a].approved,
           act'[a].status \notin {"none", "pending", "approved"},
           Complete(a)'
    PROVE  Kept(a)'
<1>1. Dos(a)' = Dos(a) /\ Undos(a)' = Undos(a)
  BY DEF Dos, Undos
<1>2. Untouched(a)' /\ InOrder(a)' /\ Gate(a)'
  BY <1>1 DEF Kept, Untouched, InOrder, Gate
<1>3. Stops(a)'
  BY <1>1 DEF Kept, Stops, StepOf
<1>4. Sound(a)'
  BY <1>1 DEF Kept, Sound, StepOf
<1>5. QED BY <1>2, <1>3, <1>4 DEF Kept

LEMMA CancelStep ==
    ASSUME RemInv, NEW a \in Action, CancelAction(a)
    PROVE  RemInv'
<1>1. TypeOK'
  <2> DEFINE Actions == [status : Statuses, id : Id, autonomy : 0..3, approved : BOOLEAN,
                         results : Seq([step : Nat, st : {"pending", "success", "failed"}])]
  <2>1. [act[a] EXCEPT !.status = "cancelled"] \in Actions
    BY DEF RemInv, TypeOK, Statuses
  <2>2. act' = [act EXCEPT ![a] = [act[a] EXCEPT !.status = "cancelled"]]
    BY DEF CancelAction, SetStatus
  <2>3. act' \in [Action -> Actions]
    BY <2>1, <2>2 DEF RemInv, TypeOK
  <2>4. QED BY <2>3 DEF RemInv, TypeOK, CancelAction
<1>2. /\ act' = [act EXCEPT ![a].status = "cancelled"] /\ UNCHANGED <<call, plan, trace>>
  BY DEF CancelAction, SetStatus
<1>3. /\ act'[a].status = "cancelled" /\ act'[a].approved = act[a].approved
      /\ act'[a].results = act[a].results /\ act'[a].autonomy = act[a].autonomy
  BY <1>2 DEF RemInv, TypeOK
<1>4. Kept(a)'
  BY <1>2, <1>3, KeptWithStatus DEF RemInv, Complete
<1>5. SameAction(a) /\ \A b \in Action \ {a} : act'[b] = act[b]
  BY <1>2, <1>3 DEF SameAction, RemInv, TypeOK
<1>6. QED BY <1>1, <1>2, <1>3, <1>4, <1>5, OperationFrame

-----------------------------------------------------------------------------
(* The steps of ExecuteAction.                                                *)

LEMMA LookupStep ==
    ASSUME RemInv, NEW c \in Caller, ExecLookup(c)
    PROVE  RemInv'
<1>1. PICK a \in Action :
          call' = [call EXCEPT ![c] = [Idle EXCEPT !.pc = "claim", !.a = a, !.rb = book[act[a].id]]]
  BY DEF ExecLookup
<1>2. UNCHANGED <<commander, book, act, history, saves, plan, trace>>
  BY DEF ExecLookup
<1>3. /\ call'[c].pc = "claim" /\ call'[c].a = a
      /\ call' \in [Caller -> CallRec]
      /\ \A d \in Caller \ {c} : call'[d] = call[d]
  BY <1>1 DEF RemInv, TypeOK, CallRec, Idle, PCs
<1>4. TypeOK'
  BY <1>2, <1>3 DEF RemInv, TypeOK, CallRec
<1>5. Holds(c)'
  BY <1>3 DEF Holds, Owns, Stepping, Recording, RollingBack, Work
<1>6. ASSUME NEW b \in Action PROVE SameAction(b) /\ act'[b] = act[b]
  BY <1>2 DEF SameAction
<1>7. Kept(a)'
  BY <1>6, ActionUntouched DEF RemInv
<1>8. QED BY <1>3, <1>4, <1>5, <1>6, <1>7, CallerFrame DEF Work

LEMMA IdleTyped ==
    Idle \in CallRec
BY RemediationAssumption DEF CallRec, Idle, PCs, SomeBook

LEMMA ClaimStep ==
    ASSUME RemInv, NEW c \in Caller, ExecClaim(c)
    PROVE  RemInv'
<1>1. PICK a \in Action : a = Mine(c)
  BY DEF RemInv, Holds, Owns, ExecClaim, At, Mine
<1>2. call[c].pc = "claim" /\ UNCHANGED <<commander, book, history, saves, trace>>
  BY DEF ExecClaim, At
<1>3. CASE act[a].status \in {"pending", "approved"}
  <2>1. /\ act' = [act EXCEPT ![a].status = "running"]
        /\ plan' = [plan EXCEPT ![a] = call[c].rb]
        /\ call' = [call EXCEPT ![c].pc = "step", ![c].i = 1,
                                ![c].approved = act[a].status = "approved"]
    BY <1>1, <1>3 DEF ExecClaim, SetStatus
  <2>2. /\ call'[c].pc = "step" /\ call'[c].a = a /\ call'[c].rb = call[c].rb /\ call'[c].i = 1
        /\ call'[c].approved => act[a].status = "approved"
    <3>1. call[c].a = a /\ c \in DOMAIN call /\ \A q \in {"pc", "i", "approved", "a", "rb", "ok"} :
              q \in DOMAIN call[c]
      BY <1>1 DEF RemInv, TypeOK, Mine
    <3>2. call'[c] = [call[c] EXCEPT !.pc = "step", !.i = 1,
                                     !.approved = act[a].status = "approved"]
      BY <2>1, <3>1
    <3>3. QED BY <3>1, <3>2
  <2>3. \A d \in Caller \ {c} : call'[d] = call[d]
    BY <2>1 DEF RemInv, TypeOK
  <2>4. call' \in [Caller -> CallRec]
    <3>1. ASSUME NEW q \in CallRec, NEW yes \in BOOLEAN
          PROVE  [q EXCEPT !.pc = "step", !.i = 1, !.approved = yes] \in CallRec
      BY DEF CallRec, PCs
    <3>2. PICK yes \in BOOLEAN : yes = (act[a].status = "approved")
      OBVIOUS
    <3>3. call' = [call EXCEPT ![c] = [call[c] EXCEPT !.pc = "step", !.i = 1, !.approved = yes]]
      BY <2>1, <3>2 DEF RemInv, TypeOK
    <3>4. call \in [Caller -> CallRec]
      BY DEF RemInv, TypeOK, CallRec
    <3>5. QED BY <3>1, <3>3, <3>4
  <2>5. TypeOK'
    <3>1. act' \in [Action -> ActRec]
      <4>1. act \in [Action -> ActRec]
        BY DEF RemInv, TypeOK, ActRec
      <4>2. ASSUME NEW q \in ActRec PROVE [q EXCEPT !.status = "running"] \in ActRec
        BY DEF ActRec, Statuses
      <4>3. QED BY <2>1, <4>1, <4>2
    <3>2. plan' \in [Action -> Runbooks]
      BY <2>1 DEF RemInv, TypeOK
    <3>3. QED BY <1>2, <2>4, <3>1, <3>2 DEF RemInv, TypeOK, ActRec, CallRec
  <2>6. /\ trace'[a] = <<>> /\ act'[a].results = <<>> /\ act'[a].status = "running"
        /\ act[a].status = "approved" => act'[a].approved
        /\ plan'[a] = call[c].rb
    BY <1>2, <1>3, <2>1 DEF RemInv, TypeOK, Kept, Untouched
  <2>7. Kept(a)'
    BY <2>6 DEF Kept, Untouched, InOrder, Gate, Stops, Sound, Complete, Dos, Undos
  <2>8. Holds(c)'
    <3>1. Owns(c)'
      BY <2>2, <2>6 DEF Owns
    <3>2. Last(c)' \in Nat
      BY <2>5, RemediationAssumption DEF TypeOK, Last
    <3>3. Stepping(c)'
      BY <2>2, <2>6, <3>2 DEF Stepping, Mine, Recorded, Passed, GoesOn
    <3>4. QED BY <2>2, <3>1, <3>3 DEF Holds, Recording, RollingBack
  <2>9. ASSUME NEW b \in Action \ {a} PROVE SameAction(b) /\ act'[b] = act[b]
    BY <1>2, <2>1 DEF SameAction, RemInv, TypeOK
  <2>10. \A d \in Caller \ {c} : call[d].pc \in Work => call[d].a # a
    BY <1>3 DEF RemInv, Holds, Owns
  <2>11. QED BY <2>2, <2>3, <2>5, <2>7, <2>8, <2>9, <2>10, CallerFrame
<1>4. CASE act[a].status \notin {"pending", "approved"}
  <2>1. call' = [call EXCEPT ![c] = Idle] /\ UNCHANGED <<act, plan>>
    BY <1>1, <1>4 DEF ExecClaim, Return
  <2>2. call'[c] = Idle /\ \A d \in Caller \ {c} : call'[d] = call[d]
    BY <2>1 DEF RemInv, TypeOK
  <2>3. TypeOK'
    BY <1>2, <2>1, IdleTyped DEF RemInv, TypeOK, CallRec
  <2>4. Holds(c)'
    BY <2>2 DEF Holds, Owns, Stepping, Recording, RollingBack, Work, Idle
  <2>5. ASSUME NEW b \in Action PROVE SameAction(b) /\ act'[b] = act[b]
    BY <1>2, <2>1 DEF SameAction
  <2>6. Kept(a)'
    BY <2>5, ActionUntouched DEF RemInv
  <2>7. QED BY <2>2, <2>3, <2>4, <2>5, <2>6, CallerFrame DEF Work, Idle
<1>5. QED BY <1>3, <1>4

\* An owner, its action and the runbook it follows.
LEMMA Ownership ==
    ASSUME RemInv, NEW c \in Caller, call[c].pc \in Work, NEW a, a = Mine(c)
    PROVE  /\ a \in Action /\ a = call[c].a
           /\ call \in [Caller -> CallRec] /\ act \in [Action -> ActRec] /\ trace \in [Action -> Seq(Run)]
           /\ act[a].status \in {"running", "cancelled"}
           /\ plan[a] = call[c].rb
           /\ call[c].approved => act[a].approved
           /\ call[c].rb.steps = plan[a].steps /\ plan[a].steps \in Seq(Steps)
           /\ Last(c) = Len(plan[a].steps) /\ Last(c) \in Nat
           /\ \A d \in Caller \ {c} : call[d].pc \in Work => call[d].a # a
           /\ Kept(a)
<1>1. /\ a \in Action /\ a = call[c].a /\ plan[a] = call[c].rb
      /\ act[a].status \in {"running", "cancelled"}
      /\ call[c].approved => act[a].approved
  BY DEF RemInv, Holds, Owns, Mine, Work
<1>2. /\ call \in [Caller -> CallRec] /\ act \in [Action -> ActRec]
      /\ trace \in [Action -> Seq(Run)] /\ plan \in [Action -> Runbooks]
  BY DEF RemInv, TypeOK, CallRec, ActRec, Run
<1>3. plan[a].steps \in Seq(Steps)
  BY <1>1, <1>2, RemediationAssumption
<1>4. \A d \in Caller \ {c} : call[d].pc \in Work => call[d].a # a
  BY <1>1 DEF RemInv, OneOwner
<1>5. Kept(a)
  BY <1>1 DEF RemInv
<1>6. QED BY <1>1, <1>2, <1>3, <1>4, <1>5 DEF Last

LEMMA ResultAdded ==
    ASSUME act \in [Action -> ActRec], NEW a \in Action, NEW i \in Nat,
           NEW st \in {"pending", "success", "failed"}, AddResult(a, i, st)
    PROVE  /\ act' \in [Action -> ActRec]
           /\ act'[a].results = Append(act[a].results, [step |-> i, st |-> st])
           /\ act'[a].status = act[a].status /\ act'[a].approved = act[a].approved
           /\ act'[a].autonomy = act[a].autonomy
           /\ \A b \in Action \ {a} : act'[b] = act[b]
<1> DEFINE E  == [step : Nat, st : {"pending", "success", "failed"}]
           e  == [step |-> i, st |-> st]
           rs == Append(act[a].results, e)
<1>1. act' = [act EXCEPT ![a] = [act[a] EXCEPT !.results = rs]]
  BY DEF AddResult
<1>2. rs \in Seq(E)
  <2>1. act[a].results \in Seq(E) /\ e \in E
    BY DEF ActRec
  <2> HIDE DEF E, e
  <2>2. QED BY <2>1
<1>3. ASSUME NEW q \in ActRec, NEW r \in Seq(E)
      PROVE  /\ [q EXCEPT !.results = r] \in ActRec
             /\ [q EXCEPT !.results = r].results = r
             /\ [q EXCEPT !.results = r].status = q.status
             /\ [q EXCEPT !.results = r].approved = q.approved
             /\ [q EXCEPT !.results = r].autonomy = q.autonomy
  BY DEF ActRec
<1> HIDE DEF rs, E
<1>4. act[a] \in ActRec
  OBVIOUS
<1>5. act'[a] = [act[a] EXCEPT !.results = rs]
  BY <1>1
<1>6. act'[a] \in ActRec /\ \A b \in Action \ {a} : act'[b] = act[b]
  BY <1>1, <1>2, <1>3, <1>4
<1>7. act' \in [Action -> ActRec]
  BY <1>1, <1>5, <1>6
<1>8. QED BY <1>2, <1>3, <1>4, <1>5, <1>6, <1>7 DEF rs

LEMMA StatusSet ==
    ASSUME act \in [Action -> ActRec], NEW a \in Action, NEW st \in Statuses, SetStatus(a, st)
    PROVE  /\ act' \in [Action -> ActRec]
           /\ act'[a].status = st /\ act'[a].results = act[a].results
           /\ act'[a].approved = act[a].approved /\ act'[a].autonomy = act[a].autonomy
           /\ \A b \in Action \ {a} : act'[b] = act[b]
<1>1. act' = [act EXCEPT ![a] = [act[a] EXCEPT !.status = st]]
  BY DEF SetStatus
<1>2. ASSUME NEW q \in ActRec
      PROVE  /\ [q EXCEPT !.status = st] \in ActRec
             /\ [q EXCEPT !.status = st].results = q.results
             /\ [q EXCEPT !.status = st].status = st
             /\ [q EXCEPT !.status = st].approved = q.approved
             /\ [q EXCEPT !.status = st].autonomy = q.autonomy
  BY DEF ActRec
<1>3. QED BY <1>1, <1>2

\* A closed gate adds a result and ends the loop.
LEMMA GateStep ==
    ASSUME RemInv, NEW c \in Caller, ExecGate(c)
    PROVE  RemInv'
<1>1. PICK a : a = Mine(c)
  OBVIOUS
<1>2. /\ call[c].pc = "step" /\ AddResult(a, call[c].i, "pending")
      /\ call' = [call EXCEPT ![c].pc = "finish"]
      /\ UNCHANGED <<commander, book, history, saves, plan, trace>>
  BY <1>1 DEF ExecGate, At, Goto
<1>3. call[c].pc \in Work
  BY <1>2 DEF Work
<1>4. /\ a \in Action /\ a = call[c].a /\ call \in [Caller -> CallRec] /\ act \in [Action -> ActRec]
      /\ act[a].status \in {"running", "cancelled"} /\ plan[a] = call[c].rb
      /\ call[c].approved => act[a].approved
      /\ \A d \in Caller \ {c} : call[d].pc \in Work => call[d].a # a
      /\ Kept(a)
  BY <1>1, <1>3, Ownership
<1>5. /\ act' \in [Action -> ActRec] /\ act'[a].status = act[a].status
      /\ act'[a].approved = act[a].approved /\ act'[a].autonomy = act[a].autonomy
      /\ \A b \in Action \ {a} : act'[b] = act[b]
  <2>1. call[c].i \in Nat
    BY <1>4 DEF CallRec
  <2>2. QED BY <1>2, <1>4, <2>1, ResultAdded
<1>6. /\ call' \in [Caller -> CallRec] /\ call'[c].pc = "finish" /\ call'[c].a = a
      /\ call'[c].rb = call[c].rb /\ call'[c].approved = call[c].approved
      /\ \A d \in Caller \ {c} : call'[d] = call[d]
  BY <1>2, <1>4 DEF CallRec, PCs
<1>7. TypeOK'
  BY <1>2, <1>5, <1>6 DEF RemInv, TypeOK, ActRec, CallRec
<1>8. Holds(c)'
  BY <1>2, <1>4, <1>5, <1>6 DEF Holds, Owns, Stepping, Recording, RollingBack
<1>9. Kept(a)'
  BY <1>2, <1>4, <1>5, KeptWithStatus DEF Complete
<1>10. \A b \in Action \ {a} : SameAction(b) /\ act'[b] = act[b]
  BY <1>2, <1>5 DEF SameAction
<1>11. QED BY <1>4, <1>6, <1>7, <1>8, <1>9, <1>10, CallerFrame

\* Whatever the step does, it is the next in order and behind its gates.
LEMMA RunStep ==
    ASSUME RemInv, NEW c \in Caller, ExecRun(c)
    PROVE  RemInv'
<1>1. PICK a : a = Mine(c)
  OBVIOUS
<1>0. PICK i : i = call[c].i
  OBVIOUS
<1>2. PICK ok \in BOOLEAN :
        /\ call[c].pc = "step" /\ i <= Last(c) /\ ~GateClosed(c)
        /\ call' = [call EXCEPT ![c].pc = "record", ![c].ok = ok]
        /\ trace' = [trace EXCEPT ![a] = Append(@, Event("do", i, ok))]
        /\ UNCHANGED <<commander, book, act, history, saves, plan>>
  <2>1. StepResults(Cur(c)) \subseteq BOOLEAN
    BY DEF StepResults
  <2>2. QED BY <1>0, <1>1, <2>1 DEF ExecRun, At
<1>3. call[c].pc \in Work
  BY <1>2 DEF Work
<1>4. /\ a \in Action /\ a = call[c].a /\ call \in [Caller -> CallRec] /\ act \in [Action -> ActRec]
      /\ trace \in [Action -> Seq(Run)]
      /\ act[a].status \in {"running", "cancelled"} /\ plan[a] = call[c].rb
      /\ call[c].approved => act[a].approved
      /\ Last(c) = Len(plan[a].steps) /\ Last(c) \in Nat
      /\ \A d \in Caller \ {c} : call[d].pc \in Work => call[d].a # a
  BY <1>1, <1>3, Ownership
<1>5. /\ i \in 1..Last(c) /\ Len(trace[a]) = i - 1
      /\ Recorded(a, i - 1) /\ Passed(a, i - 1) /\ GoesOn(a, i - 1)
  <2>1. Stepping(c)
    BY DEF RemInv, Holds
  <2>2. QED BY <1>0, <1>1, <1>2, <1>4, <2>1 DEF Stepping
<1>6. /\ call' \in [Caller -> CallRec] /\ call'[c].pc = "record" /\ call'[c].a = a
      /\ call'[c].rb = call[c].rb /\ call'[c].approved = call[c].approved
      /\ call'[c].i = i /\ call'[c].ok = ok
      /\ \A d \in Caller \ {c} : call'[d] = call[d]
  <2>1. call' = [call EXCEPT ![c] = [call[c] EXCEPT !.pc = "record", !.ok = ok]]
    BY <1>2, <1>4
  <2>2. ASSUME NEW q \in CallRec
        PROVE  /\ [q EXCEPT !.pc = "record", !.ok = ok] \in CallRec
               /\ [q EXCEPT !.pc = "record", !.ok = ok].pc = "record"
               /\ [q EXCEPT !.pc = "record", !.ok = ok].ok = ok
               /\ [q EXCEPT !.pc = "record", !.ok = ok].a = q.a
               /\ [q EXCEPT !.pc = "record", !.ok = ok].rb = q.rb
               /\ [q EXCEPT !.pc = "record", !.ok = ok].i = q.i
               /\ [q EXCEPT !.pc = "record", !.ok = ok].approved = q.approved
    BY DEF CallRec, PCs
  <2>3. call[c] \in CallRec /\ call'[c] = [call[c] EXCEPT !.pc = "record", !.ok = ok]
        /\ \A d \in Caller \ {c} : call'[d] = call[d]
    BY <1>4, <2>1
  <2>4. call'[c] \in CallRec
    BY <2>2, <2>3
  <2>5. call' \in [Caller -> CallRec]
    BY <1>4, <2>1, <2>3, <2>4
  <2> DEFINE new == [call[c] EXCEPT !.pc = "record", !.ok = ok]
  <2>6. /\ new.pc = "record" /\ new.ok = ok /\ new.a = call[c].a
        /\ new.rb = call[c].rb /\ new.i = call[c].i /\ new.approved = call[c].approved
    BY <2>2, <2>3
  <2>7. call'[c] = new
    BY <2>3
  <2> HIDE DEF new
  <2>8. QED BY <1>0, <1>4, <2>3, <2>5, <2>6, <2>7
<1>7. /\ trace' \in [Action -> Seq(Run)] /\ Len(trace'[a]) = i
      /\ trace'[a][i] = Event("do", i, ok)
      /\ \A k \in 1..(i - 1) : trace'[a][k] = trace[a][k]
      /\ \A b \in Action \ {a} : trace'[b] = trace[b]
  <2>1. Event("do", i, ok) \in Run
    BY <1>5, <1>4 DEF Run, Event
  <2>2. trace[a] \in Seq(Run) /\ trace'[a] = Append(trace[a], Event("do", i, ok))
    BY <1>2, <1>4
  <2>3. i \in Nat /\ i >= 1
    BY <1>4, <1>5
  <2> HIDE DEF Run
  <2>4. Append(trace[a], Event("do", i, ok)) \in Seq(Run)
    BY <2>1, <2>2
  <2>5. /\ Len(trace'[a]) = i /\ trace'[a][i] = Event("do", i, ok)
        /\ \A k \in 1..(i - 1) : trace'[a][k] = trace[a][k]
    BY <1>5, <2>1, <2>2, <2>3
  <2>6. QED BY <1>2, <1>4, <2>4, <2>5
<1>8. TypeOK'
  BY <1>2, <1>6, <1>7 DEF RemInv, TypeOK, CallRec, Run
<1>9. Passed(a, i)
  <2>1. plan[a].steps[i].type = "approval" => act[a].approved \/ act[a].autonomy >= Automatic
    <3>1. Cur(c) = plan[a].steps[i]
      BY <1>0, <1>4 DEF Cur
    <3>2. act[a].autonomy \in 0..3
      BY <1>4 DEF ActRec
    <3>3. plan[a].steps[i].type = "approval" => ~(act[a].autonomy < Automatic) \/ call[c].approved
      BY <1>1, <1>2, <3>1 DEF GateClosed
    <3>4. ~(act[a].autonomy < Automatic) => act[a].autonomy >= Automatic
      BY <3>2 DEF Automatic
    <3>5. QED BY <1>4, <3>3, <3>4
  <2>2. QED BY <1>4, <1>5, <2>1 DEF Passed
<1>10. Holds(c)'
  <2>1. Owns(c)'
    BY <1>2, <1>4, <1>6 DEF Owns
  <2>2. Recorded(a, i - 1)' /\ Passed(a, i)' /\ GoesOn(a, i - 1)'
    BY <1>2, <1>5, <1>7, <1>9 DEF Recorded, Passed, GoesOn
  <2>3. Mine(c)' = a /\ Last(c)' = Last(c)
    BY <1>6 DEF Mine, Last
  <2>4. Recording(c)'
    BY <1>5, <1>6, <1>7, <2>2, <2>3 DEF Recording
  <2>5. QED BY <1>6, <2>1, <2>4 DEF Holds, Stepping, RollingBack
<1>11. Kept(a)'
  <2>0. ASSUME NEW k \in 1..i PROVE trace'[a][k].kind = "do" /\ trace'[a][k].step = k
    <3>1. CASE k = i
      BY <1>7, <3>1 DEF Event
    <3>2. CASE k \in 1..(i - 1)
      <4>1. trace'[a][k] = Event("do", k, trace[a][k].ok)
        BY <1>5, <1>7, <3>2 DEF Recorded
      <4>2. QED BY <4>1 DEF Event
    <3>3. QED BY <1>4, <1>5, <3>1, <3>2
  <2>1. Dos(a)' = 1..i /\ Undos(a)' = {}
    <3>1. DOMAIN trace'[a] = 1..i
      BY <1>4, <1>7
    <3>2. QED BY <2>0, <3>1 DEF Dos, Undos
  <2>2. Untouched(a)'
    BY <1>2, <1>4 DEF Untouched
  <2>3. InOrder(a)' /\ Gate(a)'
    BY <1>2, <1>4, <1>5, <1>9, <2>0, <2>1 DEF InOrder, Gate, Passed
  <2>4. Stops(a)'
    <3>1. ASSUME NEW k \in 1..i, ~trace'[a][k].ok
          PROVE  plan'[a].steps[k].onFailure \in {"stop", "rollback"} => k = i
      BY <1>2, <1>4, <1>5, <1>7, <3>1 DEF GoesOn
    <3>2. \A k \in 1..i : k = i => \A l \in 1..i : l <= k
      BY <1>4
    <3>3. QED BY <2>0, <2>1, <3>1, <3>2 DEF Stops, StepOf
  <2>5. Sound(a)' /\ Complete(a)'
    BY <1>2, <1>4, <2>1 DEF Sound, Complete
  <2>6. QED BY <2>2, <2>3, <2>4, <2>5 DEF Kept
<1>12. \A b \in Action \ {a} : SameAction(b) /\ act'[b] = act[b]
  BY <1>2, <1>7 DEF SameAction
<1>13. QED BY <1>4, <1>6, <1>8, <1>10, <1>11, <1>12, CallerFrame

\* The result of the step that ran is recorded, and its policy followed.
LEMMA RecordStep ==
    ASSUME RemInv, NEW c \in Caller, ExecRecord(c)
    PROVE  RemInv'
<1>0. PICK i : i = call[c].i
  OBVIOUS
<1>1. PICK a : a = Mine(c)
  OBVIOUS
<1>2. /\ call[c].pc = "record"
      /\ AddResult(a, i, IF call[c].ok THEN "success" ELSE "failed")
      /\ UNCHANGED <<commander, book, history, saves, plan, trace>>
  BY <1>0, <1>1 DEF ExecRecord, At
<1>3. call[c].pc \in Work
  BY <1>2 DEF Work
<1>4. /\ a \in Action /\ a = call[c].a /\ call \in [Caller -> CallRec] /\ act \in [Action -> ActRec]
      /\ trace \in [Action -> Seq(Run)]
      /\ act[a].status \in {"running", "cancelled"} /\ plan[a] = call[c].rb
      /\ call[c].approved => act[a].approved
      /\ Last(c) = Len(plan[a].steps) /\ Last(c) \in Nat
      /\ \A d \in Caller \ {c} : call[d].pc \in Work => call[d].a # a
      /\ Kept(a)
  BY <1>1, <1>3, Ownership
<1>5. /\ i \in 1..Last(c) /\ Len(trace[a]) = i
      /\ trace[a][i] = Event("do", i, call[c].ok)
      /\ Recorded(a, i - 1) /\ Passed(a, i) /\ GoesOn(a, i - 1)
  <2>1. Recording(c)
    BY DEF RemInv, Holds
  <2>2. QED BY <1>0, <1>1, <1>2, <1>4, <2>1 DEF Recording
<1>6. trace[a][i].kind = "do" /\ trace[a][i].step = i /\ trace[a][i].ok = call[c].ok
  BY <1>5 DEF Event
<1>7. /\ act' \in [Action -> ActRec] /\ act'[a].status = act[a].status
      /\ act'[a].results = Append(act[a].results,
                                  [step |-> i, st |-> IF call[c].ok THEN "success" ELSE "failed"])
      /\ act'[a].approved = act[a].approved /\ act'[a].autonomy = act[a].autonomy
      /\ \A b \in Action \ {a} : act'[b] = act[b]
  <2>1. i \in Nat
    BY <1>4, <1>5
  <2>2. QED BY <1>2, <1>4, <2>1, ResultAdded
<1>8. Recorded(a, i)'
  <2>1. act[a].results \in Seq([step : Nat, st : {"pending", "success", "failed"}])
    BY <1>4 DEF ActRec
  <2>2. Len(act[a].results) = i - 1 /\ i \in Nat
    <3>1. Len(act[a].results) = i - 1
      BY <1>5 DEF Recorded
    <3>2. QED BY <1>4, <1>5, <3>1
  <2>3. /\ Len(act'[a].results) = i
        /\ act'[a].results[i] = [step |-> i, st |-> IF call[c].ok THEN "success" ELSE "failed"]
        /\ \A k \in 1..(i - 1) : act'[a].results[k] = act[a].results[k]
    BY <1>7, <2>1, <2>2
  <2>4. ASSUME NEW k \in 1..i
        PROVE  /\ trace'[a][k] = Event("do", k, trace'[a][k].ok)
               /\ act'[a].results[k] =
                    [step |-> k, st |-> IF trace'[a][k].ok THEN "success" ELSE "failed"]
    <3>1. CASE k = i
      BY <1>2, <1>5, <1>6, <2>3, <3>1
    <3>2. CASE k \in 1..(i - 1)
      BY <1>2, <1>5, <2>3, <3>2 DEF Recorded
    <3>3. QED BY <2>2, <3>1, <3>2
  <2>5. QED BY <2>3, <2>4 DEF Recorded
<1>9. /\ call' \in [Caller -> CallRec] /\ call'[c].a = a
      /\ call'[c].rb = call[c].rb /\ call'[c].approved = call[c].approved
      /\ \/ call'[c].pc = "stop"
         \/ /\ call'[c].pc = "rollback" /\ call'[c].i = Last(c)
            /\ ~call[c].ok /\ Cur(c).onFailure = "rollback"
         \/ /\ call'[c].pc = "step" /\ call'[c].i = i + 1
            /\ call[c].ok \/ Cur(c).onFailure \notin {"stop", "rollback"}
      /\ \A d \in Caller \ {c} : call'[d] = call[d]
  <2>1. CASE ~call[c].ok /\ Cur(c).onFailure = "stop"
    <3>1. call' = [call EXCEPT ![c] = [call[c] EXCEPT !.pc = "stop"]]
      BY <2>1 DEF ExecRecord
    <3>2. call[c] \in CallRec
      BY <1>4
    <3>3. [call[c] EXCEPT !.pc = "stop"] \in CallRec
      BY <3>2 DEF CallRec, PCs
    <3>4. /\ call' \in [Caller -> CallRec] /\ \A d \in Caller \ {c} : call'[d] = call[d]
          /\ call'[c] = [call[c] EXCEPT !.pc = "stop"]
      BY <1>4, <3>1, <3>3
    <3>5. /\ call'[c].pc = "stop" /\ call'[c].a = call[c].a
          /\ call'[c].rb = call[c].rb /\ call'[c].approved = call[c].approved
      BY <3>2, <3>4 DEF CallRec
    <3>6. QED BY <1>4, <3>4, <3>5
  <2>2. CASE ~call[c].ok /\ Cur(c).onFailure = "rollback"
    <3>1. call' = [call EXCEPT ![c] = [call[c] EXCEPT !.pc = "rollback", !.i = Last(c), !.ok = FALSE]]
      BY <2>2 DEF ExecRecord
    <3>0. ASSUME NEW q \in CallRec, NEW n \in Nat
          PROVE  [q EXCEPT !.pc = "rollback", !.i = n, !.ok = FALSE] \in CallRec
      BY DEF CallRec, PCs
    <3>4. call[c] \in CallRec
      BY <1>4
    <3>2. [call[c] EXCEPT !.pc = "rollback", !.i = Last(c), !.ok = FALSE] \in CallRec
      BY <1>4, <3>0, <3>4
    <3>3. /\ call' \in [Caller -> CallRec] /\ \A d \in Caller \ {c} : call'[d] = call[d]
          /\ call'[c] = [call[c] EXCEPT !.pc = "rollback", !.i = Last(c), !.ok = FALSE]
      BY <1>4, <3>1, <3>2
    <3>5. /\ call'[c].pc = "rollback" /\ call'[c].i = Last(c) /\ call'[c].a = call[c].a
          /\ call'[c].rb = call[c].rb /\ call'[c].approved = call[c].approved
      BY <3>3, <3>4 DEF CallRec
    <3>6. QED BY <1>4, <2>2, <3>3, <3>5
  <2>3. CASE call[c].ok \/ Cur(c).onFailure \notin {"stop", "rollback"}
    <3>1. ~(~call[c].ok /\ Cur(c).onFailure = "stop") /\ ~(~call[c].ok /\ Cur(c).onFailure = "rollback")
      BY <2>3
    <3>2. call' = [call EXCEPT ![c] = [call[c] EXCEPT !.pc = "step", !.i = call[c].i + 1, !.ok = FALSE]]
      <4> DEFINE A == ~call[c].ok /\ Cur(c).onFailure = "stop"
                 B == ~call[c].ok /\ Cur(c).onFailure = "rollback"
                 x == [call[c] EXCEPT !.pc = "stop"]
                 y == [call[c] EXCEPT !.pc = "rollback", !.i = Last(c), !.ok = FALSE]
                 z == [call[c] EXCEPT !.pc = "step", !.i = call[c].i + 1, !.ok = FALSE]
      <4>1. call' = [call EXCEPT ![c] = IF A THEN x ELSE IF B THEN y ELSE z]
        BY DEF ExecRecord
      <4>2. ~A /\ ~B
        BY <3>1
      <4> HIDE DEF A, B, x, y, z
      <4>3. call' = [call EXCEPT ![c] = z]
        BY <4>1, <4>2
      <4>4. QED BY <4>3 DEF z
    <3>3. i + 1 \in Nat
      BY <1>4, <1>5
    <3>4. ASSUME NEW q \in CallRec, NEW n \in Nat
          PROVE  /\ [q EXCEPT !.pc = "step", !.i = n, !.ok = FALSE] \in CallRec
                 /\ [q EXCEPT !.pc = "step", !.i = n, !.ok = FALSE].pc = "step"
                 /\ [q EXCEPT !.pc = "step", !.i = n, !.ok = FALSE].i = n
                 /\ [q EXCEPT !.pc = "step", !.i = n, !.ok = FALSE].a = q.a
                 /\ [q EXCEPT !.pc = "step", !.i = n, !.ok = FALSE].rb = q.rb
                 /\ [q EXCEPT !.pc = "step", !.i = n, !.ok = FALSE].approved = q.approved
      BY DEF CallRec, PCs
    <3> DEFINE new == [call[c] EXCEPT !.pc = "step", !.i = i + 1, !.ok = FALSE]
    <3>5. call' = [call EXCEPT ![c] = new]
      BY <1>0, <3>2
    <3>6. /\ new \in CallRec /\ new.pc = "step" /\ new.i = i + 1 /\ new.a = call[c].a
          /\ new.rb = call[c].rb /\ new.approved = call[c].approved
      <4>1. call[c] \in CallRec
        BY <1>4
      <4>2. QED BY <3>3, <3>4, <4>1
    <3> HIDE DEF new
    <3>7. QED BY <1>4, <2>3, <3>5, <3>6
  <2>4. QED BY <2>1, <2>2, <2>3
<1>10. TypeOK'
  BY <1>2, <1>7, <1>9 DEF RemInv, TypeOK, ActRec, CallRec
<1>11. Cur(c) = plan[a].steps[i]
  BY <1>0, <1>4 DEF Cur
<1>12. Owns(c)'
  BY <1>2, <1>4, <1>7, <1>9 DEF Owns
<1>13. Mine(c)' = a /\ Last(c)' = Last(c)
  BY <1>9 DEF Mine, Last
<1>14. Holds(c)'
  <2>1. CASE call'[c].pc = "stop"
    BY <1>12, <2>1 DEF Holds, Stepping, Recording, RollingBack
  <2>2. CASE call'[c].pc = "step"
    <3>1. GoesOn(a, i)'
      BY <1>2, <1>4, <1>5, <1>6, <1>9, <1>11, <2>2 DEF GoesOn
    <3>2. Passed(a, i)'
      BY <1>2, <1>5, <1>7 DEF Passed
    <3>3. Stepping(c)'
      BY <1>2, <1>4, <1>5, <1>8, <1>9, <1>13, <2>2, <3>1, <3>2 DEF Stepping
    <3>4. QED BY <1>12, <2>2, <3>3 DEF Holds, Recording, RollingBack
  <2>3. CASE call'[c].pc = "rollback"
    <3>1. ~call[c].ok /\ plan[a].steps[i].onFailure = "rollback" /\ call'[c].i = Last(c)
      BY <1>9, <1>11, <2>3
    <3>2. ASSUME NEW k \in 1..i PROVE trace[a][k].kind = "do"
      <4>1. CASE k = i
        BY <1>6, <4>1
      <4>2. CASE k \in 1..(i - 1)
        <5>1. trace[a][k] = Event("do", k, trace[a][k].ok)
          BY <1>5, <4>2 DEF Recorded
        <5>2. QED BY <5>1 DEF Event
      <4>3. QED BY <1>4, <1>5, <4>1, <4>2
    <3>3. DOMAIN trace[a] = 1..i
      BY <1>4, <1>5
    <3>4. Dos(a)' = 1..i /\ Undos(a)' = {}
      BY <1>2, <3>2, <3>3 DEF Dos, Undos
    <3>5. ASSUME NEW k \in 1..i PROVE trace'[a][k].ok \/ plan'[a].steps[k].onFailure # "stop"
      <4>1. CASE k = i
        BY <1>2, <3>1, <4>1
      <4>2. CASE k \in 1..(i - 1)
        BY <1>2, <1>5, <4>2 DEF GoesOn
      <4>3. QED BY <1>4, <1>5, <4>1, <4>2
    <3>6. Len(act'[a].results) = i
      BY <1>8 DEF Recorded
    <3>7. RollingBack(c)'
      <4>1. \A k \in Dos(a)' : ~(k > call'[c].i)
        BY <1>4, <1>5, <3>1, <3>4
      <4>2. call'[c].i \in 0..Last(c) /\ i <= Last(c) /\ i <= Len(trace'[a])
        BY <1>2, <1>4, <1>5, <3>1
      <4>3. QED BY <1>8, <1>13, <3>4, <3>5, <3>6, <4>1, <4>2 DEF RollingBack
    <3>8. QED BY <1>12, <2>3, <3>7 DEF Holds, Stepping, Recording
  <2>4. QED BY <1>9, <2>1, <2>2, <2>3
<1>15. Kept(a)'
  BY <1>2, <1>4, <1>7, KeptWithStatus DEF Complete
<1>16. \A b \in Action \ {a} : SameAction(b) /\ act'[b] = act[b]
  BY <1>2, <1>7 DEF SameAction
<1>17. QED BY <1>4, <1>9, <1>10, <1>14, <1>15, <1>16, CallerFrame

LEMMA AppendFacts ==
    ASSUME NEW R, NEW seq \in Seq(R), NEW e \in R
    PROVE  /\ Append(seq, e) \in Seq(R) /\ Len(seq) \in Nat /\ Len(Append(seq, e)) = Len(seq) + 1
           /\ DOMAIN seq = 1..Len(seq) /\ DOMAIN Append(seq, e) = 1..(Len(seq) + 1)
           /\ Append(seq, e)[Len(seq) + 1] = e
           /\ \A k \in 1..Len(seq) : Append(seq, e)[k] = seq[k]
OBVIOUS

\* A command of a step that succeeded is undone, above which all are.
LEMMA UndoStep ==
    ASSUME RemInv, NEW c \in Caller, Undo(c)
    PROVE  RemInv'
<1>0. PICK i : i = call[c].i
  OBVIOUS
<1>1. PICK a : a = Mine(c)
  OBVIOUS
<1>2. /\ call[c].pc = "rollback" /\ i >= 1
      /\ call' = [call EXCEPT ![c].i = @ - 1]
      /\ IF Cur(c).rollback /\ Completed(a, i)
         THEN trace' = [trace EXCEPT ![a] = Append(@, Event("undo", i, TRUE))]
         ELSE UNCHANGED trace
      /\ UNCHANGED <<commander, book, act, history, saves, plan>>
  BY <1>0, <1>1 DEF Undo, At
<1>3. call[c].pc \in Work
  BY <1>2 DEF Work
<1>4. /\ a \in Action /\ a = call[c].a /\ call \in [Caller -> CallRec] /\ act \in [Action -> ActRec]
      /\ trace \in [Action -> Seq(Run)]
      /\ act[a].status \in {"running", "cancelled"} /\ plan[a] = call[c].rb
      /\ call[c].approved => act[a].approved
      /\ Last(c) = Len(plan[a].steps) /\ Last(c) \in Nat
      /\ \A d \in Caller \ {c} : call[d].pc \in Work => call[d].a # a
      /\ Kept(a)
  BY <1>1, <1>3, Ownership
<1>5. PICK n : n = Len(act[a].results)
  OBVIOUS
<1>6. /\ i \in 0..Last(c) /\ n <= Last(c) /\ n <= Len(trace[a]) /\ Recorded(a, n) /\ Dos(a) = 1..n
      /\ \A k \in Dos(a) : trace[a][k].ok \/ plan[a].steps[k].onFailure # "stop"
      /\ \A l \in Undos(a) : trace[a][l].step > i
      /\ \A k \in Dos(a) : trace[a][k].ok /\ plan[a].steps[k].rollback /\ k > i
             => \E l \in Undos(a) : trace[a][l].step = k
  <2>1. RollingBack(c)
    BY DEF RemInv, Holds
  <2>2. QED BY <1>0, <1>1, <1>2, <1>5, <2>1 DEF RollingBack
<1>7. /\ i \in Nat /\ n \in Nat /\ i >= 1
  <2>1. act[a].results \in Seq([step : Nat, st : {"pending", "success", "failed"}])
    BY <1>4 DEF ActRec
  <2>2. n \in Nat
    BY <1>5, <2>1
  <2>3. QED BY <1>2, <1>4, <1>6, <2>2
<1>8. Completed(a, i) <=> i \in 1..n /\ trace[a][i].ok
  <2>1. ASSUME NEW k \in 1..n
        PROVE  act[a].results[k] = [step |-> i, st |-> "success"] <=> (k = i /\ trace[a][k].ok)
    <3>1. act[a].results[k] = [step |-> k, st |-> IF trace[a][k].ok THEN "success" ELSE "failed"]
      BY <1>6 DEF Recorded
    <3>2. /\ act[a].results[k].step = k
          /\ act[a].results[k].st = IF trace[a][k].ok THEN "success" ELSE "failed"
      BY <3>1
    <3>3. QED BY <3>1, <3>2
  <2>2. QED BY <1>5, <2>1 DEF Completed
<1>9. Cur(c) = plan[a].steps[i]
  BY <1>0, <1>4 DEF Cur
<1>10. /\ call' \in [Caller -> CallRec] /\ call'[c].pc = "rollback" /\ call'[c].a = a
       /\ call'[c].rb = call[c].rb /\ call'[c].approved = call[c].approved
       /\ call'[c].i = i - 1
       /\ \A d \in Caller \ {c} : call'[d] = call[d]
  <2>1. call' = [call EXCEPT ![c] = [call[c] EXCEPT !.i = i - 1]] /\ i - 1 \in Nat
    BY <1>0, <1>2, <1>4, <1>7
  <2>2. ASSUME NEW q \in CallRec, NEW m \in Nat
        PROVE  /\ [q EXCEPT !.i = m] \in CallRec /\ [q EXCEPT !.i = m].i = m
               /\ [q EXCEPT !.i = m].pc = q.pc /\ [q EXCEPT !.i = m].a = q.a
               /\ [q EXCEPT !.i = m].rb = q.rb /\ [q EXCEPT !.i = m].approved = q.approved
    BY DEF CallRec
  <2> DEFINE new == [call[c] EXCEPT !.i = i - 1]
  <2>3. /\ new \in CallRec /\ new.i = i - 1 /\ new.pc = call[c].pc /\ new.a = call[c].a
        /\ new.rb = call[c].rb /\ new.approved = call[c].approved
    <3>1. call[c] \in CallRec
      BY <1>4
    <3>2. QED BY <2>1, <2>2, <3>1
  <2>4. call' = [call EXCEPT ![c] = new]
    BY <2>1
  <2> HIDE DEF new
  <2>5. QED BY <1>2, <1>4, <2>3, <2>4
<1>11. Owns(c)'
  BY <1>2, <1>4, <1>10 DEF Owns
<1>12. Mine(c)' = a /\ Last(c)' = Last(c)
  BY <1>10 DEF Mine, Last
<1>13. \A b \in Action \ {a} : SameAction(b) /\ act'[b] = act[b]
  BY <1>2, <1>4 DEF SameAction
<1>14. CASE Cur(c).rollback /\ Completed(a, i)
  <2>1. i \in 1..n /\ trace[a][i].ok /\ plan[a].steps[i].rollback
    BY <1>8, <1>9, <1>14
  <2>2. PICK m : m = Len(trace[a]) + 1
    OBVIOUS
  <2>3. trace[a] \in Seq(Run) /\ m \in Nat /\ n < m
    BY <1>4, <1>6, <1>7, <2>2
  <2>4. Event("undo", i, TRUE) \in Run /\ trace'[a] = Append(trace[a], Event("undo", i, TRUE))
    BY <1>2, <1>4, <1>7, <1>14 DEF Run, Event
  <2>5. /\ trace'[a] \in Seq(Run) /\ DOMAIN trace'[a] = 1..m /\ DOMAIN trace[a] = 1..(m - 1)
        /\ Len(trace'[a]) = m /\ trace'[a][m] = Event("undo", i, TRUE)
        /\ \A k \in 1..(m - 1) : trace'[a][k] = trace[a][k]
    <3>1. Len(trace[a]) = m - 1
      BY <1>4, <2>2, <2>3
    <3>2. /\ trace'[a] \in Seq(Run) /\ Len(trace'[a]) = Len(trace[a]) + 1
          /\ DOMAIN trace[a] = 1..Len(trace[a]) /\ DOMAIN trace'[a] = 1..(Len(trace[a]) + 1)
          /\ trace'[a][Len(trace[a]) + 1] = Event("undo", i, TRUE)
          /\ \A k \in 1..Len(trace[a]) : trace'[a][k] = trace[a][k]
      <4>1. PICK q, e : q = trace[a] /\ e = Event("undo", i, TRUE)
        OBVIOUS
      <4>2. q \in Seq(Run) /\ e \in Run /\ trace'[a] = Append(q, e)
        BY <2>3, <2>4, <4>1
      <4>3. /\ Append(q, e) \in Seq(Run) /\ Len(Append(q, e)) = Len(q) + 1
            /\ DOMAIN q = 1..Len(q) /\ DOMAIN Append(q, e) = 1..(Len(q) + 1)
            /\ Append(q, e)[Len(q) + 1] = e
            /\ \A k \in 1..Len(q) : Append(q, e)[k] = q[k]
        BY <4>2, AppendFacts
      <4>4. QED BY <4>1, <4>2, <4>3
    <3>3. Len(trace[a]) + 1 = m
      BY <2>2
    <3>4. QED BY <3>1, <3>2, <3>3
  <2>6. trace'[a][m].kind = "undo" /\ trace'[a][m].step = i
    BY <2>5 DEF Event
  <2>7. DOMAIN trace'[a] = (DOMAIN trace[a]) \cup {m} /\ m \notin DOMAIN trace[a]
    <3>1. 1..m = (1..(m - 1)) \cup {m} /\ m \notin 1..(m - 1)
      BY <2>3, <1>7
    <3>2. QED BY <2>5, <3>1
  <2> HIDE DEF Event
  <2>8. Dos(a)' = Dos(a)
    <3>1. \A k \in DOMAIN trace[a] : trace'[a][k] = trace[a][k]
      BY <2>5
    <3>2. QED BY <2>6, <2>7, <3>1 DEF Dos
  <2>9. Undos(a)' = Undos(a) \cup {m}
    <3>1. \A k \in DOMAIN trace[a] : trace'[a][k] = trace[a][k]
      BY <2>5
    <3>2. QED BY <2>6, <2>7, <3>1 DEF Undos
  <2>10. /\ \A k \in Dos(a) : trace'[a][k] = trace[a][k]
         /\ \A k \in Undos(a) : trace'[a][k] = trace[a][k] /\ k < m
    BY <2>3, <2>5 DEF Dos, Undos
  <2>11. TypeOK'
    <3>1. trace' \in [Action -> Seq(Run)]
      BY <1>2, <1>4, <1>14, <2>5
    <3>2. QED BY <1>2, <1>10, <3>1 DEF RemInv, TypeOK, CallRec, Run
  <2>12. RollingBack(c)'
    <3>1. Recorded(a, n)'
      BY <1>2, <1>6, <2>3, <2>5 DEF Recorded
    <3>2. \A l \in Undos(a)' : trace'[a][l].step > i - 1
      <4>1. ASSUME NEW l \in Undos(a) PROVE trace'[a][l].step > i - 1
        <5>1. trace[a][l] \in Run
          BY <2>3 DEF Undos
        <5>2. trace[a][l].step \in Nat
          BY <5>1 DEF Run
        <5>3. QED BY <1>6, <1>7, <2>10, <5>2
      <4>2. QED BY <1>7, <2>6, <2>9, <4>1
    <3>3. ASSUME NEW k \in Dos(a), trace[a][k].ok /\ plan[a].steps[k].rollback /\ k > i - 1
          PROVE  \E l \in Undos(a)' : trace'[a][l].step = k
      <4>1. CASE k = i
        BY <2>6, <2>9, <4>1
      <4>2. CASE k # i
        <5>1. k > i
          BY <1>6, <1>7, <3>3, <4>2
        <5>2. QED BY <1>6, <2>9, <2>10, <3>3, <5>1
      <4>3. QED BY <4>1, <4>2
    <3>4. i - 1 \in 0..Last(c) /\ n <= Len(trace'[a])
      BY <1>4, <1>6, <1>7, <2>3, <2>5
    <3>5. /\ \A k \in Dos(a)' : trace'[a][k].ok \/ plan'[a].steps[k].onFailure # "stop"
          /\ \A k \in Dos(a)' : trace'[a][k].ok /\ plan'[a].steps[k].rollback /\ k > i - 1
                 => \E l \in Undos(a)' : trace'[a][l].step = k
      BY <1>2, <1>6, <2>8, <2>10, <3>3
    <3>6. QED BY <1>2, <1>5, <1>6, <1>10, <1>12, <2>8, <3>1, <3>2, <3>4, <3>5 DEF RollingBack
  <2>13. Holds(c)'
    BY <1>10, <1>11, <2>12 DEF Holds, Stepping, Recording
  <2>14. Untouched(a)' /\ Complete(a)'
    BY <1>2, <1>4 DEF Untouched, Complete
  <2>15. InOrder(a)' /\ Gate(a)'
    <3>1. InOrder(a) /\ Gate(a) /\ UNCHANGED <<act, plan>>
      BY <1>2, <1>4 DEF Kept
    <3>2. InOrder(a)'
      BY <2>8, <2>10, <3>1 DEF InOrder
    <3>3. Gate(a)'
      BY <2>8, <2>10, <3>1 DEF Gate
    <3>4. QED BY <3>2, <3>3
  <2>16. Stops(a)'
    <3>1. ASSUME NEW k \in Dos(a), ~trace[a][k].ok
          PROVE  /\ StepOf(a, k) = plan[a].steps[k] /\ StepOf(a, k).onFailure # "stop"
                 /\ StepOf(a, k).onFailure \in {"stop", "rollback"} => \A l \in Dos(a) : l <= k
      <4>1. trace[a][k].step = k
        BY <1>4 DEF Kept, InOrder
      <4>2. QED BY <1>4, <1>6, <3>1, <4>1 DEF Kept, Stops, StepOf
    <3>2. \A k \in Dos(a) : StepOf(a, k)' = StepOf(a, k)
      BY <1>2, <2>10 DEF StepOf
    <3>3. QED BY <2>8, <2>10, <3>1, <3>2 DEF Stops
  <2>17. Sound(a)'
    <3>1. \A k \in Dos(a) : StepOf(a, k)' = StepOf(a, k)
      BY <1>2, <2>10 DEF StepOf
    <3>2. ASSUME NEW k \in Undos(a)
          PROVE  /\ \E l \in Dos(a) : /\ trace'[a][l].step = trace'[a][k].step /\ trace'[a][l].ok
                                      /\ StepOf(a, l)'.rollback
                 /\ \A l \in Undos(a)' : l < k => trace'[a][l].step > trace'[a][k].step
      <4>1. /\ \E l \in Dos(a) : /\ trace[a][l].step = trace[a][k].step /\ trace[a][l].ok
                                  /\ StepOf(a, l).rollback
            /\ \A l \in Undos(a) : l < k => trace[a][l].step > trace[a][k].step
        BY <1>4 DEF Kept, Sound
      <4>2. k \in Nat /\ k < m
        BY <2>3, <2>5, <2>10 DEF Undos
      <4>3. ASSUME NEW l \in Undos(a)', l < k PROVE trace'[a][l].step > trace'[a][k].step
        <5>1. l \in Undos(a)
          BY <2>3, <2>9, <4>2, <4>3
        <5>2. QED BY <2>10, <4>1, <4>3, <5>1
      <4>4. QED BY <2>10, <3>1, <4>1, <4>3
    <3>3. /\ i \in Dos(a) /\ trace'[a][i].step = i /\ trace'[a][i].ok /\ StepOf(a, i)'.rollback
      <4>1. i \in Dos(a)
        BY <1>6, <2>1
      <4>2. trace[a][i].step = i
        BY <1>4, <4>1 DEF Kept, InOrder
      <4>3. QED BY <2>1, <2>10, <3>1, <4>1, <4>2 DEF StepOf
    <3>4. \A l \in Undos(a)' : l < m => trace'[a][l].step > i
      BY <1>6, <2>3, <2>9, <2>10
    <3>5. QED BY <2>6, <2>8, <2>9, <3>2, <3>3, <3>4 DEF Sound
  <2>18. Kept(a)'
    BY <2>14, <2>15, <2>16, <2>17 DEF Kept
  <2>19. QED BY <1>4, <1>10, <1>13, <2>11, <2>13, <2>18, CallerFrame
<1>15. CASE ~(Cur(c).rollback /\ Completed(a, i))
  <2>1. UNCHANGED trace
    BY <1>2, <1>15
  <2>2. Dos(a)' = Dos(a) /\ Undos(a)' = Undos(a)
    BY <2>1 DEF Dos, Undos
  <2>3. TypeOK'
    BY <1>2, <1>10, <2>1 DEF RemInv, TypeOK, CallRec
  <2>4. RollingBack(c)'
    <3>1. Recorded(a, n)'
      BY <1>2, <1>6, <2>1 DEF Recorded
    <3>2. \A l \in Undos(a) : trace[a][l].step > i - 1
      <4>1. ASSUME NEW l \in Undos(a) PROVE trace[a][l].step > i - 1
        <5>1. trace[a][l] \in Run
          BY <1>4 DEF Undos
        <5>2. trace[a][l].step \in Nat
          BY <5>1 DEF Run
        <5>3. QED BY <1>6, <1>7, <5>2
      <4>2. QED BY <4>1
    <3>3. ASSUME NEW k \in Dos(a), trace[a][k].ok /\ plan[a].steps[k].rollback /\ k > i - 1
          PROVE  k > i
      BY <1>6, <1>7, <1>8, <1>9, <1>15, <3>3
    <3>4. i - 1 \in 0..Last(c)
      BY <1>4, <1>6, <1>7
    <3>5. QED BY <1>2, <1>5, <1>6, <1>10, <1>12, <2>1, <2>2, <3>1, <3>2, <3>3, <3>4 DEF RollingBack
  <2>5. Holds(c)'
    BY <1>10, <1>11, <2>4 DEF Holds, Stepping, Recording
  <2>6. SameAction(a) /\ act'[a] = act[a]
    BY <1>2, <2>1 DEF SameAction
  <2>7. Kept(a)'
    BY <1>4, <2>6, ActionUntouched
  <2>8. QED BY <1>4, <1>10, <1>13, <2>3, <2>5, <2>7, CallerFrame
<1>16. QED BY <1>14, <1>15

\* A step that only sets the status of the action and returns or goes on to
\* the history, or to nowhere a caller owns its action.
LEMMA LeaveStep ==
    ASSUME RemInv, NEW c \in Caller, call[c].pc \in Work,
           NEW st \in Statuses \ {"none", "pending", "approved"}, SetStatus(Mine(c), st),
           st = "rolled_back" => call[c].pc = "rollback" /\ call[c].i = 0,
           Return(c) \/ Goto(c, "history"),
           UNCHANGED <<commander, book, history, saves, plan, trace>>
    PROVE  RemInv'
<1>1. PICK a : a = Mine(c)
  OBVIOUS
<1>2. /\ a \in Action /\ a = call[c].a /\ call \in [Caller -> CallRec] /\ act \in [Action -> ActRec]
      /\ plan[a] = call[c].rb
      /\ Last(c) = Len(plan[a].steps) /\ Last(c) \in Nat
      /\ \A d \in Caller \ {c} : call[d].pc \in Work => call[d].a # a
      /\ Kept(a)
  BY <1>1, Ownership
<1>3. /\ act' \in [Action -> ActRec]
      /\ act'[a].status = st /\ act'[a].results = act[a].results
      /\ act'[a].approved = act[a].approved /\ act'[a].autonomy = act[a].autonomy
      /\ \A b \in Action \ {a} : act'[b] = act[b]
  BY <1>1, <1>2, StatusSet
<1>4. /\ call' \in [Caller -> CallRec] /\ call'[c].pc \in {"idle", "history"}
      /\ call'[c].pc = "history" => call'[c].a = a
      /\ \A d \in Caller \ {c} : call'[d] = call[d]
  <2>1. CASE Return(c)
    BY <1>2, <2>1, IdleTyped DEF Return, Idle
  <2>2. CASE Goto(c, "history")
    BY <1>2, <2>2 DEF Goto, CallRec, PCs
  <2>3. QED BY <2>1, <2>2
<1>5. TypeOK'
  BY <1>3, <1>4 DEF RemInv, TypeOK, ActRec, CallRec
<1>6. Holds(c)'
  BY <1>2, <1>4 DEF Holds, Owns, Stepping, Recording, RollingBack, Work
<1>7. Complete(a)'
  <2>1. SUFFICES ASSUME st = "rolled_back" PROVE Complete(a)'
    BY <1>3 DEF Complete
  <2>2. /\ \A k \in Dos(a) : trace[a][k].ok /\ plan[a].steps[k].rollback /\ k > 0
               => \E l \in Undos(a) : trace[a][l].step = k
        /\ \A k \in Dos(a) : k \in Nat /\ k > 0
    <3>1. RollingBack(c)
      BY DEF RemInv, Holds
    <3>2. PICK n : n = Len(act[a].results)
      OBVIOUS
    <3>3. n \in Nat
      <4>1. act[a].results \in Seq([step : Nat, st : {"pending", "success", "failed"}])
        BY <1>2 DEF ActRec
      <4>2. QED BY <3>2, <4>1
    <3>4. /\ Dos(a) = 1..n
          /\ \A k \in Dos(a) : trace[a][k].ok /\ plan[a].steps[k].rollback /\ k > call[c].i
                 => \E l \in Undos(a) : trace[a][l].step = k
      BY <1>1, <2>1, <3>1, <3>2 DEF RollingBack
    <3>5. QED BY <2>1, <3>3, <3>4
  <2>3. \A k \in Dos(a) : trace[a][k].step = k
    BY <1>2 DEF Kept, InOrder
  <2>4. Dos(a)' = Dos(a) /\ Undos(a)' = Undos(a)
    BY DEF Dos, Undos
  <2>5. QED BY <2>2, <2>3, <2>4 DEF Complete, StepOf
<1>8. Kept(a)'
  BY <1>2, <1>3, <1>7, KeptWithStatus
<1>9. \A b \in Action \ {a} : SameAction(b) /\ act'[b] = act[b]
  BY <1>3 DEF SameAction
<1>10. QED BY <1>2, <1>4, <1>5, <1>6, <1>8, <1>9, CallerFrame DEF Work

LEMMA HistoryStep ==
    ASSUME RemInv, NEW c \in Caller, AddToHistory(c)
    PROVE  RemInv'
<1>1. PICK a \in Action : a = call[c].a
  BY DEF RemInv, Holds, Owns, AddToHistory, At
<1>2. /\ call' = [call EXCEPT ![c] = Idle]
      /\ history' = Append(IF Len(history) >= MaxHistory THEN Tail(history) ELSE history, a)
      /\ UNCHANGED <<commander, book, act, saves, plan, trace>>
  BY <1>1 DEF AddToHistory, Return, Mine
<1>3. call \in [Caller -> CallRec]
  BY DEF RemInv, TypeOK, CallRec
<1>4. /\ call' \in [Caller -> CallRec] /\ call'[c] = Idle /\ \A d \in Caller \ {c} : call'[d] = call[d]
  BY <1>2, <1>3, IdleTyped
<1>5. history' \in Seq(Action) /\ Len(history') <= MaxHistory
  <2>1. history \in Seq(Action) /\ Len(history) <= MaxHistory /\ MaxHistory \in Nat \ {0}
    BY RemediationAssumption DEF RemInv, TypeOK
  <2>2. CASE Len(history) >= MaxHistory
    <3>1. Tail(history) \in Seq(Action) /\ Len(Tail(history)) = Len(history) - 1
      BY <2>1, <2>2
    <3>2. QED BY <1>2, <2>1, <2>2, <3>1
  <2>3. CASE ~(Len(history) >= MaxHistory)
    BY <1>2, <2>1, <2>3
  <2>4. QED BY <2>2, <2>3
<1>6. TypeOK'
  BY <1>2, <1>4, <1>5 DEF RemInv, TypeOK, CallRec
<1>7. Holds(c)'
  BY <1>4 DEF Holds, Owns, Stepping, Recording, RollingBack, Work, Idle
<1>8. ASSUME NEW b \in Action PROVE SameAction(b) /\ act'[b] = act[b]
  BY <1>2 DEF SameAction
<1>9. Kept(a)'
  BY <1>8, ActionUntouched DEF RemInv
<1>10. QED BY <1>4, <1>6, <1>7, <1>8, <1>9, CallerFrame DEF Work, Idle

-----------------------------------------------------------------------------
(* The theorems.                                                              *)

LEMMA RemInvInit == Init => RemInv
<1>1. SUFFICES ASSUME Init PROVE RemInv
  OBVIOUS
<1>2. call \in [Caller -> CallRec] /\ \A c \in Caller : call[c] = Idle
  BY <1>1, IdleTyped DEF Init
<1>3. act \in [Action -> ActRec]
      /\ \A a \in Action : act[a].status = "none" /\ act[a].results = <<>>
  BY <1>1, RemediationAssumption DEF Init, ActRec, Statuses, Suggest
<1>4. trace = [a \in Action |-> <<>>] /\ plan \in [Action -> Runbooks]
  BY <1>1, RemediationAssumption DEF Init, SomeBook
<1>5. history = <<>> /\ saves = 0 /\ commander \in BOOLEAN /\ book \in [Id -> Runbooks]
  BY <1>1 DEF Init
<1>6. TypeOK
  BY <1>2, <1>3, <1>4, <1>5, RemediationAssumption DEF TypeOK, CallRec, ActRec, Run
<1>7. \A c \in Caller : Holds(c)
  BY <1>2 DEF Holds, Owns, Stepping, Recording, RollingBack, Work, Idle
<1>8. \A a \in Action : Kept(a)
  <2>1. SUFFICES ASSUME NEW a \in Action PROVE Kept(a)
    OBVIOUS
  <2>2. trace[a] = <<>> /\ act[a].status = "none" /\ act[a].results = <<>>
    BY <1>3, <1>4
  <2>3. Dos(a) = {} /\ Undos(a) = {}
    BY <2>2 DEF Dos, Undos
  <2>4. QED BY <2>2, <2>3 DEF Kept, Untouched, InOrder, Gate, Stops, Sound, Complete
<1>9. OneOwner
  BY <1>2 DEF OneOwner, Work, Idle
<1>10. QED BY <1>6, <1>7, <1>8, <1>9 DEF RemInv

LEMMA RemInvStep == RemInv /\ [Next]_vars => RemInv'
<1>1. SUFFICES ASSUME RemInv, [Next]_vars PROVE RemInv'
  OBVIOUS
<1>2. CASE \E d \in Id, rb \in Runbooks : SaveRunbook(d, rb)
  BY <1>1, <1>2, SaveStep
<1>3. ASSUME NEW a \in Action, NEW d \in Id, NEW level \in Levels, CreateAction(a, d, level)
      PROVE  RemInv'
  BY <1>1, <1>3, CreateStep
<1>4. ASSUME NEW a \in Action, ApproveAction(a) PROVE RemInv'
  BY <1>1, <1>4, ApproveStep
<1>5. ASSUME NEW a \in Action, CancelAction(a) PROVE RemInv'
  BY <1>1, <1>5, CancelStep
<1>6. ASSUME NEW c \in Caller, ExecuteAction(c) PROVE RemInv'
  <2>1. CASE ExecLookup(c)
    BY <1>1, <2>1, LookupStep
  <2>2. CASE ExecClaim(c)
    BY <1>1, <2>2, ClaimStep
  <2>3. CASE ExecGate(c)
    BY <1>1, <2>3, GateStep
  <2>4. CASE ExecRun(c)
    BY <1>1, <2>4, RunStep
  <2>5. CASE ExecRecord(c)
    BY <1>1, <2>5, RecordStep
  <2>6. CASE Undo(c)
    BY <1>1, <2>6, UndoStep
  <2>7. CASE AddToHistory(c)
    BY <1>1, <2>7, HistoryStep
  <2>8. CASE ExecStop(c)
    <3>1. /\ call[c].pc \in Work /\ SetStatus(Mine(c), "failed") /\ Return(c)
          /\ UNCHANGED <<commander, book, history, saves, plan, trace>>
      BY <2>8 DEF ExecStop, At, Work
    <3>2. QED BY <1>1, <3>1, LeaveStep DEF Statuses
  <2>9. CASE UndoDone(c)
    <3>1. /\ call[c].pc \in Work /\ SetStatus(Mine(c), "rolled_back") /\ Return(c)
          /\ call[c].pc = "rollback" /\ call[c].i = 0
          /\ UNCHANGED <<commander, book, history, saves, plan, trace>>
      BY <2>9 DEF UndoDone, At, Work
    <3>2. QED BY <1>1, <3>1, LeaveStep DEF Statuses
  <2>10. CASE ExecFinish(c)
    <3>1. /\ call[c].pc \in Work /\ SetStatus(Mine(c), "success") /\ Goto(c, "history")
          /\ UNCHANGED <<commander, book, history, saves, plan, trace>>
      BY <2>10 DEF ExecFinish, At, Work
    <3>2. QED BY <1>1, <3>1, LeaveStep DEF Statuses
  <2>11. QED BY <1>6, <2>1, <2>2, <2>3, <2>4, <2>5, <2>6, <2>7, <2>8, <2>9, <2>10
              DEF ExecuteAction, ExecuteStep
<1>7. CASE UNCHANGED vars
  <2>1. UNCHANGED <<commander, book, act, history, call, saves, plan, trace>>
    BY <1>7 DEF vars
  <2>2. \A c \in Caller : Holds(c)'
    BY <1>1, <2>1, CallUntouched DEF RemInv, SameAction, Holds, Owns
  <2>3. \A a \in Action : Kept(a)'
    BY <1>1, <2>1, ActionUntouched DEF RemInv, SameAction
  <2>4. QED BY <1>1, <2>1, <2>2, <2>3 DEF RemInv, OneOwner, TypeOK
<1>8. QED BY <1>1, <1>2, <1>3, <1>4, <1>5, <1>6, <1>7 DEF Next

\* The inductive invariant: an action that runs has one owner, and its trace,
\* its results and where its owner is tell the same story.
THEOREM RemediationInvariant == Spec => []RemInv
BY RemInvInit, RemInvStep, PTL DEF Spec

\* Type correctness, and the bound of the history, for any constants.
THEOREM TypeCorrect == Spec => []TypeOK
<1>1. RemInv => TypeOK
  BY DEF RemInv
<1>2. QED BY <1>1, RemediationInvariant, PTL

\* The steps of an action run once and in order, whoever executes it.
THEOREM StepsRunOnce == Spec => []RunsOnce
<1>1. RemInv => RunsOnce
  BY DEF RemInv, Kept, InOrder, RunsOnce
<1>2. QED BY <1>1, RemediationInvariant, PTL

\* Nothing runs behind an approval step that nobody opened.
THEOREM GatesHold == Spec => []GateHeld
<1>1. RemInv => GateHeld
  BY DEF RemInv, Kept, Gate, GateHeld
<1>2. QED BY <1>1, RemediationInvariant, PTL

\* A failure ends the action as its policy says.
THEOREM FailuresStop == Spec => []StopsAtFailure
<1>1. RemInv => StopsAtFailure
  BY DEF RemInv, Kept, Stops, StopsAtFailure
<1>2. QED BY <1>1, RemediationInvariant, PTL

\* A rollback undoes what succeeded, nothing else, and the last step first.
THEOREM RollbacksExact == Spec => []RollbackExact
<1>1. RemInv => RollbackExact
  BY DEF RemInv, Kept, Sound, Complete, RollbackExact, UndoSound, RollbackComplete
<1>2. QED BY <1>1, RemediationInvariant, PTL

\* The outcome of an action is final.
THEOREM OutcomesFinal == Spec => OutcomeStable
<1> DEFINE Settled(a) == act[a].status \in {"success", "failed", "rolled_back"}
<1>1. RemInv /\ [Next]_vars => [\A a \in Action : Settled(a) => act'[a].status = act[a].status]_vars
  <2>1. SUFFICES ASSUME RemInv, Next, NEW a \in Action, Settled(a)
                 PROVE  act'[a].status = act[a].status
    OBVIOUS
  <2>2. act \in [Action -> ActRec]
    BY <2>1 DEF RemInv, TypeOK, ActRec
  <2>3. SUFFICES ASSUME act'[a] # act[a] PROVE act'[a].status = act[a].status
    OBVIOUS
  <2>4. ~\E d \in Id, rb \in Runbooks : SaveRunbook(d, rb)
    BY <2>3 DEF SaveRunbook
  <2>5. ASSUME NEW b \in Action, NEW d \in Id, NEW level \in Levels, CreateAction(b, d, level)
        PROVE  FALSE
    BY <2>1, <2>2, <2>3, <2>5 DEF CreateAction
  <2>6. ASSUME NEW b \in Action, ApproveAction(b) \/ CancelAction(b) PROVE FALSE
    BY <2>1, <2>2, <2>3, <2>6 DEF ApproveAction, CancelAction, SetStatus
  <2>7. ASSUME NEW c \in Caller, ExecuteAction(c) PROVE FALSE
    <3>1. CASE call[c].pc \in Work
      <4>1. Mine(c) \in Action /\ act[Mine(c)].status \in {"running", "cancelled"}
        BY <2>1, <3>1, Ownership
      <4>2. Mine(c) # a
        BY <2>1, <4>1
      <4>3. act'[a] = act[a]
        BY <2>2, <2>7, <3>1, <4>1, <4>2 DEF ExecuteAction, ExecuteStep, ExecLookup, ExecClaim, ExecGate,
          ExecRun, ExecRecord, ExecStop, Undo, UndoDone, ExecFinish, AddToHistory, SetStatus, AddResult
      <4>4. QED BY <2>3, <4>3
    <3>2. CASE call[c].pc \notin Work
      <4>1. \/ UNCHANGED act
            \/ act[Mine(c)].status \in {"pending", "approved"} /\ SetStatus(Mine(c), "running")
        BY <2>7, <3>2 DEF ExecuteAction, ExecuteStep, ExecLookup, ExecClaim, ExecGate, ExecRun,
          ExecRecord, ExecStop, Undo, UndoDone, ExecFinish, AddToHistory, At, Work
      <4>2. QED BY <2>1, <2>2, <2>3, <4>1 DEF SetStatus
    <3>3. QED BY <3>1, <3>2
  <2>8. QED BY <2>1, <2>4, <2>5, <2>6, <2>7 DEF Next
<1>2. QED BY <1>1, RemediationInvariant, PTL DEF Spec, OutcomeStable
-----------------------------------------------------------------------------
(* An execution is finite: Effort bounds what is left of a caller's steps,   *)
(* three for each step of the runbook (run, record, undo) and four more.     *)

Effort(c) ==
    LET n == Last(c) IN
    CASE call[c].pc = "step"                -> 2 * (n + 1 - call[c].i) + n + 4
      [] call[c].pc = "record"              -> 2 * (n - call[c].i) + n + 5
      [] call[c].pc = "rollback"            -> call[c].i + 2
      [] call[c].pc = "finish"              -> 2
      [] call[c].pc \in {"stop", "history"} -> 1
      [] OTHER                              -> 0

Owned == \A a \in Action :
    act[a].status = "running" => \E c \in Caller : call[c].pc \in Work /\ Mine(c) = a
Bounded == \A c \in Caller :
    /\ Effort(c) \in 0..(3 * Last(c) + 4)
    /\ call[c].pc \in Work => Effort(c) > 0
Wears == [][\A c \in Caller : /\ ExecuteStep(c) => Effort(c)' < Effort(c)
                              /\ Effort(c)' > Effort(c) => ExecClaim(c)]_vars

LEMMA CallTyped ==
    ASSUME TypeOK, NEW c \in Caller
    PROVE  call[c] \in CallRec /\ DOMAIN call = Caller /\ Last(c) \in Nat
<1>1. call \in [Caller -> CallRec]
  BY DEF TypeOK, CallRec
<1>2. call[c].rb.steps \in Seq(Steps)
  BY <1>1, RemediationAssumption DEF CallRec
<1>3. QED BY <1>1, <1>2 DEF Last

LEMMA EffortBounded == RemInv => Bounded
<1> SUFFICES ASSUME RemInv, NEW c \in Caller
             PROVE  /\ Effort(c) \in 0..(3 * Last(c) + 4)
                    /\ call[c].pc \in Work => Effort(c) > 0
  BY DEF Bounded
<1> DEFINE n == Last(c)
           i == call[c].i
<1>1. n \in Nat /\ i \in Nat /\ call[c].pc \in PCs
  BY CallTyped DEF RemInv, CallRec
<1>2. /\ call[c].pc = "step" => i \in 1..(n + 1)
      /\ call[c].pc = "record" => i \in 1..n
      /\ call[c].pc = "rollback" => i \in 0..n
  BY DEF RemInv, Holds, Stepping, Recording, RollingBack
<1>3. Effort(c) = CASE call[c].pc = "step"                -> 2 * (n + 1 - i) + n + 4
                    [] call[c].pc = "record"              -> 2 * (n - i) + n + 5
                    [] call[c].pc = "rollback"            -> i + 2
                    [] call[c].pc = "finish"              -> 2
                    [] call[c].pc \in {"stop", "history"} -> 1
                    [] OTHER                              -> 0
  BY DEF Effort
<1> HIDE DEF n, i
<1>4. Effort(c) \in 0..(3 * n + 4) /\ (call[c].pc \in Work => Effort(c) > 0)
  <2>1. CASE call[c].pc = "step"
    BY <1>1, <1>2, <1>3, <2>1
  <2>2. CASE call[c].pc = "record"
    BY <1>1, <1>2, <1>3, <2>2
  <2>3. CASE call[c].pc = "rollback"
    BY <1>1, <1>2, <1>3, <2>3
  <2>4. CASE call[c].pc \in {"finish", "stop", "history"}
    BY <1>1, <1>3, <2>4
  <2>5. CASE call[c].pc \in {"idle", "claim"}
    BY <1>1, <1>3, <2>5 DEF Work
  <2>6. QED BY <1>1, <2>1, <2>2, <2>3, <2>4, <2>5 DEF PCs
<1>5. QED BY <1>4 DEF n

\* The steps that leave the caller at another place of the same runbook.
LEMMA StepWears ==
    ASSUME RemInv, NEW c \in Caller, ExecuteStep(c)
    PROVE  Effort(c)' < Effort(c)
<1> DEFINE n == Last(c)
           i == call[c].i
<1>1. /\ n \in Nat /\ i \in Nat /\ call[c] \in CallRec /\ DOMAIN call = Caller
  BY CallTyped DEF RemInv, CallRec
<1>2. /\ call[c].pc = "step" => i \in 1..(n + 1)
      /\ call[c].pc = "record" => i \in 1..n
      /\ call[c].pc = "rollback" => i \in 0..n
  BY DEF RemInv, Holds, Stepping, Recording, RollingBack
<1>3. CASE ExecGate(c)
  <2>1. call[c].pc = "step" /\ call'[c].pc = "finish"
    BY <1>1, <1>3 DEF ExecGate, At, Goto, CallRec
  <2>2. Effort(c) = 2 * (n + 1 - i) + n + 4 /\ Effort(c)' = 2
    BY <2>1 DEF Effort
  <2> HIDE DEF n, i
  <2>3. QED BY <1>1, <1>2, <2>1, <2>2
<1>4. CASE ExecRun(c)
  <2>1. /\ call[c].pc = "step" /\ i <= n /\ call'[c].pc = "record" /\ call'[c].i = i
        /\ call'[c].rb = call[c].rb
    BY <1>1, <1>4 DEF ExecRun, At, CallRec
  <2>2. Effort(c) = 2 * (n + 1 - i) + n + 4 /\ Effort(c)' = 2 * (n - i) + n + 5
    BY <2>1 DEF Effort, Last
  <2> HIDE DEF n, i
  <2>3. QED BY <1>1, <1>2, <2>1, <2>2
<1>5. CASE ExecRecord(c)
  <2>1. /\ call[c].pc = "record" /\ call'[c].rb = call[c].rb
        /\ \/ call'[c].pc = "stop"
           \/ call'[c].pc = "rollback" /\ call'[c].i = n
           \/ call'[c].pc = "step" /\ call'[c].i = i + 1
    BY <1>1, <1>5 DEF ExecRecord, At, CallRec
  <2>2. /\ Effort(c) = 2 * (n - i) + n + 5
        /\ Effort(c)' \in {1, n + 2, 2 * (n + 1 - (i + 1)) + n + 4}
    BY <2>1 DEF Effort, Last
  <2> HIDE DEF n, i
  <2>3. QED BY <1>1, <1>2, <2>1, <2>2
<1>6. CASE Undo(c)
  <2>1. /\ call[c].pc = "rollback" /\ call'[c].pc = "rollback" /\ call'[c].i = i - 1
    BY <1>1, <1>6 DEF Undo, At, CallRec
  <2>2. Effort(c) = i + 2 /\ Effort(c)' = (i - 1) + 2
    BY <2>1 DEF Effort
  <2> HIDE DEF n, i
  <2>3. QED BY <1>1, <2>2
<1>7. CASE ExecStop(c) \/ UndoDone(c) \/ AddToHistory(c)
  <2>1. call[c].pc \in {"stop", "rollback", "history"} /\ call'[c].pc = "idle"
    BY <1>1, <1>7 DEF ExecStop, UndoDone, AddToHistory, At, Return, Idle
  <2>2. Effort(c) \in {1, i + 2} /\ Effort(c)' = 0
    BY <2>1 DEF Effort
  <2> HIDE DEF n, i
  <2>3. QED BY <1>1, <2>2
<1>8. CASE ExecFinish(c)
  <2>1. call[c].pc \in {"finish", "step"} /\ call'[c].pc = "history"
    BY <1>1, <1>8 DEF ExecFinish, At, Goto, CallRec
  <2>2. Effort(c)' = 1 /\ \/ Effort(c) = 2
                          \/ call[c].pc = "step" /\ Effort(c) = 2 * (n + 1 - i) + n + 4
    BY <2>1 DEF Effort
  <2> HIDE DEF n, i
  <2>3. QED BY <1>1, <1>2, <2>2
<1>9. QED BY <1>3, <1>4, <1>5, <1>6, <1>7, <1>8 DEF ExecuteStep

\* A call that another step leaves alone keeps its effort.
LEMMA EffortKept ==
    ASSUME NEW c \in Caller, call'[c] = call[c]
    PROVE  Effort(c)' = Effort(c)
BY DEF Effort, Last

LEMMA EffortStaysBounded == RemInv' => Bounded'
BY EffortBounded, PTL

LEMMA NextWears ==
    ASSUME RemInv, RemInv', Next, NEW c \in Caller, Effort(c)' > Effort(c)
    PROVE  ExecClaim(c)
<1>1. DOMAIN call = Caller /\ call \in [Caller -> CallRec] /\ Effort(c) \in Nat
  BY EffortBounded, CallTyped DEF RemInv, Bounded, TypeOK, CallRec
<1>2. call'[c] # call[c]
  BY <1>1, EffortKept
<1>3. PICK d \in Caller : ExecuteAction(d)
  BY <1>2 DEF Next, SaveRunbook, CreateAction, ApproveAction, CancelAction
<1>4. d = c
  <2>1. \E r : call' = [call EXCEPT ![d] = r]
    BY <1>1, <1>3 DEF ExecuteAction, ExecuteStep, ExecLookup, ExecClaim, ExecGate, ExecRun, ExecRecord,
      ExecStop, Undo, UndoDone, ExecFinish, AddToHistory, Goto, Return
  <2>2. QED BY <1>1, <1>2, <2>1
<1>5. ~ExecuteStep(c)
  <2>1. SUFFICES ASSUME ExecuteStep(c) PROVE FALSE
    OBVIOUS
  <2>2. Effort(c)' < Effort(c) /\ Effort(c)' \in Nat
    BY <2>1, StepWears, EffortStaysBounded DEF Bounded
  <2>3. QED BY <1>1, <2>2
<1>6. ~ExecLookup(c)
  <2>1. SUFFICES ASSUME ExecLookup(c) PROVE FALSE
    OBVIOUS
  <2>2. call'[c].pc = "claim"
    BY <1>1, <2>1 DEF ExecLookup, Idle, CallRec
  <2>3. Effort(c)' = 0
    BY <2>2 DEF Effort
  <2>4. QED BY <1>1, <2>3
<1>7. QED BY <1>3, <1>4, <1>5, <1>6 DEF ExecuteAction

LEMMA OwnerStays == RemInv /\ Owned /\ [Next]_vars => Owned'
<1> SUFFICES ASSUME RemInv, Owned, [Next]_vars, NEW a \in Action, act'[a].status = "running"
             PROVE  \E c \in Caller : call'[c].pc \in Work /\ call'[c].a = a
  BY DEF Owned, Mine
<1>1. call \in [Caller -> CallRec] /\ act \in [Action -> ActRec]
  BY DEF RemInv, TypeOK, CallRec, ActRec
<1>2. CASE act[a].status = "running"
  <2>1. PICK c \in Caller : call[c].pc \in Work /\ call[c].a = a
    BY <1>2 DEF Owned, Mine
  <2>2. SUFFICES ASSUME call'[c] # call[c] PROVE call'[c].pc \in Work /\ call'[c].a = a
    BY <2>1
  <2>3. PICK d \in Caller : ExecuteAction(d)
    BY <2>2 DEF Next, SaveRunbook, CreateAction, ApproveAction, CancelAction, vars
  <2>4. d = c
    <3>1. \E r : call' = [call EXCEPT ![d] = r]
      BY <1>1, <2>3 DEF ExecuteAction, ExecuteStep, ExecLookup, ExecClaim, ExecGate, ExecRun, ExecRecord,
        ExecStop, Undo, UndoDone, ExecFinish, AddToHistory, Goto, Return
    <3>2. QED BY <1>1, <2>2, <3>1
  <2>5. CASE ExecStop(c) \/ UndoDone(c) \/ ExecFinish(c)
    <3>1. act'[a].status \in {"failed", "rolled_back", "success"}
      BY <1>1, <2>1, <2>5 DEF ExecStop, UndoDone, ExecFinish, SetStatus, Mine, ActRec
    <3>2. QED BY <3>1
  <2>6. CASE ExecGate(c) \/ ExecRun(c) \/ ExecRecord(c) \/ Undo(c)
    <3>1. CASE ExecGate(c)
      BY <1>1, <2>1, <3>1 DEF ExecGate, Goto, Work, CallRec
    <3>2. CASE ExecRun(c)
      BY <1>1, <2>1, <3>2 DEF ExecRun, Work, CallRec
    <3>3. CASE ExecRecord(c)
      BY <1>1, <2>1, <3>3 DEF ExecRecord, Work, CallRec
    <3>4. CASE Undo(c)
      BY <1>1, <2>1, <3>4 DEF Undo, Work, CallRec
    <3>5. QED BY <2>6, <3>1, <3>2, <3>3, <3>4
  <2>7. CASE ExecLookup(c) \/ ExecClaim(c) \/ AddToHistory(c)
    BY <2>1, <2>7 DEF ExecLookup, ExecClaim, AddToHistory, At, Work
  <2>8. QED BY <2>3, <2>4, <2>5, <2>6, <2>7 DEF ExecuteAction, ExecuteStep
<1>3. CASE act[a].status # "running"
  <2>1. act'[a] # act[a] /\ Next
    BY <1>3 DEF vars
  <2>2. PICK c \in Caller : ExecClaim(c)
    <3>1. ~\E d \in Id, rb \in Runbooks : SaveRunbook(d, rb)
      BY <2>1 DEF SaveRunbook
    <3>2. ASSUME NEW b \in Action, NEW d \in Id, NEW level \in Levels, CreateAction(b, d, level)
          PROVE  FALSE
      BY <1>1, <2>1, <3>2 DEF CreateAction
    <3>3. ASSUME NEW b \in Action, ApproveAction(b) \/ CancelAction(b) PROVE FALSE
      BY <1>1, <1>3, <2>1, <3>3 DEF ApproveAction, CancelAction, SetStatus, ActRec
    <3>4. PICK c \in Caller : ExecuteAction(c)
      BY <2>1, <3>1, <3>2, <3>3 DEF Next
    <3>5. ~(ExecGate(c) \/ ExecRecord(c))
      <4>1. ASSUME NEW b, NEW i, NEW st, AddResult(b, i, st) PROVE FALSE
        <5>1. act'[a].status = act[a].status
          BY <1>1, <4>1 DEF AddResult, ActRec
        <5>2. QED BY <1>3, <5>1
      <4>2. QED BY <4>1 DEF ExecGate, ExecRecord
    <3>6. ~(ExecStop(c) \/ UndoDone(c) \/ ExecFinish(c))
      BY <1>1, <1>3 DEF ExecStop, UndoDone, ExecFinish, SetStatus, ActRec
    <3>7. ~(ExecLookup(c) \/ ExecRun(c) \/ Undo(c) \/ AddToHistory(c))
      BY <2>1 DEF ExecLookup, ExecRun, Undo, AddToHistory
    <3>8. QED BY <3>4, <3>5, <3>6, <3>7 DEF ExecuteAction, ExecuteStep
  <2>3. call[c].a = a /\ act[Mine(c)].status \in {"pending", "approved"}
    BY <1>1, <2>1, <2>2 DEF ExecClaim, SetStatus, Mine
  <2>4. call'[c].pc = "step" /\ call'[c].a = a
    BY <1>1, <2>2, <2>3 DEF ExecClaim, CallRec
  <2>5. QED BY <2>4 DEF Work
<1>4. QED BY <1>2, <1>3

\* Whatever approvals, cancellations and saves happen in between: an action
\* that runs has a caller executing it, and that caller takes at most three steps
\* per step of the runbook and four more before it is done with it.
THEOREM ExecutionFinite == Spec => []Owned /\ []Bounded /\ Wears
<1>1. Init => Owned
  BY DEF Init, Owned
<1>2. RemInv /\ RemInv' /\ [Next]_vars =>
        [\A c \in Caller : /\ ExecuteStep(c) => Effort(c)' < Effort(c)
                           /\ Effort(c)' > Effort(c) => ExecClaim(c)]_vars
  BY StepWears, NextWears
<1>3. QED BY <1>1, <1>2, OwnerStays, EffortBounded, RemediationInvariant, PTL DEF Spec, Wears
=============================================================================
