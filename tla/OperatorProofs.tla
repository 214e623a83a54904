----------------------------- MODULE OperatorProofs -----------------------------
(* For any operators, cycles, loops, policies and grants: an operator's       *)
(* escalations are counted once, no stop channel is closed twice, and         *)
(* autonomy taken away is used by at most one action of each cycle.           *)
EXTENDS Operator, FiniteSetTheorems, WellFoundedInduction, TLAPS

\* A loop is stopped through the map only as long as its operator is enabled,
\* and a closed channel is one its loop has not noticed yet.
StopInv ==
    /\ \A o \in Op : stop[o] # NoLoop => o \in known /\ enabled[o]
    /\ \A l \in closed : watches[l] # NoOp

Busy == \A k \in Cycle : pc[k] # "idle" => op[k] \in Op

\* Cycles about to take an action the present autonomy would not allow.
Against(o) == {k \in Cycle : pc[k] = "perform" /\ op[k] = o /\ ~Allows(autonomy[o], doing[k])}

\* What has been taken against the autonomy and what is about to be.
Debt == \A o \in Op : overruled[o] + Cardinality(Against(o)) <= Cardinality(Cycle)

OpInv == TypeOK /\ StopInv /\ Busy /\ Debt

-----------------------------------------------------------------------------
(* The least element of a set of numbers.                                    *)

Less == {pair \in Nat \X Nat : pair[1] < pair[2]}

LEMMA LessIsWellFounded == IsWellFoundedOn(Less, Nat)
<1>1. Less = OpToRel(<, Nat)
  BY Zenon DEF OpToRel, Less
<1>2. QED BY <1>1, NatLessThanWellFounded

LEMMA MinIsMember ==
    ASSUME NEW S \in SUBSET Nat, S # {}
    PROVE  Min(S) \in S
<1>1. PICK x \in S : \A y \in S : <<y, x>> \notin Less
  BY LessIsWellFounded, WFMin
<1>2. ASSUME NEW y \in S PROVE x <= y
  <2>1. x \in Nat /\ y \in Nat /\ <<y, x>> \notin Less
    BY <1>1
  <2>2. ASSUME y < x PROVE FALSE
    <3>1. <<y, x>> \in Nat \X Nat /\ <<y, x>>[1] = y /\ <<y, x>>[2] = x
      BY <2>1
    <3>2. QED BY <2>1, <2>2, <3>1 DEF Less
  <2>3. QED BY <2>1, <2>2
<1>3. QED BY <1>2 DEF Min

-----------------------------------------------------------------------------
(* The cycles that act against the autonomy.                                 *)

LEMMA AgainstFinite ==
    ASSUME NEW o \in Op
    PROVE  /\ IsFiniteSet(Against(o))
           /\ Cardinality(Against(o)) \in Nat
           /\ Cardinality(Cycle) \in Nat
           /\ Cardinality(Against(o)) <= Cardinality(Cycle)
BY OperatorAssumption, FS_Subset, FS_CardinalityType DEF Against

\* An operator starts with a clean record, or nothing is added to it.
LEMMA DebtKept ==
    ASSUME Debt, TypeOK,
           \A o \in Op : \/ overruled'[o] = 0
                         \/ overruled'[o] = overruled[o] /\ Against(o)' \subseteq Against(o)
    PROVE  Debt'
<1>1. SUFFICES ASSUME NEW o \in Op
               PROVE  overruled'[o] + Cardinality(Against(o)') <= Cardinality(Cycle)
  BY DEF Debt
<1>2. /\ IsFiniteSet(Against(o)') /\ Cardinality(Against(o)') \in Nat
      /\ Cardinality(Cycle) \in Nat /\ Cardinality(Against(o)') <= Cardinality(Cycle)
  <2>1. Against(o)' \subseteq Cycle
    BY DEF Against
  <2>2. QED BY <2>1, OperatorAssumption, FS_Subset, FS_CardinalityType
<1>3. CASE overruled'[o] = 0
  BY <1>2, <1>3
<1>4. CASE overruled'[o] = overruled[o] /\ Against(o)' \subseteq Against(o)
  <2>1. Cardinality(Against(o)') <= Cardinality(Against(o))
    BY <1>4, AgainstFinite, FS_Subset
  <2>2. overruled[o] + Cardinality(Against(o)) <= Cardinality(Cycle)
    BY DEF Debt
  <2>3. overruled[o] \in Nat
    BY DEF TypeOK
  <2>4. QED BY <1>2, <1>4, <2>1, <2>2, <2>3, AgainstFinite
<1>5. QED BY <1>3, <1>4

-----------------------------------------------------------------------------
(* One lemma per operation.                                                  *)

LEMMA EnableStep ==
    ASSUME OpInv, NEW o \in Op, NEW level \in Grant, NEW l \in Loop, Enable(o, level, l)
    PROVE  OpInv'
<1> USE OperatorAssumption DEF OpInv
<1>1. PICK gone \in SUBSET known :
          /\ known' = (known \ gone) \cup {o}
          /\ enabled' = [p \in Op |-> p = o \/ (enabled[p] /\ p \notin gone)]
          /\ results' = [p \in Op |-> IF p \in gone \cup {o} THEN <<>> ELSE results[p]]
          /\ escalated' = [p \in Op |-> IF p \in gone \cup {o} THEN {} ELSE escalated[p]]
          /\ active' = [p \in Op |-> IF p \in gone \cup {o} THEN 0 ELSE active[p]]
          /\ closed' = closed \cup ({stop[p] : p \in gone} \ {NoLoop})
          /\ stop' = [p \in Op |-> IF p = o THEN l ELSE IF p \in gone THEN NoLoop ELSE stop[p]]
          /\ autonomy' = [p \in Op |-> IF p = o THEN level ELSE IF p \in gone THEN "suggest" ELSE autonomy[p]]
          /\ overruled' = [p \in Op |-> IF p \in gone \cup {o} THEN 0 ELSE overruled[p]]
  BY DEF Enable
<1>2. /\ watches[l] = NoOp /\ watches' = [watches EXCEPT ![l] = o]
      /\ UNCHANGED <<pc, op, todo, doing, panic>>
  BY DEF Enable, cycleVars
<1>3. l \notin closed'
  BY <1>1, <1>2 DEF TypeOK, StopInv
<1>4. ASSUME NEW p \in Op, stop'[p] # NoLoop
      PROVE  stop'[p] \notin closed' /\ watches'[stop'[p]] = p
  BY <1>1, <1>2, <1>3, <1>4 DEF TypeOK
<1>5. known' \subseteq Op /\ enabled' \in [Op -> BOOLEAN] /\ autonomy' \in [Op -> Autonomy]
  BY <1>1 DEF TypeOK, Autonomy
<1>6. /\ results' \in [Op -> Seq(SUBSET Level)] /\ \A p \in Op : Len(results'[p]) <= MaxResults
      /\ overruled' \in [Op -> Nat]
  BY <1>1 DEF TypeOK
<1>7. /\ escalated' \in [Op -> SUBSET Level]
      /\ active' = [p \in Op |-> Cardinality(escalated'[p])]
  BY <1>1, FS_EmptySet DEF TypeOK
<1>8. stop' \in [Op -> Loop \cup {NoLoop}] /\ closed' \subseteq Loop
      /\ watches' \in [Loop -> Op \cup {NoOp}]
  BY <1>1, <1>2 DEF TypeOK
<1>9. TypeOK'
  BY <1>2, <1>4, <1>5, <1>6, <1>7, <1>8 DEF TypeOK
<1>10. StopInv'
  <2>1. ASSUME NEW p \in Op, stop'[p] # NoLoop PROVE p \in known' /\ enabled'[p]
    BY <1>1, <2>1 DEF TypeOK, StopInv
  <2>2. ASSUME NEW m \in closed' PROVE watches'[m] # NoOp
    BY <1>1, <1>2, <2>2 DEF TypeOK, StopInv
  <2>3. QED BY <2>1, <2>2 DEF StopInv
<1>11. Busy'
  BY <1>2 DEF Busy
<1>12. Debt'
  BY <1>1, <1>2, DebtKept DEF Against
<1>13. QED BY <1>9, <1>10, <1>11, <1>12

LEMMA DisableStep ==
    ASSUME OpInv, NEW os \in SUBSET Op, Disable(os)
    PROVE  OpInv'
<1> USE OperatorAssumption DEF OpInv, Disable, StopLoops, cycleVars
<1>1. ASSUME NEW p \in Op, stop'[p] # NoLoop
      PROVE  p \notin os /\ stop'[p] = stop[p] /\ stop'[p] \notin closed' /\ watches'[stop'[p]] = p
  BY <1>1 DEF TypeOK
<1>2. TypeOK'
  BY <1>1 DEF TypeOK
<1>3. StopInv'
  BY <1>1 DEF TypeOK, StopInv
<1>4. Busy'
  BY DEF Busy
<1>5. Debt'
  BY DebtKept DEF Against
<1>6. QED BY <1>2, <1>3, <1>4, <1>5

LEMMA ResetStep ==
    ASSUME OpInv, NEW o \in Op, ResetEscalationState(o)
    PROVE  OpInv'
<1> USE DEF OpInv, ResetEscalationState, loopVars, cycleVars
<1>1. TypeOK'
  BY FS_EmptySet DEF TypeOK
<1>2. StopInv' /\ Busy'
  BY DEF StopInv, Busy
<1>3. Debt'
  BY DebtKept DEF Against
<1>4. QED BY <1>1, <1>2, <1>3

LEMMA LoopStep ==
    ASSUME OpInv, NEW l \in Loop, LoopStopped(l) \/ LoopTick(l)
    PROVE  OpInv'
<1> USE OperatorAssumption DEF OpInv, LoopEnd, confVars, cycleVars
<1>1. LoopEnd(l)
  BY DEF LoopStopped, LoopTick
<1>2. \A p \in Op : stop[p] # l
  BY DEF LoopStopped, LoopTick, TypeOK, StopInv
<1>3. TypeOK'
  BY <1>1, <1>2 DEF TypeOK
<1>4. StopInv' /\ Busy'
  BY <1>1 DEF TypeOK, StopInv, Busy
<1>5. Debt'
  BY <1>1, DebtKept DEF Against
<1>6. QED BY <1>3, <1>4, <1>5

\* What is kept of an operator's results stays within its limit.
LEMMA KeepStep ==
    ASSUME TypeOK, NEW o \in Op, NEW r \in SUBSET Level, Keep(o, r)
    PROVE  /\ results' \in [Op -> Seq(SUBSET Level)]
           /\ \A p \in Op : Len(results'[p]) <= MaxResults
<1> DEFINE all == Append(results[o], r)
           kept == IF Len(all) > MaxResults
                   THEN SubSeq(all, Len(all) - MaxResults + 1, Len(all)) ELSE all
<1>1. MaxResults \in Nat /\ MaxResults >= 1
  BY OperatorAssumption
<1>2. all \in Seq(SUBSET Level) /\ Len(all) \in Nat
  BY DEF TypeOK
<1>3. kept \in Seq(SUBSET Level) /\ Len(kept) <= MaxResults
  BY <1>1, <1>2
<1>4. results' = [results EXCEPT ![o] = kept]
  BY DEF Keep
<1>5. QED BY <1>3, <1>4 DEF TypeOK

\* The steps of a cycle up to the evaluation, and its end.
LEMMA CheckStep ==
    ASSUME OpInv, NEW k \in Cycle, NEW o \in Op, NEW r \in SUBSET Level,
           \/ AloneBegin(k, o) \/ CycleBegin(k, o)
           \/ AloneCheck(k, r) \/ CycleCheck(k, r) \/ CycleEnd(k)
    PROVE  OpInv'
<1> USE DEF OpInv, confVars, loopVars, cycleVars
<1>1. CASE AloneBegin(k, o) \/ CycleBegin(k, o)
  <2> USE <1>1 DEF AloneBegin, CycleBegin
  <2>1. /\ pc[k] = "idle" /\ op' = [op EXCEPT ![k] = o]
        /\ pc' = [pc EXCEPT ![k] = "alone"] \/ pc' = [pc EXCEPT ![k] = "checks"]
        /\ UNCHANGED <<confVars, loopVars, todo, doing, panic, overruled>>
    OBVIOUS
  <2> HIDE <1>1 DEF AloneBegin, CycleBegin
  <2>2. TypeOK'
    BY <2>1 DEF TypeOK
  <2>3. StopInv' /\ Busy'
    BY <2>1 DEF TypeOK, StopInv, Busy
  <2>4. \A p \in Op : Against(p)' \subseteq Against(p)
    BY <2>1 DEF TypeOK, Against
  <2>5. QED BY <2>1, <2>2, <2>3, <2>4, DebtKept
<1>2. CASE AloneCheck(k, r) \/ CycleCheck(k, r)
  <2> USE <1>2 DEF AloneCheck, CycleCheck
  <2>1. op[k] \in Op
    BY DEF Busy
  <2>2. /\ results' \in [Op -> Seq(SUBSET Level)]
        /\ \A p \in Op : Len(results'[p]) <= MaxResults
    BY <2>1, KeepStep
  <2>3. /\ \/ pc' = [pc EXCEPT ![k] = "idle"] /\ op' = [op EXCEPT ![k] = NoOp]
           \/ UNCHANGED <<pc, op>>
        /\ UNCHANGED <<known, enabled, autonomy, escalated, active, stop, closed, watches,
                       todo, doing, panic, overruled>>
    OBVIOUS
  <2> HIDE <1>2 DEF AloneCheck, CycleCheck
  <2>4. TypeOK'
    BY <2>2, <2>3 DEF TypeOK
  <2>5. StopInv' /\ Busy'
    BY <2>3 DEF TypeOK, StopInv, Busy
  <2>6. \A p \in Op : Against(p)' \subseteq Against(p)
    BY <2>3 DEF TypeOK, Against
  <2>7. QED BY <2>3, <2>4, <2>5, <2>6, DebtKept
<1>3. CASE CycleEnd(k)
  <2> USE <1>3 DEF CycleEnd
  <2>1. TypeOK'
    BY DEF TypeOK
  <2>2. StopInv' /\ Busy'
    BY DEF TypeOK, StopInv, Busy
  <2>3. \A p \in Op : Against(p)' \subseteq Against(p)
    BY DEF TypeOK, Against
  <2>4. QED BY <2>1, <2>2, <2>3, DebtKept
<1>4. QED BY <1>1, <1>2, <1>3

\* A level escalated to is new to its operator, which is why one is counted.
LEMMA EvaluateStep ==
    ASSUME OpInv, NEW k \in Cycle, EvaluateEscalation(k)
    PROVE  OpInv'
<1> USE OperatorAssumption DEF OpInv, loopVars
<1> DEFINE o == op[k]
           due == {n \in Level \ escalated[o] : \E i \in 1..Len(results[o]) : n \in results[o][i]}
<1>1. /\ pc[k] = "checks" /\ pc' = [pc EXCEPT ![k] = "act"]
      /\ UNCHANGED <<known, enabled, autonomy, results, stop, closed, watches, op, doing, panic, overruled>>
  BY DEF EvaluateEscalation
<1>2. /\ escalated' \in [Op -> SUBSET Level]
      /\ active' = [p \in Op |-> Cardinality(escalated'[p])]
      /\ todo' \in [Cycle -> SUBSET Action]
  <2>1. CASE o \in known /\ due # {}
    <3>1. /\ escalated' = [escalated EXCEPT ![o] = @ \cup {Min(due)}]
          /\ active' = [active EXCEPT ![o] = @ + 1]
          /\ todo' = [todo EXCEPT ![k] = ActionsOf[Min(due)]]
      BY <2>1 DEF EvaluateEscalation
    <3>2. Min(due) \in Level /\ Min(due) \notin escalated[o]
      <4>1. due \in SUBSET Nat /\ due # {}
        BY <2>1
      <4>2. Min(due) \in due
        BY <4>1, MinIsMember
      <4>3. QED BY <4>2
    <3>3. o \in Op /\ escalated[o] \subseteq Level /\ IsFiniteSet(escalated[o])
      BY <2>1, FS_Subset DEF TypeOK
    <3>4. Cardinality(escalated[o] \cup {Min(due)}) = Cardinality(escalated[o]) + 1
      BY <3>2, <3>3, FS_AddElement
    <3>5. escalated' \in [Op -> SUBSET Level] /\ todo' \in [Cycle -> SUBSET Action]
      BY <3>1, <3>2, <3>3 DEF TypeOK
    <3> HIDE DEF due
    <3>6. active' = [p \in Op |-> Cardinality(escalated'[p])]
      BY <3>1, <3>3, <3>4 DEF TypeOK
    <3>7. QED BY <3>5, <3>6
  <2>2. CASE ~(o \in known /\ due # {})
    <3>1. UNCHANGED <<escalated, active, todo>>
      BY <2>2 DEF EvaluateEscalation
    <3>2. QED BY <3>1 DEF TypeOK
  <2>3. QED BY <2>1, <2>2
<1>3. TypeOK'
  BY <1>1, <1>2 DEF TypeOK
<1>4. StopInv' /\ Busy'
  BY <1>1 DEF TypeOK, StopInv, Busy
<1>5. \A p \in Op : Against(p)' \subseteq Against(p)
  BY <1>1 DEF TypeOK, Against
<1>6. QED BY <1>1, <1>3, <1>4, <1>5, DebtKept

LEMMA ExecuteStep ==
    ASSUME OpInv, NEW k \in Cycle, NEW a \in Action, ExecuteAction(k, a)
    PROVE  OpInv'
<1> USE DEF OpInv, ExecuteAction, confVars, loopVars
<1>1. TypeOK'
  <2>1. UNCHANGED <<known, enabled, autonomy, results, escalated, active, stop, closed, watches,
                    op, panic, overruled>>
    OBVIOUS
  <2>2. todo' \in [Cycle -> SUBSET Action]
    BY DEF TypeOK
  <2>3. /\ pc' \in [Cycle -> {"idle", "alone", "checks", "act", "perform"}]
        /\ doing' \in [Cycle -> Action \cup {NoAction}]
    <3>1. CASE op[k] \in known /\ Allows(autonomy[op[k]], a)
      <4>1. /\ pc' = [pc EXCEPT ![k] = "perform"] /\ doing' = [doing EXCEPT ![k] = a]
            /\ pc \in [Cycle -> {"idle", "alone", "checks", "act", "perform"}]
            /\ doing \in [Cycle -> Action \cup {NoAction}]
        BY <3>1 DEF TypeOK
      <4>2. QED BY ONLY <4>1
    <3>2. CASE ~(op[k] \in known /\ Allows(autonomy[op[k]], a))
      BY <3>2 DEF TypeOK
    <3>3. QED BY <3>1, <3>2
  <2> HIDE DEF ExecuteAction
  <2>4. QED BY <2>1, <2>2, <2>3 DEF TypeOK
<1>2. StopInv' /\ Busy'
  BY DEF TypeOK, StopInv, Busy
<1>3. \A p \in Op : Against(p)' \subseteq Against(p)
  BY DEF TypeOK, Against
<1>4. QED BY <1>1, <1>2, <1>3, DebtKept

\* The one step that acts against the autonomy pays for it.
LEMMA PerformStep ==
    ASSUME OpInv, NEW k \in Cycle, NEW o \in Op, o = op[k], Perform(k)
    PROVE  OpInv'
<1> USE DEF OpInv, confVars, loopVars
<1> DEFINE extra == IF o \in known /\ ~Allows(autonomy[o], doing[k]) THEN 1 ELSE 0
<1>1. /\ pc[k] = "perform" /\ pc' = [pc EXCEPT ![k] = "act"]
      /\ doing' = [doing EXCEPT ![k] = NoAction]
      /\ panic' = (o \notin known /\ doing[k] \in UsesConfig)
      /\ overruled' = [overruled EXCEPT ![o] = @ + extra]
      /\ UNCHANGED <<known, enabled, autonomy, results, escalated, active, stop, closed, watches, op, todo>>
  BY DEF Perform
<1>2. overruled' \in [Op -> Nat] /\ panic' \in BOOLEAN
  BY <1>1 DEF TypeOK
<1>3. TypeOK'
  BY <1>1 DEF TypeOK
<1>4. StopInv' /\ Busy'
  BY <1>1 DEF TypeOK, StopInv, Busy
<1>5. \A p \in Op : Against(p)' = Against(p) \ {k}
  BY <1>1 DEF TypeOK, Against
<1>6. Debt'
  <2>1. CASE extra = 0
    <3>1. \A p \in Op : overruled'[p] = overruled[p]
      BY <1>1, <2>1 DEF TypeOK
    <3>2. QED BY <1>5, <3>1, DebtKept
  <2>2. CASE extra = 1
    <3>1. k \in Against(o)
      BY <1>1, <2>2 DEF Against
    <3>2. Cardinality(Against(o)') = Cardinality(Against(o)) - 1
      <4>1. IsFiniteSet(Against(o)) /\ Against(o)' = Against(o) \ {k}
        BY <1>5, AgainstFinite
      <4>2. QED BY <3>1, <4>1, FS_RemoveElement
    <3>3. overruled'[o] = overruled[o] + 1 /\ overruled[o] \in Nat
      BY <1>1, <2>2 DEF TypeOK
    <3>4. overruled'[o] + Cardinality(Against(o)') <= Cardinality(Cycle)
      BY <3>2, <3>3, AgainstFinite DEF Debt
    <3>5. ASSUME NEW p \in Op, p # o
          PROVE  overruled'[p] = overruled[p] /\ Against(p)' = Against(p)
      <4>1. overruled'[p] = overruled[p]
        BY <1>1, <3>5 DEF TypeOK
      <4>2. k \notin Against(p)
        BY <3>5 DEF Against
      <4>3. QED BY <1>5, <4>1, <4>2
    <3>6. QED BY <3>4, <3>5 DEF Debt
  <2>3. QED BY <2>1, <2>2
<1>7. QED BY <1>3, <1>4, <1>6

LEMMA StutterStep ==
    ASSUME OpInv, UNCHANGED vars
    PROVE  OpInv'
<1> USE DEF OpInv, vars, confVars, loopVars, cycleVars
<1>1. TypeOK' /\ StopInv' /\ Busy'
  BY DEF TypeOK, StopInv, Busy
<1>2. Debt'
  BY DebtKept DEF Against
<1>3. QED BY <1>1, <1>2

-----------------------------------------------------------------------------
\* Type correctness, with the counts of escalations, the stop channels and the
\* inductive strengthening of both: for any number of operators and cycles.
THEOREM OperatorInvariant == Spec => []OpInv
<1>1. Init => OpInv
  <2>1. ASSUME Init PROVE TypeOK
    <3>1. active = [o \in Op |-> Cardinality(escalated[o])]
      BY <2>1, FS_EmptySet DEF Init
    <3>2. \A o \in Op : results[o] = <<>> /\ Len(<<>>) <= MaxResults /\ <<>> \in Seq(SUBSET Level)
      BY <2>1, OperatorAssumption DEF Init
    <3>3. results \in [Op -> Seq(SUBSET Level)] /\ \A o \in Op : Len(results[o]) <= MaxResults
      BY <2>1, <3>2 DEF Init
    <3>4. QED BY <2>1, <3>1, <3>3 DEF Init, TypeOK, Autonomy
  <2>2. ASSUME Init PROVE StopInv /\ Busy
    BY <2>2 DEF Init, StopInv, Busy
  <2>3. ASSUME Init, NEW o \in Op PROVE overruled[o] = 0
    BY <2>3 DEF Init
  <2>4. ASSUME Init PROVE Debt
    BY <2>3, <2>4, AgainstFinite DEF Debt
  <2>5. QED BY <2>1, <2>2, <2>4 DEF OpInv
<1>2. OpInv /\ [Next]_vars => OpInv'
  <2>1. SUFFICES ASSUME OpInv, [Next]_vars PROVE OpInv'
    OBVIOUS
  <2>2. CASE \E o \in Op, level \in Grant, l \in Loop : Enable(o, level, l)
    BY <2>1, <2>2, EnableStep
  <2>3. CASE \E os \in {known} \cup {{o} : o \in known} : Disable(os)
    <3>1. PICK os \in SUBSET Op : Disable(os)
      BY <2>1, <2>3 DEF OpInv, TypeOK
    <3>2. QED BY <2>1, <3>1, DisableStep
  <2>4. CASE \E o \in Op : ResetEscalationState(o)
    BY <2>1, <2>4, ResetStep
  <2>5. CASE Loops
    BY <2>1, <2>5, LoopStep DEF Loops
  <2>6. CASE Cycles
    <3>1. PICK k \in Cycle :
            \/ \E o \in Op : AloneBegin(k, o) \/ CycleBegin(k, o)
            \/ \E r \in SUBSET Level : AloneCheck(k, r) \/ CycleCheck(k, r)
            \/ EvaluateEscalation(k)
            \/ \E a \in Action : ExecuteAction(k, a)
            \/ Perform(k) \/ CycleEnd(k)
      BY <2>6 DEF Cycles
    <3>2. {} \in SUBSET Level /\ \E o \in Op : TRUE
      BY OperatorAssumption
    <3>3. CASE \/ \E o \in Op : AloneBegin(k, o) \/ CycleBegin(k, o)
               \/ \E r \in SUBSET Level : AloneCheck(k, r) \/ CycleCheck(k, r)
               \/ CycleEnd(k)
      BY <2>1, <3>2, <3>3, CheckStep
    <3>4. CASE EvaluateEscalation(k)
      BY <2>1, <3>4, EvaluateStep
    <3>5. CASE \E a \in Action : ExecuteAction(k, a)
      BY <2>1, <3>5, ExecuteStep
    <3>6. CASE Perform(k)
      <4>1. op[k] \in Op
        BY <2>1, <3>6 DEF Perform, OpInv, Busy
      <4>2. QED BY <2>1, <3>6, <4>1, PerformStep
    <3>7. QED BY <3>1, <3>3, <3>4, <3>5, <3>6
  <2>7. CASE UNCHANGED vars
    BY <2>1, <2>7, StutterStep
  <2>8. QED BY <2>1, <2>2, <2>3, <2>4, <2>5, <2>6, <2>7 DEF Next
<1>3. QED BY <1>1, <1>2, PTL DEF Spec

\* Every reachable state has its type; no stop channel is closed twice.
THEOREM TypeCorrect == Spec => []TypeOK
<1>1. OpInv => TypeOK
  BY DEF OpInv
<1>2. QED BY <1>1, OperatorInvariant, PTL

\* Autonomy taken away from an operator is used by at most one action of each
\* cycle, however many cycles there are.
THEOREM OverrideBounded == Spec => []OverrideBound
<1>1. OpInv => OverrideBound
  <2>1. SUFFICES ASSUME OpInv, NEW o \in Op
                 PROVE  overruled[o] <= Cardinality(Cycle)
    BY DEF OverrideBound
  <2>2. /\ overruled[o] \in Nat
        /\ overruled[o] + Cardinality(Against(o)) <= Cardinality(Cycle)
    BY <2>1 DEF OpInv, TypeOK, Debt
  <2>3. QED BY <2>2, AgainstFinite
<1>2. QED BY <1>1, OperatorInvariant, PTL
=============================================================================
