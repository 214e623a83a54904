---------------------------- MODULE HandoffProofs ----------------------------
(* For any number of requests and agents and any queue capacity: the         *)
(* response map does not leak, no answer is dropped, and the queue, the      *)
(* response channels and the timers implement HandoffPromise.  HandoffInv is *)
(* inductive together with TypeOK; each action has one lemma.                *)
EXTENDS Handoff, TLAPS

LEMMA RegisterStep ==
    ASSUME TypeOK, HandoffInv, NEW r \in Request, Register(r)
    PROVE  TypeOK' /\ HandoffInv'
<1> USE HandoffAssumption DEF HandoffInv, Register, Goto, InCall, Ended, Answerers, Free
<1>1. TypeOK'
  BY DEF TypeOK
<1>2. NoLeak'
  BY DEF TypeOK, NoLeak
<1>3. NeverDropped'
  BY DEF TypeOK, NeverDropped, QueueSound, TakenSound, AnswererSound
<1>4. QueueSound'
  BY DEF TypeOK, QueueSound, TakenSound
<1>5. TakenSound'
  BY DEF TypeOK, TakenSound, QueueSound, NeverDropped, AnswererSound
<1>6. AnswererSound'
  BY DEF TypeOK, AnswererSound, QueueSound
<1>7. PollerFree'
  BY DEF TypeOK, PollerFree
<1>8. QED BY <1>1, <1>2, <1>3, <1>4, <1>5, <1>6, <1>7

LEMMA EnqueueStep ==
    ASSUME TypeOK, HandoffInv, NEW r \in Request, Enqueue(r)
    PROVE  TypeOK' /\ HandoffInv'
<1> USE HandoffAssumption DEF HandoffInv, Enqueue, Goto, InCall, Ended, Answerers
<1>1. TypeOK'
  BY DEF TypeOK
<1>2. NoLeak'
  BY DEF TypeOK, NoLeak
<1>3. NeverDropped'
  BY DEF TypeOK, NeverDropped, QueueSound, TakenSound, AnswererSound
<1>4. QueueSound'
  BY DEF TypeOK, QueueSound, TakenSound
<1>5. TakenSound'
  BY DEF TypeOK, TakenSound, QueueSound, NeverDropped, AnswererSound
<1>6. AnswererSound'
  BY DEF TypeOK, AnswererSound, QueueSound
<1>7. PollerFree'
  BY DEF TypeOK, PollerFree
<1>8. QED BY <1>1, <1>2, <1>3, <1>4, <1>5, <1>6, <1>7

LEMMA CtxDoneStep ==
    ASSUME TypeOK, HandoffInv, NEW r \in Request, CtxDone(r)
    PROVE  TypeOK' /\ HandoffInv'
<1> USE HandoffAssumption DEF HandoffInv, CtxDone, Goto, InCall, Ended, Answerers
<1>1. TypeOK'
  BY DEF TypeOK
<1>2. NoLeak'
  BY DEF TypeOK, NoLeak
<1>3. NeverDropped'
  BY DEF TypeOK, NeverDropped, QueueSound, TakenSound, AnswererSound
<1>4. QueueSound'
  BY DEF TypeOK, QueueSound, TakenSound
<1>5. TakenSound'
  BY DEF TypeOK, TakenSound, QueueSound, NeverDropped, AnswererSound
<1>6. AnswererSound'
  BY DEF TypeOK, AnswererSound, QueueSound
<1>7. PollerFree'
  BY DEF TypeOK, PollerFree
<1>8. QED BY <1>1, <1>2, <1>3, <1>4, <1>5, <1>6, <1>7

LEMMA ReceiveStep ==
    ASSUME TypeOK, HandoffInv, NEW r \in Request, Receive(r)
    PROVE  TypeOK' /\ HandoffInv'
<1> USE HandoffAssumption DEF HandoffInv, Receive, Goto, InCall, Ended, Answerers
<1>1. TypeOK'
  BY DEF TypeOK
<1>2. NoLeak'
  BY DEF TypeOK, NoLeak
<1>3. NeverDropped'
  BY DEF TypeOK, NeverDropped, QueueSound, TakenSound, AnswererSound
<1>4. QueueSound'
  BY DEF TypeOK, QueueSound, TakenSound
<1>5. TakenSound'
  BY DEF TypeOK, TakenSound, QueueSound, NeverDropped, AnswererSound
<1>6. AnswererSound'
  BY DEF TypeOK, AnswererSound, QueueSound
<1>7. PollerFree'
  BY DEF TypeOK, PollerFree
<1>8. QED BY <1>1, <1>2, <1>3, <1>4, <1>5, <1>6, <1>7

LEMMA TimeoutStep ==
    ASSUME TypeOK, HandoffInv, NEW r \in Request, Timeout(r)
    PROVE  TypeOK' /\ HandoffInv'
<1> USE HandoffAssumption DEF HandoffInv, Timeout, Goto, InCall, Ended, Answerers
<1>1. TypeOK'
  BY DEF TypeOK
<1>2. NoLeak'
  BY DEF TypeOK, NoLeak
<1>3. NeverDropped'
  BY DEF TypeOK, NeverDropped, QueueSound, TakenSound, AnswererSound
<1>4. QueueSound'
  BY DEF TypeOK, QueueSound, TakenSound
<1>5. TakenSound'
  BY DEF TypeOK, TakenSound, QueueSound, NeverDropped, AnswererSound
<1>6. AnswererSound'
  BY DEF TypeOK, AnswererSound, QueueSound
<1>7. PollerFree'
  BY DEF TypeOK, PollerFree
<1>8. QED BY <1>1, <1>2, <1>3, <1>4, <1>5, <1>6, <1>7

LEMMA LeaveStep ==
    ASSUME TypeOK, HandoffInv, NEW r \in Request, Leave(r)
    PROVE  TypeOK' /\ HandoffInv'
<1> USE HandoffAssumption DEF HandoffInv, Leave, Goto, InCall, Ended, Answerers
<1>1. TypeOK'
  BY DEF TypeOK
<1>2. NoLeak'
  BY DEF TypeOK, NoLeak
<1>3. NeverDropped'
  BY DEF TypeOK, NeverDropped, QueueSound, TakenSound, AnswererSound
<1>4. QueueSound'
  BY DEF TypeOK, QueueSound, TakenSound
<1>5. TakenSound'
  BY DEF TypeOK, TakenSound, QueueSound, NeverDropped, AnswererSound
<1>6. AnswererSound'
  BY DEF TypeOK, AnswererSound, QueueSound
<1>7. PollerFree'
  BY DEF TypeOK, PollerFree
<1>8. QED BY <1>1, <1>2, <1>3, <1>4, <1>5, <1>6, <1>7

LEMMA PollLookupStep ==
    ASSUME TypeOK, HandoffInv, NEW a \in Agent, PollLookup(a)
    PROVE  TypeOK' /\ HandoffInv'
<1> USE HandoffAssumption DEF HandoffInv, PollLookup, Goto, InCall, Ended, Answerers, Free
<1>1. TypeOK'
  BY DEF TypeOK
<1>2. NoLeak'
  BY DEF TypeOK, NoLeak
<1>3. NeverDropped'
  BY DEF TypeOK, NeverDropped, QueueSound, TakenSound, AnswererSound
<1>4. QueueSound'
  BY DEF TypeOK, QueueSound, TakenSound
<1>5. TakenSound'
  BY DEF TypeOK, TakenSound, QueueSound, NeverDropped, AnswererSound
<1>6. AnswererSound'
  BY DEF TypeOK, AnswererSound, QueueSound
<1>7. PollerFree'
  BY DEF TypeOK, PollerFree
<1>8. QED BY <1>1, <1>2, <1>3, <1>4, <1>5, <1>6, <1>7

LEMMA PollRecvStep ==
    ASSUME TypeOK, HandoffInv, NEW a \in Agent, PollRecv(a)
    PROVE  TypeOK' /\ HandoffInv'
<1> USE HandoffAssumption DEF HandoffInv, PollRecv, Goto, InCall, Ended, Answerers
<1>1. TypeOK'
  <2>1. CASE queue = <<>>
    BY <2>1 DEF TypeOK
  <2>2. CASE queue # <<>>
    <3>1. /\ Head(queue) \in Request /\ Tail(queue) \in Seq(Request)
          /\ Len(Tail(queue)) = Len(queue) - 1 /\ Len(queue) \in Nat
      BY <2>2 DEF TypeOK
    <3>2. queue' \in Seq(Request) /\ Len(queue') <= QueueCap
      BY <2>2, <3>1 DEF TypeOK
    <3>3. taker' \in [Request -> Agent \cup {NoAgent}] /\ answering' \in SUBSET Answerers
      BY <2>2, <3>1 DEF TypeOK
    <3>4. QED BY <3>2, <3>3 DEF TypeOK
  <2>3. QED BY <2>1, <2>2
<1>2. NoLeak'
  BY DEF TypeOK, NoLeak
<1>3. NeverDropped'
  BY DEF TypeOK, NeverDropped, QueueSound, TakenSound, AnswererSound
<1>4. QueueSound'
  <2>1. CASE queue = <<>>
    BY <2>1 DEF TypeOK, QueueSound
  <2>2. CASE queue # <<>>
    <3>0. queue' = Tail(queue) /\ queue \in Seq(Request)
      BY <2>2 DEF TypeOK
    <3>1. /\ Head(queue) = queue[1] /\ Len(queue) \in Nat /\ Len(queue) >= 1
          /\ Len(queue') = Len(queue) - 1 /\ Head(queue) \in Request
          /\ \A i \in 1..Len(queue') : queue'[i] = queue[i + 1]
      BY ONLY <2>2, <3>0
    <3>2. \A i \in 1..Len(queue') :
             /\ i + 1 \in 1..Len(queue) /\ 1 \in 1..Len(queue) /\ i + 1 # 1
      BY <3>1
    <3>3. ASSUME NEW i \in 1..Len(queue')
          PROVE  queue'[i] # queue[1] /\ queue'[i] \in Request
      BY <3>1, <3>2 DEF QueueSound, TypeOK
    <3>4. taker' = [taker EXCEPT ![queue[1]] = a]
      BY <2>2, <3>1
    <3>5. ASSUME NEW i \in 1..Len(queue')
          PROVE  pc'[queue'[i]] \notin {"new", "enqueue"} /\ taker'[queue'[i]] = NoAgent
      BY <3>1, <3>2, <3>3, <3>4 DEF QueueSound, TypeOK
    <3>6. ASSUME NEW i \in 1..Len(queue'), NEW j \in 1..Len(queue'), queue'[i] = queue'[j]
          PROVE  i = j
      <4>1. queue[i + 1] = queue[j + 1]
        BY <3>1, <3>6
      <4>2. i + 1 = j + 1
        BY <3>2, <4>1 DEF QueueSound
      <4>3. QED BY <4>2
    <3>7. QED BY <3>5, <3>6 DEF QueueSound
  <2>3. QED BY <2>1, <2>2
<1>5. TakenSound'
  BY DEF TypeOK, TakenSound, QueueSound, NeverDropped, AnswererSound
<1>6. AnswererSound'
  BY DEF TypeOK, AnswererSound, QueueSound
<1>7. PollerFree'
  BY DEF TypeOK, PollerFree
<1>8. QED BY <1>1, <1>2, <1>3, <1>4, <1>5, <1>6, <1>7

LEMMA AnswerLookupStep ==
    ASSUME TypeOK, HandoffInv, NEW g \in answering, AnswerLookup(g)
    PROVE  TypeOK' /\ HandoffInv'
<1> USE HandoffAssumption DEF HandoffInv, AnswerLookup, Goto, InCall, Ended, Answerers
<1>1. TypeOK'
  BY DEF TypeOK
<1>2. NoLeak'
  BY DEF TypeOK, NoLeak
<1>3. NeverDropped'
  BY DEF TypeOK, NeverDropped, QueueSound, TakenSound, AnswererSound
<1>4. QueueSound'
  BY DEF TypeOK, QueueSound, TakenSound
<1>5. TakenSound'
  BY DEF TypeOK, TakenSound, QueueSound, NeverDropped, AnswererSound
<1>6. AnswererSound'
  BY DEF TypeOK, AnswererSound, QueueSound
<1>7. PollerFree'
  BY DEF TypeOK, PollerFree
<1>8. QED BY <1>1, <1>2, <1>3, <1>4, <1>5, <1>6, <1>7

LEMMA AnswerSendStep ==
    ASSUME TypeOK, HandoffInv, NEW g \in answering, AnswerSend(g)
    PROVE  TypeOK' /\ HandoffInv'
<1> USE HandoffAssumption DEF HandoffInv, AnswerSend, Goto, InCall, Ended, Answerers
<1>1. TypeOK'
  BY DEF TypeOK
<1>2. NoLeak'
  BY DEF TypeOK, NoLeak
<1>3. NeverDropped'
  BY DEF TypeOK, NeverDropped, QueueSound, TakenSound, AnswererSound
<1>4. QueueSound'
  BY DEF TypeOK, QueueSound, TakenSound
<1>5. TakenSound'
  BY DEF TypeOK, TakenSound, QueueSound, NeverDropped, AnswererSound
<1>6. AnswererSound'
  BY DEF TypeOK, AnswererSound, QueueSound
<1>7. PollerFree'
  BY DEF TypeOK, PollerFree
<1>8. QED BY <1>1, <1>2, <1>3, <1>4, <1>5, <1>6, <1>7

LEMMA CloseStep ==
    ASSUME TypeOK, HandoffInv, Close
    PROVE  TypeOK' /\ HandoffInv'
<1> USE HandoffAssumption DEF HandoffInv, Close, Goto, InCall, Ended, Answerers
<1>1. TypeOK'
  BY DEF TypeOK
<1>2. NoLeak'
  BY DEF TypeOK, NoLeak
<1>3. NeverDropped'
  BY DEF TypeOK, NeverDropped, QueueSound, TakenSound, AnswererSound
<1>4. QueueSound'
  BY DEF TypeOK, QueueSound, TakenSound
<1>5. TakenSound'
  BY DEF TypeOK, TakenSound, QueueSound, NeverDropped, AnswererSound
<1>6. AnswererSound'
  BY DEF TypeOK, AnswererSound, QueueSound
<1>7. PollerFree'
  BY DEF TypeOK, PollerFree
<1>8. QED BY <1>1, <1>2, <1>3, <1>4, <1>5, <1>6, <1>7

LEMMA InvStep ==
    ASSUME TypeOK, HandoffInv, [Next]_vars
    PROVE  TypeOK' /\ HandoffInv'
<1>1. CASE \E r \in Request : RequestHandoff(r)
  BY <1>1, RegisterStep, EnqueueStep, CtxDoneStep, ReceiveStep, TimeoutStep, LeaveStep
     DEF RequestHandoff
<1>2. CASE \E a \in Agent : TryRecvRequest(a)
  BY <1>2, PollLookupStep, PollRecvStep DEF TryRecvRequest
<1>3. CASE \E g \in answering : SendResponse(g)
  BY <1>3, AnswerLookupStep, AnswerSendStep DEF SendResponse
<1>4. CASE Close
  BY <1>4, CloseStep
<1>5. CASE UNCHANGED vars
  BY <1>5 DEF vars, TypeOK, HandoffInv, NoLeak, NeverDropped, QueueSound, TakenSound,
     AnswererSound, PollerFree
<1>6. QED BY <1>1, <1>2, <1>3, <1>4, <1>5 DEF Next

LEMMA InitInv ==
    ASSUME Init PROVE TypeOK /\ HandoffInv
<1> USE HandoffAssumption DEF Init, InCall, Ended
<1>1. TypeOK
  BY DEF TypeOK, Answerers
<1>2. HandoffInv
  BY DEF HandoffInv, NoLeak, NeverDropped, QueueSound, TakenSound, AnswererSound, PollerFree
<1>3. QED BY <1>1, <1>2

\* The inductive invariant of the handoff queue.
THEOREM HandoffInvariant == Spec => [](TypeOK /\ HandoffInv)
<1>1. Init => TypeOK /\ HandoffInv
  BY InitInv
<1>2. TypeOK /\ HandoffInv /\ [Next]_vars => (TypeOK /\ HandoffInv)'
  BY InvStep
<1>3. QED BY <1>1, <1>2, PTL DEF Spec

\* No way out of RequestHandoff leaves its entry in the response map.
THEOREM NothingLeaks == Spec => []NoLeak
<1>1. TypeOK /\ HandoffInv => NoLeak
  BY DEF HandoffInv
<1>2. QED BY <1>1, HandoffInvariant, PTL

\* SendResponse never finds a response channel full.
THEOREM NothingDropped == Spec => []NeverDropped
<1>1. TypeOK /\ HandoffInv => NeverDropped
  BY DEF HandoffInv
<1>2. QED BY <1>1, HandoffInvariant, PTL

-----------------------------------------------------------------------------
(* Refinement: every step is a step of the promise or leaves it unchanged.   *)

LEMMA AbstractStep ==
    ASSUME TypeOK, NEW r \in Request, NEW p \in {"new"} \cup InCall \cup Ended, Goto(r, p)
    PROVE  Abstract' = [Abstract EXCEPT ![r] = Outcome(p)]
BY DEF Abstract, TypeOK, Goto

LEMMA AbstractSame ==
    ASSUME TypeOK, NEW r \in Request, NEW p \in InCall, pc[r] \in InCall, Goto(r, p)
    PROVE  UNCHANGED Abstract
BY DEF Abstract, TypeOK, Goto, InCall, Outcome

LEMMA CallRefines ==
    ASSUME TypeOK, HandoffInv, NEW r \in Request, RequestHandoff(r)
    PROVE  [Promise!Next]_(Promise!vars)
<1>1. CASE Register(r)
  <2>1. PICK a \in Agent \cup {NoAgent} : asker' = [asker EXCEPT ![r] = a]
    BY <1>1 DEF Register
  <2>2. Abstract[r] = "idle" /\ UNCHANGED taker
    BY <1>1 DEF Register, Abstract, Outcome
  <2>3. CASE registered
    <3>1. Abstract' = [Abstract EXCEPT ![r] = "asked"]
      BY <1>1, <2>3, AbstractStep DEF Register, Outcome, InCall
    <3>2. Promise!Ask(r, a)
      BY <2>1, <2>2, <3>1 DEF Promise!Ask
    <3>3. QED BY <3>2 DEF Promise!Next
  <2>4. CASE ~registered
    <3>1. Abstract' = [Abstract EXCEPT ![r] = "failed"]
      BY <1>1, <2>4, AbstractStep DEF Register, Outcome, InCall, Ended
    <3>2. Promise!Refuse(r, a)
      BY <2>1, <2>2, <3>1 DEF Promise!Refuse
    <3>3. QED BY <3>2 DEF Promise!Next
  <2>5. QED BY <2>3, <2>4
<1>2. CASE Enqueue(r) \/ CtxDone(r) \/ Receive(r) \/ Timeout(r)
  <2>1. UNCHANGED Abstract
    BY <1>2, AbstractSame DEF Enqueue, CtxDone, Receive, Timeout, InCall
  <2>2. UNCHANGED <<asker, taker>>
    BY <1>2 DEF Enqueue, CtxDone, Receive, Timeout
  <2>3. QED BY <2>1, <2>2 DEF Promise!vars
<1>3. CASE Leave(r)
  <2>1. Abstract[r] = "asked" /\ UNCHANGED <<asker, taker>>
    BY <1>3 DEF Leave, Abstract, Outcome, InCall
  <2>2. CASE got[r] # NoAgent
    <3>1. taker[r] # NoAgent
      BY <2>2 DEF HandoffInv, TakenSound
    <3>2. Abstract' = [Abstract EXCEPT ![r] = "answered"]
      BY <1>3, <2>2, AbstractStep DEF Leave, Outcome, InCall, Ended
    <3>3. Promise!Answer(r)
      BY <2>1, <3>1, <3>2 DEF Promise!Answer
    <3>4. QED BY <3>3 DEF Promise!Next
  <2>3. CASE got[r] = NoAgent
    <3>1. Abstract' = [Abstract EXCEPT ![r] = "failed"]
      BY <1>3, <2>3, AbstractStep DEF Leave, Outcome, InCall, Ended
    <3>2. Promise!Fail(r)
      BY <2>1, <3>1 DEF Promise!Fail
    <3>3. QED BY <3>2 DEF Promise!Next
  <2>4. QED BY <2>2, <2>3
<1>4. QED BY <1>1, <1>2, <1>3 DEF RequestHandoff

LEMMA PollRefines ==
    ASSUME TypeOK, HandoffInv, NEW a \in Agent, PollRecv(a)
    PROVE  [Promise!Next]_(Promise!vars)
<1>1. UNCHANGED <<pc, asker>> /\ UNCHANGED Abstract
  BY DEF PollRecv, Abstract
<1>2. CASE queue = <<>>
  BY <1>1, <1>2 DEF PollRecv, Promise!vars
<1>3. CASE queue # <<>>
  <2>1. /\ Head(queue) \in Request /\ Head(queue) = queue[1] /\ 1 \in 1..Len(queue)
        /\ taker' = [taker EXCEPT ![Head(queue)] = a] /\ a \in polling
    BY <1>3 DEF PollRecv, TypeOK
  <2>2. taker[Head(queue)] = NoAgent /\ pc[Head(queue)] \notin {"new", "enqueue"}
    BY <2>1 DEF HandoffInv, QueueSound
  <2>3. pc[Head(queue)] # "answered"
    BY <2>1, <2>2 DEF HandoffInv, TakenSound
  <2>4. Abstract[Head(queue)] \in {"asked", "failed"}
    BY <2>1, <2>2, <2>3 DEF Abstract, Outcome, TypeOK, InCall, Ended
  <2>5. Abstract[Head(queue)] = "asked" => a # asker[Head(queue)]
    <3>1. Abstract[Head(queue)] = "asked" => pc[Head(queue)] \in InCall
      BY <2>1 DEF Abstract, Outcome, TypeOK, InCall, Ended
    <3>2. QED BY <2>1, <3>1 DEF HandoffInv, PollerFree
  <2>6. Promise!Take(Head(queue), a)
    BY <1>1, <2>1, <2>2, <2>4, <2>5 DEF Promise!Take
  <2>7. QED BY <2>1, <2>6 DEF Promise!Next
<1>4. QED BY <1>2, <1>3

LEMMA NextRefines ==
    ASSUME TypeOK, HandoffInv, [Next]_vars
    PROVE  [Promise!Next]_(Promise!vars)
<1>1. CASE \E r \in Request : RequestHandoff(r)
  BY <1>1, CallRefines
<1>2. CASE \E a \in Agent : PollRecv(a)
  BY <1>2, PollRefines
<1>3. CASE (\E a \in Agent : PollLookup(a)) \/ (\E g \in answering : SendResponse(g))
           \/ Close \/ UNCHANGED vars
  <2>1. UNCHANGED <<pc, asker, taker>>
    BY <1>3 DEF PollLookup, SendResponse, AnswerLookup, AnswerSend, Close, vars
  <2>2. QED BY <2>1 DEF Promise!vars, Abstract
<1>4. QED BY <1>1, <1>2, <1>3 DEF Next, TryRecvRequest

\* The handoff queue implements the promise: one outcome per question, one
\* taker, an answer only from the taker, and never from the asker itself.
THEOREM HandoffRefines == Spec => KeepsPromise
<1>1. Init => Promise!Init
  BY DEF Init, Promise!Init, Abstract, Outcome
<1>2. TypeOK /\ HandoffInv /\ [Next]_vars => [Promise!Next]_(Promise!vars)
  BY NextRefines
<1>3. QED BY <1>1, <1>2, HandoffInvariant, PTL DEF Spec, KeepsPromise, Promise!Spec

=============================================================================
