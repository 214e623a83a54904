---------------------------- MODULE WarRoomProofs ----------------------------
(* The coordinator for any number of sessions, agents and callers: type      *)
(* correctness, then one inductive invariant (IInv of WarRoom) from which    *)
(* the safety properties of the runs follow.  The actions fall in two        *)
(* classes.  A quiet step changes neither the maps nor the disk nor a call   *)
(* of StartWarRoom that is under way; QuietStep handles all of them at once. *)
(* The loud steps (the StartWarRoom steps, SubmitRecord, the closes,         *)
(* ParentDone, Crash and RestoreSession) have a lemma each, one step per     *)
(* conjunct of the invariant.                                                *)
EXTENDS WarRoom, TLAPS

LEMMA FrameType ==
    ASSUME NEW p \in CallPCs, NEW s \in Session \cup {NoSession},
           NEW a \in Agent \cup {NoAgent}, NEW T \in SUBSET (Agent \cup Session),
           FrameOK(Frame(p, s, a, T))
    PROVE  Frame(p, s, a, T) \in Frames
<1>1. NoRow \in Rows
  BY DEF NoRow, Rows, Statuses, NoFindings, NewAgents, AgentStatuses
<1>2. QED BY <1>1 DEF Frame, Frames, RawFrames

LEMMA EnterType ==
    ASSUME call \in [Caller -> Frames], NEW c \in Caller, NEW f \in Frames, Enter(c, f)
    PROVE  call' \in [Caller -> Frames]
BY DEF Enter

LEMMA IdleType == IdleCall \in Frames
<1>1. FrameOK(IdleCall)
  BY DEF IdleCall, Frame, FrameOK
<1>2. QED BY <1>1, FrameType DEF IdleCall, CallPCs

LEMMA GotoType ==
    ASSUME call \in [Caller -> Frames], NEW c \in Caller, NEW p \in CallPCs, Goto(c, p),
           FrameOK([call[c] EXCEPT !.pc = p])
    PROVE  call' \in [Caller -> Frames]
<1>1. [call[c] EXCEPT !.pc = p] \in Frames
  BY DEF Frames, RawFrames
<1>2. QED BY <1>1, EnterType DEF Goto

LEMMA ReturnType ==
    ASSUME call \in [Caller -> Frames], NEW c \in Caller, Return(c)
    PROVE  call' \in [Caller -> Frames]
BY IdleType, EnterType DEF Return

LEMMA RowType ==
    ASSUME TypeOK, NEW s \in Session
    PROVE  Row(s) \in Rows
BY DEF TypeOK, CoordType, WorkType, Row, Rows

LEMMA DisposeType ==
    ASSUME TypeOK, NEW s \in Session, Dispose(s)
    PROVE  /\ status' \in [Session -> Statuses]
           /\ reg' \in [Tables -> SUBSET Session]
           /\ closedCh' \in SUBSET Session /\ cancelled' \in SUBSET Session
           /\ gauge' \in Int
BY DEF TypeOK, CoordType, ChansType, EnvType, Dispose, Statuses

LEMMA CloseType ==
    ASSUME TypeOK, NEW s \in Session, Close(s)
    PROVE  CoordType' /\ ChansType' /\ WorkType' /\ DiskType'
           /\ gauge' \in Int /\ proc' \in {"up", "panicked"} /\ crashes' \in Nat
<1>1. [Row(s) EXCEPT !.st = "closed"] \in Rows
  BY RowType DEF Rows, Statuses
<1>2. CoordType'
  BY DisposeType DEF TypeOK, CoordType, Close
<1>3. ChansType'
  BY DisposeType DEF TypeOK, ChansType, Close
<1>4. WorkType'
  BY DEF TypeOK, WorkType, Close, work
<1>5. DiskType'
  BY <1>1 DEF TypeOK, DiskType, Close
<1>6. QED BY <1>2, <1>3, <1>4, <1>5, DisposeType DEF TypeOK, EnvType, Close

LEMMA CallerType ==
    ASSUME TypeOK, NEW c \in Caller
    PROVE  call[c] \in Frames /\ call[c].pc \in CallPCs
BY DEF TypeOK, Frames, RawFrames

LEMMA DeliverType ==
    ASSUME inbox \in [Session -> [Agent -> Seq(Message)]],
           NEW s \in Session, NEW a \in Agent, NEW m \in Message, Deliver(s, a, m)
    PROVE  inbox' \in [Session -> [Agent -> Seq(Message)]]
<1>1. Append(inbox[s][a], m) \in Seq(Message)
  OBVIOUS
<1>2. [inbox[s] EXCEPT ![a] = Append(inbox[s][a], m)] \in [Agent -> Seq(Message)]
  BY <1>1
<1>3. QED BY <1>2 DEF Deliver

LEMMA PostFindingType ==
    ASSUME fq \in [Session -> Seq(Agent)],
           NEW s \in Session, NEW a \in Agent, PostFinding(s, a)
    PROVE  fq' \in [Session -> Seq(Agent)]
<1>1. Append(fq[s], a) \in Seq(Agent)
  OBVIOUS
<1>2. QED BY <1>1 DEF PostFinding

LEMMA StartEvictType ==
    ASSUME TypeOK, NEW c \in Caller, StartEvict(c)
    PROVE  TypeOK'
<1>1. CoordType'
  BY DisposeType DEF TypeOK, CoordType, StartEvict
<1>2. ChansType'
  BY DisposeType DEF TypeOK, CoordType, ChansType, StartEvict
<1>3. WorkType'
  BY DEF TypeOK, WorkType, work, StartEvict
<1>4. DiskType'
  BY DEF TypeOK, DiskType, disk, history, StartEvict
<1>5. EnvType'
  BY DisposeType DEF TypeOK, CoordType, EnvType, StartEvict, Begin
<1>6. call' \in [Caller -> Frames]
  BY GotoType DEF TypeOK, StartEvict, CallPCs, Frames, RawFrames, FrameOK
<1>7. QED BY <1>1, <1>2, <1>3, <1>4, <1>5, <1>6 DEF TypeOK

LEMMA StartBuildType ==
    ASSUME TypeOK, NEW c \in Caller, StartBuild(c)
    PROVE  TypeOK'
<1>1. CoordType'
  BY WarRoomAssumption DEF TypeOK, CoordType, StartBuild
<1>2. ChansType'
  BY DEF TypeOK, ChansType, chans, StartBuild
<1>3. WorkType'
  BY DEF TypeOK, WorkType, work, StartBuild
<1>4. DiskType'
  BY DEF TypeOK, DiskType, disk, history, StartBuild
<1>5. EnvType'
  BY DEF TypeOK, EnvType, history, StartBuild
<1>6. call' \in [Caller -> Frames]
  BY FrameType, EnterType DEF TypeOK, StartBuild, CallPCs, Frame, FrameOK
<1>7. QED BY <1>1, <1>2, <1>3, <1>4, <1>5, <1>6 DEF TypeOK

LEMMA StartPublishType ==
    ASSUME TypeOK, NEW c \in Caller, StartPublish(c)
    PROVE  TypeOK'
<1>1. CoordType'
  BY DEF TypeOK, CoordType, StartPublish, At, Frames, RawFrames, FrameOK, Statuses
<1>2. ChansType'
  BY DEF TypeOK, ChansType, chans, StartPublish
<1>3. WorkType'
  BY DEF TypeOK, WorkType, work, StartPublish
<1>4. DiskType'
  BY DEF TypeOK, DiskType, disk, history, StartPublish
<1>5. EnvType'
  BY DEF TypeOK, EnvType, history, StartPublish
<1>6. call' \in [Caller -> Frames]
  BY GotoType DEF TypeOK, StartPublish, At, CallPCs, Frames, RawFrames, FrameOK
<1>7. QED BY <1>1, <1>2, <1>3, <1>4, <1>5, <1>6 DEF TypeOK

LEMMA StartSaveType ==
    ASSUME TypeOK, NEW c \in Caller, StartSave(c)
    PROVE  TypeOK'
<1>1. CoordType'
  BY DEF TypeOK, CoordType, coord, StartSave
<1>2. ChansType'
  BY DEF TypeOK, ChansType, chans, StartSave
<1>3. WorkType'
  BY DEF TypeOK, WorkType, work, StartSave
<1>4. DiskType'
  BY DEF TypeOK, DiskType, disk, history, StartSave
<1>5. EnvType'
  BY DEF TypeOK, EnvType, history, StartSave
<1>6. call' \in [Caller -> Frames]
  <2> DEFINE f == [call[c] EXCEPT !.pc = "commit", !.row = Row(call[c].s)]
  <2>1. f \in Frames
    BY RowType DEF TypeOK, StartSave, At, CallPCs, Frames, RawFrames, FrameOK
  <2>2. QED BY <2>1, EnterType DEF TypeOK, StartSave
<1>7. QED BY <1>1, <1>2, <1>3, <1>4, <1>5, <1>6 DEF TypeOK

LEMMA StartCommitType ==
    ASSUME TypeOK, NEW c \in Caller, StartCommit(c)
    PROVE  TypeOK'
<1>1. CoordType'
  BY DEF TypeOK, CoordType, coord, StartCommit
<1>2. ChansType'
  BY DEF TypeOK, ChansType, chans, StartCommit
<1>3. WorkType'
  BY DEF TypeOK, WorkType, work, StartCommit
<1>4. DiskType'
  BY DEF TypeOK, DiskType, history, StartCommit, At, CallPCs, Frames, RawFrames, FrameOK
<1>5. EnvType'
  BY DEF TypeOK, EnvType, history, StartCommit
<1>6. call' \in [Caller -> Frames]
  BY GotoType DEF TypeOK, StartCommit, At, CallPCs, Frames, RawFrames, FrameOK
<1>7. QED BY <1>1, <1>2, <1>3, <1>4, <1>5, <1>6 DEF TypeOK

LEMMA StartSpawnType ==
    ASSUME TypeOK, NEW c \in Caller, StartSpawn(c)
    PROVE  TypeOK'
<1>1. CoordType'
  BY DEF TypeOK, CoordType, coord, StartSpawn
<1>2. ChansType'
  BY DEF TypeOK, ChansType, chans, StartSpawn
<1>3. WorkType'
  <2> DEFINE s == call[c].s
             goroutines == [a \in Agent |-> IF a \in team[s] THEN "start" ELSE "none"]
  <2>1. s \in Session
    BY CallerType DEF StartSpawn, At, Frames, FrameOK
  <2>2. goroutines \in [Agent -> AgentPCs]
    BY DEF AgentPCs
  <2>3. ag' = [ag EXCEPT ![s] = goroutines]
    BY DEF StartSpawn
  <2>4. pf' = [pf EXCEPT ![s] = [pf[s] EXCEPT !.pc = "start"]]
    BY DEF StartSpawn
  <2> HIDE DEF s, goroutines
  <2>5. ag' \in [Session -> [Agent -> AgentPCs]]
    BY <2>1, <2>2, <2>3 DEF TypeOK, WorkType
  <2>6. [pf[s] EXCEPT !.pc = "start"] \in PfFrames
    BY <2>1 DEF TypeOK, WorkType, PfFrames
  <2>7. pf' \in [Session -> PfFrames]
    BY <2>1, <2>4, <2>6 DEF TypeOK, WorkType
  <2>8. UNCHANGED <<agentSt, findings>>
    BY DEF StartSpawn
  <2>9. QED BY <2>5, <2>7, <2>8 DEF TypeOK, WorkType
<1>4. DiskType'
  BY DEF TypeOK, DiskType, disk, history, StartSpawn
<1>5. EnvType'
  BY DEF TypeOK, EnvType, history, StartSpawn
<1>6. call' \in [Caller -> Frames]
  BY ReturnType DEF TypeOK, StartSpawn
<1>7. QED BY <1>1, <1>2, <1>3, <1>4, <1>5, <1>6 DEF TypeOK

LEMMA AssignLookupType ==
    ASSUME TypeOK, NEW c \in Caller, AssignLookup(c)
    PROVE  TypeOK'
<1>1. CoordType'
  BY DEF TypeOK, CoordType, coord, AssignLookup
<1>2. ChansType'
  BY DEF TypeOK, ChansType, chans, AssignLookup
<1>3. WorkType'
  BY DEF TypeOK, WorkType, work, AssignLookup
<1>4. DiskType'
  BY DEF TypeOK, DiskType, disk, AssignLookup
<1>5. EnvType'
  BY DEF TypeOK, EnvType, history, AssignLookup, Begin
<1>6. call' \in [Caller -> Frames]
  BY FrameType, EnterType DEF TypeOK, CoordType, Tables, AssignLookup, CallPCs, Frame, FrameOK
<1>7. QED BY <1>1, <1>2, <1>3, <1>4, <1>5, <1>6 DEF TypeOK

LEMMA AssignSendType ==
    ASSUME TypeOK, NEW c \in Caller, AssignSend(c)
    PROVE  TypeOK'
<1>1. CoordType'
  BY DEF TypeOK, CoordType, coord, AssignSend
<1>2. ChansType'
  BY DeliverType DEF TypeOK, ChansType, Message, AssignSend, PanicCall, At, CallPCs, Frames, RawFrames, FrameOK
<1>3. WorkType'
  BY DEF TypeOK, WorkType, work, AssignSend
<1>4. DiskType'
  BY DEF TypeOK, DiskType, disk, history, AssignSend
<1>5. EnvType'
  BY DEF TypeOK, EnvType, history, AssignSend, PanicCall
<1>6. call' \in [Caller -> Frames]
  BY ReturnType DEF TypeOK, AssignSend, PanicCall
<1>7. QED BY <1>1, <1>2, <1>3, <1>4, <1>5, <1>6 DEF TypeOK

LEMMA AssignCancelledType ==
    ASSUME TypeOK, NEW c \in Caller, AssignCancelled(c)
    PROVE  TypeOK'
<1>1. CoordType'
  BY DEF TypeOK, CoordType, coord, AssignCancelled
<1>2. ChansType'
  BY DEF TypeOK, ChansType, chans, AssignCancelled
<1>3. WorkType'
  BY DEF TypeOK, WorkType, work, AssignCancelled
<1>4. DiskType'
  BY DEF TypeOK, DiskType, disk, history, AssignCancelled
<1>5. EnvType'
  BY DEF TypeOK, EnvType, history, AssignCancelled
<1>6. call' \in [Caller -> Frames]
  BY ReturnType DEF TypeOK, AssignCancelled
<1>7. QED BY <1>1, <1>2, <1>3, <1>4, <1>5, <1>6 DEF TypeOK

LEMMA BroadcastLookupType ==
    ASSUME TypeOK, NEW c \in Caller, BroadcastLookup(c)
    PROVE  TypeOK'
<1>1. CoordType'
  BY DEF TypeOK, CoordType, coord, BroadcastLookup
<1>2. ChansType'
  BY DEF TypeOK, ChansType, chans, BroadcastLookup
<1>3. WorkType'
  BY DEF TypeOK, WorkType, work, BroadcastLookup
<1>4. DiskType'
  BY DEF TypeOK, DiskType, disk, BroadcastLookup
<1>5. EnvType'
  BY DEF TypeOK, EnvType, history, BroadcastLookup, Begin
<1>6. call' \in [Caller -> Frames]
  BY FrameType, EnterType DEF TypeOK, CoordType, Tables, BroadcastLookup, CallPCs, Frame, FrameOK
<1>7. QED BY <1>1, <1>2, <1>3, <1>4, <1>5, <1>6 DEF TypeOK

LEMMA BroadcastSendType ==
    ASSUME TypeOK, NEW c \in Caller, BroadcastSend(c)
    PROVE  TypeOK'
<1>1. CoordType'
  BY DEF TypeOK, CoordType, coord, BroadcastSend
<1>2. ChansType'
  <2>1. call[c].todo \subseteq Agent
    BY DEF TypeOK, BroadcastSend, At, CallPCs, Frames, RawFrames, FrameOK
  <2>2. call[c].s \in Session
    BY DEF TypeOK, BroadcastSend, At, Frames, RawFrames, FrameOK
  <2>3. \/ UNCHANGED inbox
        \/ \E a \in Agent : Deliver(call[c].s, a, "bcast")
    BY <2>1 DEF BroadcastSend, PanicCall, Offer
  <2>4. QED BY <2>2, <2>3, DeliverType DEF TypeOK, ChansType, Message, BroadcastSend
<1>3. WorkType'
  BY DEF TypeOK, WorkType, work, BroadcastSend
<1>4. DiskType'
  BY DEF TypeOK, DiskType, disk, history, BroadcastSend
<1>5. EnvType'
  BY DEF TypeOK, EnvType, history, BroadcastSend, PanicCall
<1>6. call' \in [Caller -> Frames]
  <2>1. ASSUME NEW a \in Agent
        PROVE  [call[c] EXCEPT !.todo = @ \ {a}] \in Frames
    BY DEF TypeOK, BroadcastSend, At, CallPCs, Frames, RawFrames, FrameOK
  <2>2. call[c].todo \subseteq Agent
    BY DEF TypeOK, BroadcastSend, At, CallPCs, Frames, RawFrames, FrameOK
  <2>3. QED BY <2>1, <2>2, ReturnType, EnterType DEF TypeOK, BroadcastSend, PanicCall
<1>7. QED BY <1>1, <1>2, <1>3, <1>4, <1>5, <1>6 DEF TypeOK

LEMMA SubmitRecordType ==
    ASSUME TypeOK, NEW c \in Caller, SubmitRecord(c)
    PROVE  TypeOK'
<1>1. CoordType'
  BY DEF TypeOK, CoordType, coord, SubmitRecord
<1>2. ChansType'
  BY DEF TypeOK, ChansType, chans, SubmitRecord
<1>3. WorkType'
  <2>1. ASSUME NEW s \in Session, NEW a \in Agent
        PROVE  [findings[s] EXCEPT ![a] = @ + 1] \in [Agent -> Nat]
    BY DEF TypeOK, WorkType
  <2>2. PICK s \in Session, a \in Agent :
           findings' = [findings EXCEPT ![s] = [findings[s] EXCEPT ![a] = @ + 1]]
    BY DEF TypeOK, CoordType, SubmitRecord
  <2>3. QED BY <2>1, <2>2 DEF TypeOK, WorkType, SubmitRecord
<1>4. DiskType'
  <2>1. ASSUME NEW s \in Session, NEW a \in Agent
        PROVE  [findings[s] EXCEPT ![a] = @ + 1] \in [Agent -> Nat]
    BY DEF TypeOK, WorkType
  <2>2. ASSUME NEW s \in Session, NEW g \in [Agent -> Nat]
        PROVE  [Row(s) EXCEPT !.f = g] \in Rows
    BY RowType DEF Rows
  <2>3. PICK s \in sessions, a \in Agent :
           LET more == [findings[s] EXCEPT ![a] = @ + 1] IN
           /\ store' = IF HasStore
                       THEN [store EXCEPT ![s] = [Row(s) EXCEPT !.f = more]] ELSE store
           /\ acked' = IF HasStore /\ ~SavePending(s)
                       THEN [acked EXCEPT ![s] = more] ELSE acked
    BY DEF SubmitRecord
  <2>4. s \in Session
    BY DEF TypeOK, CoordType
  <2>5. QED BY <2>1, <2>2, <2>3, <2>4 DEF TypeOK, DiskType, SubmitRecord
<1>5. EnvType'
  BY DEF TypeOK, EnvType, history, SubmitRecord, Begin
<1>6. call' \in [Caller -> Frames]
  BY FrameType, EnterType DEF TypeOK, CoordType, SubmitRecord, CallPCs, Frame, FrameOK
<1>7. QED BY <1>1, <1>2, <1>3, <1>4, <1>5, <1>6 DEF TypeOK

LEMMA SubmitLookupType ==
    ASSUME TypeOK, NEW c \in Caller, SubmitLookup(c)
    PROVE  TypeOK'
<1>1. CoordType'
  BY DEF TypeOK, CoordType, coord, SubmitLookup
<1>2. ChansType'
  BY DEF TypeOK, ChansType, chans, SubmitLookup
<1>3. WorkType'
  BY DEF TypeOK, WorkType, work, SubmitLookup
<1>4. DiskType'
  BY DEF TypeOK, DiskType, disk, history, SubmitLookup
<1>5. EnvType'
  BY DEF TypeOK, EnvType, history, SubmitLookup
<1>6. call' \in [Caller -> Frames]
  BY ReturnType, GotoType DEF TypeOK, SubmitLookup, At, CallPCs, Frames, RawFrames, FrameOK
<1>7. QED BY <1>1, <1>2, <1>3, <1>4, <1>5, <1>6 DEF TypeOK

LEMMA SubmitSendType ==
    ASSUME TypeOK, NEW c \in Caller, SubmitSend(c)
    PROVE  TypeOK'
<1>1. CoordType'
  BY DEF TypeOK, CoordType, coord, SubmitSend
<1>2. ChansType'
  BY PostFindingType DEF TypeOK, ChansType, SubmitSend, PanicCall, At, CallPCs, Frames, RawFrames, FrameOK
<1>3. WorkType'
  BY DEF TypeOK, WorkType, work, SubmitSend
<1>4. DiskType'
  BY DEF TypeOK, DiskType, disk, history, SubmitSend
<1>5. EnvType'
  BY DEF TypeOK, EnvType, history, SubmitSend, PanicCall
<1>6. call' \in [Caller -> Frames]
  BY ReturnType DEF TypeOK, SubmitSend, PanicCall
<1>7. QED BY <1>1, <1>2, <1>3, <1>4, <1>5, <1>6 DEF TypeOK

LEMMA CloseSessionType ==
    ASSUME TypeOK, NEW c \in Caller, CloseSession(c)
    PROVE  TypeOK'
<1>1. PICK s \in Session : Close(s)
  BY DEF TypeOK, CoordType, CloseSession
<1>2. QED BY <1>1, CloseType DEF TypeOK, EnvType, CloseSession, Begin

LEMMA ShutdownListType ==
    ASSUME TypeOK, NEW c \in Caller, ShutdownList(c)
    PROVE  TypeOK'
<1>1. CoordType'
  BY DEF TypeOK, CoordType, coord, ShutdownList
<1>2. ChansType'
  BY DEF TypeOK, ChansType, chans, ShutdownList
<1>3. WorkType'
  BY DEF TypeOK, WorkType, work, ShutdownList
<1>4. DiskType'
  BY DEF TypeOK, DiskType, disk, ShutdownList
<1>5. EnvType'
  BY DEF TypeOK, EnvType, history, ShutdownList, Begin
<1>6. call' \in [Caller -> Frames]
  BY FrameType, EnterType DEF TypeOK, CoordType, ShutdownList, CallPCs, Frame, FrameOK
<1>7. QED BY <1>1, <1>2, <1>3, <1>4, <1>5, <1>6 DEF TypeOK

LEMMA ShutdownCloseType ==
    ASSUME TypeOK, NEW c \in Caller, ShutdownClose(c)
    PROVE  TypeOK'
<1>1. CASE call[c].todo \cap sessions = {}
  <2>1. call' \in [Caller -> Frames]
    BY <1>1, ReturnType DEF TypeOK, ShutdownClose
  <2>2. QED BY <1>1, <2>1 DEF TypeOK, CoordType, ChansType, WorkType, DiskType, EnvType,
               coord, chans, work, disk, history, ShutdownClose
<1>2. CASE call[c].todo \cap sessions # {}
  <2>1. PICK s \in Session : /\ Close(s) /\ UNCHANGED calls
                            /\ Enter(c, [call[c] EXCEPT !.todo = @ \ {s}])
    BY <1>2 DEF TypeOK, CoordType, ShutdownClose
  <2>2. [call[c] EXCEPT !.todo = @ \ {s}] \in Frames
    BY DEF TypeOK, Frames, RawFrames, FrameOK
  <2>3. call' \in [Caller -> Frames]
    BY <2>1, <2>2, EnterType DEF TypeOK
  <2>4. QED BY <2>1, <2>3, CloseType DEF TypeOK, EnvType
<1>3. QED BY <1>1, <1>2

LEMMA ParentDoneType ==
    ASSUME TypeOK, NEW s \in Session, ParentDone(s)
    PROVE  TypeOK'
<1>1. CoordType'
  BY DEF TypeOK, CoordType, coord, ParentDone
<1>2. ChansType'
  BY DEF TypeOK, CoordType, ChansType, ParentDone
<1>3. WorkType'
  BY DEF TypeOK, WorkType, work, ParentDone
<1>4. DiskType'
  BY DEF TypeOK, DiskType, disk, history, ParentDone
<1>5. EnvType'
  BY DEF TypeOK, EnvType, history, ParentDone
<1>6. call' \in [Caller -> Frames]
  BY DEF TypeOK, ParentDone
<1>7. QED BY <1>1, <1>2, <1>3, <1>4, <1>5, <1>6 DEF TypeOK

LEMMA RestoreSessionType ==
    ASSUME TypeOK, NEW s \in Session, RestoreSession(s)
    PROVE  TypeOK'
<1>1. CoordType'
  BY DEF TypeOK, CoordType, DiskType, Rows, Tables, RestoreSession
<1>2. ChansType'
  BY DEF TypeOK, ChansType, chans, RestoreSession
<1>3. WorkType'
  BY DEF TypeOK, WorkType, DiskType, Rows, RestoreSession
<1>4. DiskType'
  BY DEF TypeOK, DiskType, history, RestoreSession
<1>5. EnvType'
  BY DEF TypeOK, EnvType, history, RestoreSession
<1>6. call' \in [Caller -> Frames]
  BY DEF TypeOK, RestoreSession
<1>7. QED BY <1>1, <1>2, <1>3, <1>4, <1>5, <1>6 DEF TypeOK

LEMMA PfBeginType ==
    ASSUME TypeOK, NEW s \in Session, PfBegin(s)
    PROVE  TypeOK'
<1>1. CoordType'
  BY DEF TypeOK, CoordType, coord, PfBegin
<1>2. ChansType'
  BY DEF TypeOK, ChansType, chans, PfBegin
<1>3. WorkType'
  BY DEF TypeOK, WorkType, PfAt, PfGoto, PfFrames, PfBegin
<1>4. DiskType'
  BY DEF TypeOK, DiskType, disk, history, PfBegin
<1>5. EnvType'
  BY DEF TypeOK, EnvType, history, PfBegin
<1>6. call' \in [Caller -> Frames]
  BY DEF TypeOK, PfBegin
<1>7. QED BY <1>1, <1>2, <1>3, <1>4, <1>5, <1>6 DEF TypeOK

LEMMA PfQuitType ==
    ASSUME TypeOK, NEW s \in Session, PfQuit(s)
    PROVE  TypeOK'
<1>1. CoordType'
  BY DEF TypeOK, CoordType, coord, PfQuit
<1>2. ChansType'
  BY DEF TypeOK, ChansType, chans, PfQuit
<1>3. WorkType'
  BY DEF TypeOK, WorkType, PfAt, PfGoto, PfFrames, PfQuit
<1>4. DiskType'
  BY DEF TypeOK, DiskType, disk, history, PfQuit
<1>5. EnvType'
  BY DEF TypeOK, EnvType, history, PfQuit
<1>6. call' \in [Caller -> Frames]
  BY DEF TypeOK, PfQuit
<1>7. QED BY <1>1, <1>2, <1>3, <1>4, <1>5, <1>6 DEF TypeOK

LEMMA PfRecvType ==
    ASSUME TypeOK, NEW s \in Session, PfRecv(s)
    PROVE  TypeOK'
<1>1. CoordType'
  BY DEF TypeOK, CoordType, coord, PfRecv
<1>2. ChansType'
  BY DEF TypeOK, ChansType, PfRecv
<1>3. WorkType'
  BY DEF TypeOK, WorkType, CoordType, PfAt, PfGoto, PfFrames, PfRecv
<1>4. DiskType'
  BY DEF TypeOK, DiskType, disk, history, PfRecv
<1>5. EnvType'
  BY DEF TypeOK, EnvType, history, PfRecv
<1>6. call' \in [Caller -> Frames]
  BY DEF TypeOK, PfRecv
<1>7. QED BY <1>1, <1>2, <1>3, <1>4, <1>5, <1>6 DEF TypeOK

LEMMA PfSendType ==
    ASSUME TypeOK, NEW s \in Session, PfSend(s)
    PROVE  TypeOK'
<1>1. CoordType'
  BY DEF TypeOK, CoordType, coord, PfSend
<1>2. ChansType'
  BY DeliverType DEF TypeOK, ChansType, WorkType, Message, PfAt, PfGoto, PfFrames, Offer, PfSend
<1>3. WorkType'
  <2>1. /\ UNCHANGED <<agentSt, findings, ag>>
        /\ \/ UNCHANGED pf
           \/ \E a \in pf[s].todo : pf' = [pf EXCEPT ![s].todo = @ \ {a}]
           \/ PfGoto(s, "loop")
    BY DEF PfSend
  <2>2. CASE UNCHANGED pf
    BY <2>1, <2>2 DEF TypeOK, WorkType
  <2>3. CASE PfGoto(s, "loop")
    BY <2>1, <2>3 DEF TypeOK, WorkType, PfGoto, PfFrames
  <2>4. ASSUME NEW a \in pf[s].todo, pf' = [pf EXCEPT ![s].todo = @ \ {a}]
        PROVE  WorkType'
    BY <2>1, <2>4 DEF TypeOK, WorkType, PfFrames
  <2>5. QED BY <2>1, <2>2, <2>3, <2>4
<1>4. DiskType'
  BY DEF TypeOK, DiskType, disk, history, PfSend
<1>5. EnvType'
  BY DEF TypeOK, EnvType, history, PfSend
<1>6. call' \in [Caller -> Frames]
  BY DEF TypeOK, PfSend
<1>7. QED BY <1>1, <1>2, <1>3, <1>4, <1>5, <1>6 DEF TypeOK

LEMMA AgentBeginType ==
    ASSUME TypeOK, NEW s \in Session, NEW a \in Agent, AgentBegin(s, a)
    PROVE  TypeOK'
<1>1. CoordType'
  BY DEF TypeOK, CoordType, coord, AgentBegin
<1>2. ChansType'
  BY DEF TypeOK, ChansType, chans, AgentBegin
<1>3. WorkType'
  BY DEF TypeOK, WorkType, AgentAt, AgentGoto, AgentPCs, AgentStatuses, SetStatus, AgentBegin
<1>4. DiskType'
  BY DEF TypeOK, DiskType, disk, history, AgentBegin
<1>5. EnvType'
  BY DEF TypeOK, EnvType, history, AgentBegin
<1>6. call' \in [Caller -> Frames]
  BY DEF TypeOK, AgentBegin
<1>7. QED BY <1>1, <1>2, <1>3, <1>4, <1>5, <1>6 DEF TypeOK

LEMMA AgentFetchType ==
    ASSUME TypeOK, NEW s \in Session, NEW a \in Agent, AgentFetch(s, a)
    PROVE  TypeOK'
<1>1. CoordType'
  BY DEF TypeOK, CoordType, coord, AgentFetch
<1>2. ChansType'
  BY DEF TypeOK, ChansType, chans, AgentFetch
<1>3. WorkType'
  BY DEF TypeOK, WorkType, AgentAt, AgentGoto, AgentPCs, AgentStatuses, SetStatus, AgentFetch
<1>4. DiskType'
  BY DEF TypeOK, DiskType, disk, history, AgentFetch
<1>5. EnvType'
  BY DEF TypeOK, EnvType, history, AgentFetch
<1>6. call' \in [Caller -> Frames]
  BY DEF TypeOK, AgentFetch
<1>7. QED BY <1>1, <1>2, <1>3, <1>4, <1>5, <1>6 DEF TypeOK

LEMMA AgentQuitType ==
    ASSUME TypeOK, NEW s \in Session, NEW a \in Agent, AgentQuit(s, a)
    PROVE  TypeOK'
<1>1. CoordType'
  BY DEF TypeOK, CoordType, coord, AgentQuit
<1>2. ChansType'
  BY DEF TypeOK, ChansType, chans, AgentQuit
<1>3. WorkType'
  BY DEF TypeOK, WorkType, AgentAt, AgentGoto, AgentPCs, AgentStatuses, SetStatus, AgentQuit
<1>4. DiskType'
  BY DEF TypeOK, DiskType, disk, history, AgentQuit
<1>5. EnvType'
  BY DEF TypeOK, EnvType, history, AgentQuit
<1>6. call' \in [Caller -> Frames]
  BY DEF TypeOK, AgentQuit
<1>7. QED BY <1>1, <1>2, <1>3, <1>4, <1>5, <1>6 DEF TypeOK

LEMMA AgentClosedType ==
    ASSUME TypeOK, NEW s \in Session, NEW a \in Agent, AgentClosed(s, a)
    PROVE  TypeOK'
<1>1. CoordType'
  BY DEF TypeOK, CoordType, coord, AgentClosed
<1>2. ChansType'
  BY DEF TypeOK, ChansType, chans, AgentClosed
<1>3. WorkType'
  BY DEF TypeOK, WorkType, AgentAt, AgentGoto, AgentPCs, AgentStatuses, SetStatus, AgentClosed
<1>4. DiskType'
  BY DEF TypeOK, DiskType, disk, history, AgentClosed
<1>5. EnvType'
  BY DEF TypeOK, EnvType, history, AgentClosed
<1>6. call' \in [Caller -> Frames]
  BY DEF TypeOK, AgentClosed
<1>7. QED BY <1>1, <1>2, <1>3, <1>4, <1>5, <1>6 DEF TypeOK

LEMMA AgentReportType ==
    ASSUME TypeOK, NEW s \in Session, NEW a \in Agent, AgentReport(s, a)
    PROVE  TypeOK'
<1>1. CoordType'
  BY DEF TypeOK, CoordType, coord, AgentReport
<1>2. ChansType'
  BY DEF TypeOK, ChansType, chans, AgentReport
<1>3. WorkType'
  BY DEF TypeOK, WorkType, AgentAt, AgentGoto, AgentPCs, AgentStatuses, SetStatus, AgentReport
<1>4. DiskType'
  BY DEF TypeOK, DiskType, disk, history, AgentReport
<1>5. EnvType'
  BY DEF TypeOK, EnvType, history, AgentReport
<1>6. call' \in [Caller -> Frames]
  BY DEF TypeOK, AgentReport
<1>7. QED BY <1>1, <1>2, <1>3, <1>4, <1>5, <1>6 DEF TypeOK

LEMMA AgentRecvType ==
    ASSUME TypeOK, NEW s \in Session, NEW a \in Agent, AgentRecv(s, a)
    PROVE  TypeOK'
<1>1. CoordType'
  BY DEF TypeOK, CoordType, coord, AgentRecv
<1>2. ChansType'
  BY DEF TypeOK, ChansType, AgentRecv
<1>3. WorkType'
  BY DEF TypeOK, WorkType, AgentAt, AgentGoto, AgentPCs, AgentStatuses, SetStatus, AgentRecv
<1>4. DiskType'
  BY DEF TypeOK, DiskType, disk, history, AgentRecv
<1>5. EnvType'
  BY DEF TypeOK, EnvType, history, AgentRecv
<1>6. call' \in [Caller -> Frames]
  BY DEF TypeOK, AgentRecv
<1>7. QED BY <1>1, <1>2, <1>3, <1>4, <1>5, <1>6 DEF TypeOK

LEMMA AgentSendType ==
    ASSUME TypeOK, NEW s \in Session, NEW a \in Agent, AgentSend(s, a)
    PROVE  TypeOK'
<1>1. CoordType'
  BY DEF TypeOK, CoordType, coord, AgentSend
<1>2. ChansType'
  BY PostFindingType DEF TypeOK, ChansType, AgentSend
<1>3. WorkType'
  <2>1. UNCHANGED <<agentSt, findings, pf>> /\ (UNCHANGED ag \/ AgentGoto(s, a, "loop"))
    BY DEF AgentSend
  <2>2. CASE UNCHANGED ag
    BY <2>1, <2>2 DEF TypeOK, WorkType
  <2>3. CASE AgentGoto(s, a, "loop")
    BY <2>1, <2>3 DEF TypeOK, WorkType, AgentGoto, AgentPCs
  <2>4. QED BY <2>1, <2>2, <2>3
<1>4. DiskType'
  BY DEF TypeOK, DiskType, disk, history, AgentSend
<1>5. EnvType'
  BY DEF TypeOK, EnvType, history, AgentSend
<1>6. call' \in [Caller -> Frames]
  BY DEF TypeOK, AgentSend
<1>7. QED BY <1>1, <1>2, <1>3, <1>4, <1>5, <1>6 DEF TypeOK

LEMMA InitType ==
    ASSUME Init PROVE TypeOK
<1> USE DEF NoFindings, NewAgents, AgentStatuses, AgentPCs, PfFrames, Statuses, Tables, Message
<1>1. CoordType
  BY DEF TypeOK, CoordType, Init
<1>2. ChansType
  BY DEF TypeOK, ChansType, Init
<1>3. WorkType
  BY DEF TypeOK, WorkType, Init
<1>4. DiskType
  BY DEF TypeOK, DiskType, Init, NoRow, Rows
<1>5. EnvType
  BY DEF TypeOK, EnvType, Init
<1>6. call \in [Caller -> Frames]
  BY IdleType DEF Init
<1>7. QED BY <1>1, <1>2, <1>3, <1>4, <1>5, <1>6 DEF TypeOK

LEMMA CrashType ==
    ASSUME TypeOK, Crash PROVE TypeOK'
<1> USE DEF NoFindings, NewAgents, AgentStatuses, AgentPCs, PfFrames, Statuses, Tables, Message
<1>1. CoordType'
  BY DEF TypeOK, CoordType, Crash
<1>2. ChansType'
  BY DEF TypeOK, ChansType, Crash
<1>3. WorkType'
  BY DEF TypeOK, WorkType, Crash
<1>4. DiskType'
  BY DEF TypeOK, DiskType, Crash, NoRow, Rows
<1>5. EnvType'
  BY DEF TypeOK, EnvType, Crash
<1>6. call' \in [Caller -> Frames]
  BY IdleType DEF Crash
<1>7. QED BY <1>1, <1>2, <1>3, <1>4, <1>5, <1>6 DEF TypeOK

LEMMA TypeStep ==
    ASSUME TypeOK, [Next]_vars
    PROVE  TypeOK'
<1>1. CASE \E c \in Caller : \/ StartWarRoom(c) \/ AssignTask(c) \/ Broadcast(c)
                          \/ SubmitFinding(c) \/ CloseSession(c) \/ Shutdown(c)
  BY <1>1, StartEvictType, StartBuildType, StartPublishType, StartSaveType, StartCommitType,
     StartSpawnType, AssignLookupType, AssignSendType, AssignCancelledType,
     BroadcastLookupType, BroadcastSendType, SubmitRecordType, SubmitLookupType,
     SubmitSendType, CloseSessionType, ShutdownListType, ShutdownCloseType
     DEF StartWarRoom, AssignTask, Broadcast, SubmitFinding, Shutdown
<1>2. CASE \E s \in Session : ParentDone(s) \/ processFindings(s) \/ RestoreSession(s)
  BY <1>2, ParentDoneType, RestoreSessionType, PfBeginType, PfQuitType, PfRecvType,
     PfSendType DEF processFindings
<1>3. CASE \E s \in Session, a \in Agent : runAgent(s, a)
  BY <1>3, AgentBeginType, AgentFetchType, AgentQuitType, AgentRecvType, AgentClosedType,
     AgentReportType, AgentSendType DEF runAgent
<1>4. CASE Crash
  BY <1>4, CrashType
<1>5. CASE UNCHANGED vars
  BY <1>5 DEF TypeOK, CoordType, ChansType, WorkType, DiskType, EnvType,
     vars, coord, chans, work, disk, history
<1>6. QED BY <1>1, <1>2, <1>3, <1>4, <1>5 DEF Next

\* Every variable of the coordinator keeps its type in every behaviour.
THEOREM TypeCorrect == Spec => []TypeOK
<1>1. Init => TypeOK
  BY InitType
<1>2. TypeOK /\ [Next]_vars => TypeOK'
  BY TypeStep
<1>3. QED BY <1>1, <1>2, PTL DEF Spec

-----------------------------------------------------------------------------
(* The inductive invariant.  Most steps neither touch the maps and the disk   *)
(* nor move a StartWarRoom; they only have to leave dead goroutines dead.     *)

LEMMA StartingSession ==
    ASSUME TypeOK, NEW c \in Caller, call[c].pc \in Starting
    PROVE  call[c].s \in Session
BY DEF TypeOK, Starting, Frames, RawFrames, FrameOK

LEMMA QuietStep ==
    ASSUME TypeOK, IInv,
           UNCHANGED <<coord, closedCh, cancelled, disk, durable, acked>>,
           \A d \in Caller : call'[d].pc \in Starting => call'[d] = call[d],
           \A s \in Session, a \in Agent : findings[s][a] <= findings'[s][a],
           \A s \in Session : Stopped(s) => Stopped(s)',
           TypeOK'
    PROVE  IInv'
<1> USE DEF IInv, coord, disk
<1>1. MapsAgree' /\ DurableClose' /\ AckedFindingStored' /\ NoTrace' /\ StatusSound'
      /\ RestoringOut'
  <2>1. MapsAgree' /\ StatusSound'
    BY DEF MapsAgree, StatusSound
  <2>2. DurableClose' /\ AckedFindingStored'
    BY DEF DurableClose, AckedFindingStored
  <2>3. NoTrace'
    BY DEF NoTrace
  <2>4. RestoringOut'
    BY DEF RestoringOut
  <2>5. QED BY <2>1, <2>2, <2>3, <2>4
<1>2. NoOrphan'
  BY DEF NoOrphan
<1>3. StarterOwns' /\ BuiltFresh' /\ PublishedKnown' /\ CommitSound'
  BY DEF StarterOwns, BuiltFresh, PublishedKnown, CommitSound, Starting
<1>4. FindingsCover'
  <2>1. ASSUME NEW s \in Session, NEW a \in Agent, status[s] # "none"
        PROVE  acked[s][a] <= findings'[s][a]
    <3>1. acked[s][a] <= findings[s][a] /\ findings[s][a] <= findings'[s][a]
      BY <2>1 DEF FindingsCover
    <3>2. acked[s][a] \in Nat /\ findings[s][a] \in Nat /\ findings'[s][a] \in Nat
      BY DEF TypeOK, WorkType, DiskType
    <3>3. QED BY <3>1, <3>2
  <2>2. QED BY <2>1 DEF FindingsCover
<1>5. QED BY <1>1, <1>2, <1>3, <1>4

LEMMA AssignLookupQuiet ==
    ASSUME TypeOK, IInv, NEW c \in Caller, AssignLookup(c)
    PROVE  IInv'
<1>1. UNCHANGED <<coord, closedCh, cancelled, disk, durable, acked>>
  BY DEF AssignLookup, coord, chans, disk, history
<1>2. \A d \in Caller : call'[d].pc \in Starting => call'[d] = call[d]
  BY DEF TypeOK, AssignLookup, PanicCall, At, Begin, Return, Enter, Goto, IdleCall, Frame, Starting
<1>3. \A z \in Session, b \in Agent : findings[z][b] <= findings'[z][b]
  BY DEF TypeOK, WorkType, AssignLookup, work
<1>4. \A z \in Session : Stopped(z) => Stopped(z)'
  BY DEF AssignLookup, work, Stopped
<1>5. QED BY <1>1, <1>2, <1>3, <1>4, AssignLookupType, QuietStep

LEMMA AssignSendQuiet ==
    ASSUME TypeOK, IInv, NEW c \in Caller, AssignSend(c)
    PROVE  IInv'
<1>1. UNCHANGED <<coord, closedCh, cancelled, disk, durable, acked>>
  BY DEF AssignSend, coord, chans, disk, history
<1>2. \A d \in Caller : call'[d].pc \in Starting => call'[d] = call[d]
  BY DEF TypeOK, AssignSend, PanicCall, At, Begin, Return, Enter, Goto, IdleCall, Frame, Starting
<1>3. \A z \in Session, b \in Agent : findings[z][b] <= findings'[z][b]
  BY DEF TypeOK, WorkType, AssignSend, work
<1>4. \A z \in Session : Stopped(z) => Stopped(z)'
  BY DEF AssignSend, work, Stopped
<1>5. QED BY <1>1, <1>2, <1>3, <1>4, AssignSendType, QuietStep

LEMMA AssignCancelledQuiet ==
    ASSUME TypeOK, IInv, NEW c \in Caller, AssignCancelled(c)
    PROVE  IInv'
<1>1. UNCHANGED <<coord, closedCh, cancelled, disk, durable, acked>>
  BY DEF AssignCancelled, coord, chans, disk, history
<1>2. \A d \in Caller : call'[d].pc \in Starting => call'[d] = call[d]
  BY DEF TypeOK, AssignCancelled, PanicCall, At, Begin, Return, Enter, Goto, IdleCall, Frame, Starting
<1>3. \A z \in Session, b \in Agent : findings[z][b] <= findings'[z][b]
  BY DEF TypeOK, WorkType, AssignCancelled, work
<1>4. \A z \in Session : Stopped(z) => Stopped(z)'
  BY DEF AssignCancelled, work, Stopped
<1>5. QED BY <1>1, <1>2, <1>3, <1>4, AssignCancelledType, QuietStep

LEMMA BroadcastLookupQuiet ==
    ASSUME TypeOK, IInv, NEW c \in Caller, BroadcastLookup(c)
    PROVE  IInv'
<1>1. UNCHANGED <<coord, closedCh, cancelled, disk, durable, acked>>
  BY DEF BroadcastLookup, coord, chans, disk, history
<1>2. \A d \in Caller : call'[d].pc \in Starting => call'[d] = call[d]
  BY DEF TypeOK, BroadcastLookup, PanicCall, At, Begin, Return, Enter, Goto, IdleCall, Frame, Starting
<1>3. \A z \in Session, b \in Agent : findings[z][b] <= findings'[z][b]
  BY DEF TypeOK, WorkType, BroadcastLookup, work
<1>4. \A z \in Session : Stopped(z) => Stopped(z)'
  BY DEF BroadcastLookup, work, Stopped
<1>5. QED BY <1>1, <1>2, <1>3, <1>4, BroadcastLookupType, QuietStep

LEMMA BroadcastSendQuiet ==
    ASSUME TypeOK, IInv, NEW c \in Caller, BroadcastSend(c)
    PROVE  IInv'
<1>1. UNCHANGED <<coord, closedCh, cancelled, disk, durable, acked>>
  BY DEF BroadcastSend, coord, chans, disk, history
<1>2. \A d \in Caller : call'[d].pc \in Starting => call'[d] = call[d]
  <2>1. call[c].pc = "bcast"
    BY DEF BroadcastSend, At
  <2>2. \/ UNCHANGED call \/ Return(c)
        \/ \E a \in Agent \cup Session : Enter(c, [call[c] EXCEPT !.todo = @ \ {a}])
    <3>1. call[c].todo \subseteq Agent
      BY <2>1 DEF TypeOK, Frames, RawFrames, FrameOK
    <3>2. QED BY <3>1 DEF BroadcastSend, PanicCall
  <2>3. CASE UNCHANGED call
    BY <2>3
  <2>4. CASE Return(c)
    BY <2>4 DEF TypeOK, Return, Enter, Goto, IdleCall, Frame, Starting
  <2>5. ASSUME NEW a \in Agent \cup Session, Enter(c, [call[c] EXCEPT !.todo = @ \ {a}])
        PROVE  \A d \in Caller : call'[d].pc \in Starting => call'[d] = call[d]
    BY <2>1, <2>5 DEF TypeOK, Frames, RawFrames, Enter, Starting
  <2>6. QED BY <2>2, <2>3, <2>4, <2>5
<1>3. \A z \in Session, b \in Agent : findings[z][b] <= findings'[z][b]
  BY DEF TypeOK, WorkType, BroadcastSend, work
<1>4. \A z \in Session : Stopped(z) => Stopped(z)'
  BY DEF BroadcastSend, work, Stopped
<1>5. QED BY <1>1, <1>2, <1>3, <1>4, BroadcastSendType, QuietStep

LEMMA SubmitLookupQuiet ==
    ASSUME TypeOK, IInv, NEW c \in Caller, SubmitLookup(c)
    PROVE  IInv'
<1>1. UNCHANGED <<coord, closedCh, cancelled, disk, durable, acked>>
  BY DEF SubmitLookup, coord, chans, disk, history
<1>2. \A d \in Caller : call'[d].pc \in Starting => call'[d] = call[d]
  <2>1. CASE Goto(c, "submit")
    BY <2>1 DEF TypeOK, Frames, RawFrames, Goto, Enter, Starting
  <2>2. CASE Return(c)
    BY <2>2 DEF TypeOK, Return, Enter, Goto, IdleCall, Frame, Starting
  <2>3. QED BY <2>1, <2>2 DEF SubmitLookup
<1>3. \A z \in Session, b \in Agent : findings[z][b] <= findings'[z][b]
  BY DEF TypeOK, WorkType, SubmitLookup, work
<1>4. \A z \in Session : Stopped(z) => Stopped(z)'
  BY DEF SubmitLookup, work, Stopped
<1>5. QED BY <1>1, <1>2, <1>3, <1>4, SubmitLookupType, QuietStep

LEMMA SubmitSendQuiet ==
    ASSUME TypeOK, IInv, NEW c \in Caller, SubmitSend(c)
    PROVE  IInv'
<1>1. UNCHANGED <<coord, closedCh, cancelled, disk, durable, acked>>
  BY DEF SubmitSend, coord, chans, disk, history
<1>2. \A d \in Caller : call'[d].pc \in Starting => call'[d] = call[d]
  BY DEF TypeOK, SubmitSend, PanicCall, At, Begin, Return, Enter, Goto, IdleCall, Frame, Starting
<1>3. \A z \in Session, b \in Agent : findings[z][b] <= findings'[z][b]
  BY DEF TypeOK, WorkType, SubmitSend, work
<1>4. \A z \in Session : Stopped(z) => Stopped(z)'
  BY DEF SubmitSend, work, Stopped
<1>5. QED BY <1>1, <1>2, <1>3, <1>4, SubmitSendType, QuietStep

LEMMA ShutdownListQuiet ==
    ASSUME TypeOK, IInv, NEW c \in Caller, ShutdownList(c)
    PROVE  IInv'
<1>1. UNCHANGED <<coord, closedCh, cancelled, disk, durable, acked>>
  BY DEF ShutdownList, coord, chans, disk, history
<1>2. \A d \in Caller : call'[d].pc \in Starting => call'[d] = call[d]
  BY DEF TypeOK, ShutdownList, PanicCall, At, Begin, Return, Enter, Goto, IdleCall, Frame, Starting
<1>3. \A z \in Session, b \in Agent : findings[z][b] <= findings'[z][b]
  BY DEF TypeOK, WorkType, ShutdownList, work
<1>4. \A z \in Session : Stopped(z) => Stopped(z)'
  BY DEF ShutdownList, work, Stopped
<1>5. QED BY <1>1, <1>2, <1>3, <1>4, ShutdownListType, QuietStep

LEMMA AgentBeginQuiet ==
    ASSUME TypeOK, IInv, NEW s \in Session, NEW a \in Agent, AgentBegin(s, a)
    PROVE  IInv'
<1>1. UNCHANGED <<coord, closedCh, cancelled, disk, durable, acked>>
  BY DEF AgentBegin, coord, chans, disk, history
<1>2. \A d \in Caller : call'[d].pc \in Starting => call'[d] = call[d]
  BY DEF AgentBegin
<1>3. \A z \in Session, b \in Agent : findings[z][b] <= findings'[z][b]
  BY DEF TypeOK, WorkType, AgentBegin, work
<1>4. \A z \in Session : Stopped(z) => Stopped(z)'
  BY DEF AgentBegin, AgentAt, AgentGoto, Stopped, TypeOK, WorkType
<1>5. QED BY <1>1, <1>2, <1>3, <1>4, AgentBeginType, QuietStep

LEMMA AgentFetchQuiet ==
    ASSUME TypeOK, IInv, NEW s \in Session, NEW a \in Agent, AgentFetch(s, a)
    PROVE  IInv'
<1>1. UNCHANGED <<coord, closedCh, cancelled, disk, durable, acked>>
  BY DEF AgentFetch, coord, chans, disk, history
<1>2. \A d \in Caller : call'[d].pc \in Starting => call'[d] = call[d]
  BY DEF AgentFetch
<1>3. \A z \in Session, b \in Agent : findings[z][b] <= findings'[z][b]
  BY DEF TypeOK, WorkType, AgentFetch, work
<1>4. \A z \in Session : Stopped(z) => Stopped(z)'
  BY DEF AgentFetch, AgentAt, AgentGoto, Stopped, TypeOK, WorkType
<1>5. QED BY <1>1, <1>2, <1>3, <1>4, AgentFetchType, QuietStep

LEMMA AgentQuitQuiet ==
    ASSUME TypeOK, IInv, NEW s \in Session, NEW a \in Agent, AgentQuit(s, a)
    PROVE  IInv'
<1>1. UNCHANGED <<coord, closedCh, cancelled, disk, durable, acked>>
  BY DEF AgentQuit, coord, chans, disk, history
<1>2. \A d \in Caller : call'[d].pc \in Starting => call'[d] = call[d]
  BY DEF AgentQuit
<1>3. \A z \in Session, b \in Agent : findings[z][b] <= findings'[z][b]
  BY DEF TypeOK, WorkType, AgentQuit, work
<1>4. \A z \in Session : Stopped(z) => Stopped(z)'
  BY DEF AgentQuit, AgentAt, AgentGoto, Stopped, TypeOK, WorkType
<1>5. QED BY <1>1, <1>2, <1>3, <1>4, AgentQuitType, QuietStep

LEMMA AgentRecvQuiet ==
    ASSUME TypeOK, IInv, NEW s \in Session, NEW a \in Agent, AgentRecv(s, a)
    PROVE  IInv'
<1>1. UNCHANGED <<coord, closedCh, cancelled, disk, durable, acked>>
  BY DEF AgentRecv, coord, chans, disk, history
<1>2. \A d \in Caller : call'[d].pc \in Starting => call'[d] = call[d]
  BY DEF AgentRecv
<1>3. \A z \in Session, b \in Agent : findings[z][b] <= findings'[z][b]
  BY DEF TypeOK, WorkType, AgentRecv, work
<1>4. \A z \in Session : Stopped(z) => Stopped(z)'
  BY DEF AgentRecv, AgentAt, AgentGoto, Stopped, TypeOK, WorkType
<1>5. QED BY <1>1, <1>2, <1>3, <1>4, AgentRecvType, QuietStep

LEMMA AgentClosedQuiet ==
    ASSUME TypeOK, IInv, NEW s \in Session, NEW a \in Agent, AgentClosed(s, a)
    PROVE  IInv'
<1>1. UNCHANGED <<coord, closedCh, cancelled, disk, durable, acked>>
  BY DEF AgentClosed, coord, chans, disk, history
<1>2. \A d \in Caller : call'[d].pc \in Starting => call'[d] = call[d]
  BY DEF AgentClosed
<1>3. \A z \in Session, b \in Agent : findings[z][b] <= findings'[z][b]
  BY DEF TypeOK, WorkType, AgentClosed, work
<1>4. \A z \in Session : Stopped(z) => Stopped(z)'
  BY DEF AgentClosed, AgentAt, AgentGoto, Stopped, TypeOK, WorkType
<1>5. QED BY <1>1, <1>2, <1>3, <1>4, AgentClosedType, QuietStep

LEMMA AgentReportQuiet ==
    ASSUME TypeOK, IInv, NEW s \in Session, NEW a \in Agent, AgentReport(s, a)
    PROVE  IInv'
<1>1. UNCHANGED <<coord, closedCh, cancelled, disk, durable, acked>>
  BY DEF AgentReport, coord, chans, disk, history
<1>2. \A d \in Caller : call'[d].pc \in Starting => call'[d] = call[d]
  BY DEF AgentReport
<1>3. \A z \in Session, b \in Agent : findings[z][b] <= findings'[z][b]
  BY DEF TypeOK, WorkType, AgentReport
<1>4. \A z \in Session : Stopped(z) => Stopped(z)'
  BY DEF AgentReport, AgentAt, AgentGoto, Stopped, TypeOK, WorkType
<1>5. QED BY <1>1, <1>2, <1>3, <1>4, AgentReportType, QuietStep

LEMMA AgentSendQuiet ==
    ASSUME TypeOK, IInv, NEW s \in Session, NEW a \in Agent, AgentSend(s, a)
    PROVE  IInv'
<1>1. UNCHANGED <<coord, closedCh, cancelled, disk, durable, acked>>
  BY DEF AgentSend, coord, chans, disk, history
<1>2. \A d \in Caller : call'[d].pc \in Starting => call'[d] = call[d]
  BY DEF AgentSend
<1>3. \A z \in Session, b \in Agent : findings[z][b] <= findings'[z][b]
  BY DEF TypeOK, WorkType, AgentSend, work
<1>4. \A z \in Session : Stopped(z) => Stopped(z)'
  BY DEF AgentSend, AgentAt, AgentGoto, Stopped, TypeOK, WorkType
<1>5. QED BY <1>1, <1>2, <1>3, <1>4, AgentSendType, QuietStep

LEMMA PfBeginQuiet ==
    ASSUME TypeOK, IInv, NEW s \in Session, PfBegin(s)
    PROVE  IInv'
<1>1. UNCHANGED <<coord, closedCh, cancelled, disk, durable, acked>>
  BY DEF PfBegin, coord, chans, disk, history
<1>2. \A d \in Caller : call'[d].pc \in Starting => call'[d] = call[d]
  BY DEF PfBegin
<1>3. \A z \in Session, b \in Agent : findings[z][b] <= findings'[z][b]
  BY DEF TypeOK, WorkType, PfBegin, work
<1>4. \A z \in Session : Stopped(z) => Stopped(z)'
  BY DEF PfBegin, PfAt, PfGoto, Stopped, TypeOK, WorkType, PfFrames
<1>5. QED BY <1>1, <1>2, <1>3, <1>4, PfBeginType, QuietStep

LEMMA PfQuitQuiet ==
    ASSUME TypeOK, IInv, NEW s \in Session, PfQuit(s)
    PROVE  IInv'
<1>1. UNCHANGED <<coord, closedCh, cancelled, disk, durable, acked>>
  BY DEF PfQuit, coord, chans, disk, history
<1>2. \A d \in Caller : call'[d].pc \in Starting => call'[d] = call[d]
  BY DEF PfQuit
<1>3. \A z \in Session, b \in Agent : findings[z][b] <= findings'[z][b]
  BY DEF TypeOK, WorkType, PfQuit, work
<1>4. \A z \in Session : Stopped(z) => Stopped(z)'
  BY DEF PfQuit, PfAt, PfGoto, Stopped, TypeOK, WorkType, PfFrames
<1>5. QED BY <1>1, <1>2, <1>3, <1>4, PfQuitType, QuietStep

LEMMA PfRecvQuiet ==
    ASSUME TypeOK, IInv, NEW s \in Session, PfRecv(s)
    PROVE  IInv'
<1>1. UNCHANGED <<coord, closedCh, cancelled, disk, durable, acked>>
  BY DEF PfRecv, coord, chans, disk, history
<1>2. \A d \in Caller : call'[d].pc \in Starting => call'[d] = call[d]
  BY DEF PfRecv
<1>3. \A z \in Session, b \in Agent : findings[z][b] <= findings'[z][b]
  BY DEF TypeOK, WorkType, PfRecv, work
<1>4. \A z \in Session : Stopped(z) => Stopped(z)'
  BY DEF PfRecv, PfAt, PfGoto, Stopped, TypeOK, WorkType, PfFrames
<1>5. QED BY <1>1, <1>2, <1>3, <1>4, PfRecvType, QuietStep

LEMMA PfSendQuiet ==
    ASSUME TypeOK, IInv, NEW s \in Session, PfSend(s)
    PROVE  IInv'
<1>1. UNCHANGED <<coord, closedCh, cancelled, disk, durable, acked>>
  BY DEF PfSend, coord, chans, disk, history
<1>2. \A d \in Caller : call'[d].pc \in Starting => call'[d] = call[d]
  BY DEF PfSend
<1>3. \A z \in Session, b \in Agent : findings[z][b] <= findings'[z][b]
  BY DEF TypeOK, WorkType, PfSend, work
<1>4. \A z \in Session : Stopped(z) => Stopped(z)'
  BY DEF PfSend, PfAt, PfGoto, Stopped, TypeOK, WorkType, PfFrames
<1>5. QED BY <1>1, <1>2, <1>3, <1>4, PfSendType, QuietStep

LEMMA DisposeTables ==
    ASSUME TypeOK, NEW s \in Session, Dispose(s)
    PROVE  /\ \A t \in Tables : reg'[t] = reg[t] \ {s}
           /\ reg'["channels"] = reg["channels"] \ {s}
           /\ reg'["findings"] = reg["findings"] \ {s}
           /\ reg'["cancels"] = reg["cancels"] \ {s}
           /\ reg'["blackboards"] = reg["blackboards"] \ {s}
           /\ reg'["handoff"] = reg["handoff"] \ {s}
           /\ status' = [status EXCEPT ![s] = "closed"]
BY DEF Dispose, Tables

LEMMA EvictInv ==
    ASSUME TypeOK, IInv, NEW s \in sessions, Dispose(s), sessions' = sessions \ {s}, TypeOK',
           UNCHANGED <<created, findings, ag, pf, store, restoring, durable, acked>>,
           \A d \in Caller : call'[d].pc \in Starting => call'[d] = call[d]
    PROVE  IInv'
<1> USE DEF IInv, Dispose, Tables, Stopped, TypeOK, CoordType, ChansType, WorkType, DiskType,
        Frames, RawFrames, FrameOK, Starting
<1>1. MapsAgree'
  <2>1. s \in Session
    OBVIOUS
  <2>2. {z \in sessions' : status'[z] = "active"} = {z \in sessions : status[z] = "active"} \ {s}
    BY <2>1, DisposeTables
  <2>3. QED BY <2>1, <2>2, DisposeTables DEF MapsAgree
<1>2. NoOrphan'
  BY DEF NoOrphan, MapsAgree, PublishedKnown
<1>3. DurableClose'
  BY DEF DurableClose, BuiltFresh, RestoringOut, CommitSound, StatusSound, NoTrace
<1>4. AckedFindingStored'
  BY DEF AckedFindingStored, CommitSound, FindingsCover, StatusSound
<1>5. NoTrace'
  BY DEF NoTrace, StarterOwns, StatusSound, RestoringOut
<1>6. StatusSound'
  BY DisposeTables DEF StatusSound, MapsAgree
<1>7. StarterOwns'
  BY DEF StarterOwns, NoTrace, RestoringOut
<1>8. BuiltFresh'
  BY DEF BuiltFresh, StarterOwns, NoTrace, StatusSound
<1>9. PublishedKnown'
  BY DEF PublishedKnown, MapsAgree, StarterOwns, StatusSound
<1>10. RestoringOut'
  BY DEF RestoringOut, StarterOwns, StatusSound, NoTrace
<1>11. CommitSound'
  BY DEF CommitSound, FindingsCover, PublishedKnown, DurableClose, StarterOwns, StatusSound
<1>12. FindingsCover'
  BY DEF FindingsCover, BuiltFresh, RestoringOut, AckedFindingStored, StatusSound
<1>13. QED BY <1>1, <1>2, <1>3, <1>4, <1>5, <1>6, <1>7, <1>8, <1>9, <1>10, <1>11, <1>12 DEF IInv

LEMMA StartEvictInv ==
    ASSUME TypeOK, IInv, NEW c \in Caller, StartEvict(c)
    PROVE  IInv'
<1>1. \A d \in Caller : call'[d].pc \in Starting => call'[d] = call[d]
  BY DEF TypeOK, CoordType, ChansType, WorkType, DiskType, Frames, RawFrames, FrameOK, Starting, At, Begin, Goto, Enter, StartEvict
<1>2. CASE UNCHANGED <<sessions, status, reg, closedCh, cancelled, gauge>>
  <2>1. UNCHANGED <<coord, closedCh, cancelled, disk, durable, acked>>
    BY <1>2 DEF StartEvict, coord, disk
  <2>2. UNCHANGED <<findings, ag, pf>>
    BY DEF StartEvict, work
  <2>3. \A z \in Session, a \in Agent : findings[z][a] <= findings'[z][a]
    BY <2>2 DEF TypeOK, WorkType
  <2>4. \A z \in Session : Stopped(z) => Stopped(z)'
    BY <2>2 DEF Stopped
  <2>5. QED BY <1>1, <2>1, <2>3, <2>4, StartEvictType, QuietStep
<1>3. CASE \E s \in sessions : Dispose(s) /\ sessions' = sessions \ {s}
  BY <1>1, <1>3, StartEvictType, EvictInv DEF StartEvict, work, disk
<1>4. QED BY <1>2, <1>3 DEF StartEvict

LEMMA StartBuildInv ==
    ASSUME TypeOK, IInv, NEW c \in Caller, StartBuild(c)
    PROVE  IInv'
<1> USE DEF IInv, StartBuild, chans, work, disk, history, Stopped, TypeOK, CoordType, ChansType,
        WorkType, DiskType, Frames, RawFrames, FrameOK, Starting, At, Begin, Goto,
        Enter, Frame
<1>1. MapsAgree'
  BY DEF MapsAgree, StatusSound, BuiltFresh, RestoringOut
<1>2. NoOrphan'
  BY DEF NoOrphan, MapsAgree, PublishedKnown
<1>3. DurableClose'
  BY DEF DurableClose, BuiltFresh, RestoringOut, CommitSound, StatusSound, NoTrace
<1>4. AckedFindingStored'
  BY DEF AckedFindingStored, CommitSound, FindingsCover, StatusSound
<1>5. NoTrace'
  BY DEF NoTrace, StarterOwns, StatusSound, RestoringOut
<1>6. StatusSound'
  BY DEF StatusSound, MapsAgree, BuiltFresh, RestoringOut, NoTrace
<1>7. StarterOwns'
  BY DEF StarterOwns, NoTrace, RestoringOut
<1>8. BuiltFresh'
  BY DEF BuiltFresh, StarterOwns, NoTrace, StatusSound
<1>9. PublishedKnown'
  BY DEF PublishedKnown, MapsAgree, StarterOwns, StatusSound
<1>10. RestoringOut'
  BY DEF RestoringOut, StarterOwns, StatusSound, NoTrace
<1>11. CommitSound'
  BY DEF CommitSound, FindingsCover, PublishedKnown, DurableClose, StarterOwns, StatusSound
<1>12. FindingsCover'
  BY DEF FindingsCover, BuiltFresh, RestoringOut, AckedFindingStored, StatusSound
<1>13. QED BY <1>1, <1>2, <1>3, <1>4, <1>5, <1>6, <1>7, <1>8, <1>9, <1>10, <1>11, <1>12 DEF IInv

LEMMA StartPublishInv ==
    ASSUME TypeOK, IInv, NEW c \in Caller, StartPublish(c)
    PROVE  IInv'
<1> USE DEF IInv, StartPublish, chans, work, disk, history, Tables, Stopped, TypeOK, CoordType,
        ChansType, WorkType, DiskType, Frames, RawFrames, FrameOK, Starting, At,
        Begin, Goto, Enter
<1>1. MapsAgree'
  <2>1. call[c].s \in Session
    BY StartingSession
  <2>2. /\ reg'["channels"] = reg["channels"] \cup {call[c].s}
        /\ reg'["findings"] = reg["findings"] \cup {call[c].s}
        /\ reg'["cancels"] = reg["cancels"] \cup {call[c].s}
        /\ reg'["blackboards"] = reg["blackboards"] \cup {call[c].s}
        /\ reg'["handoff"] = reg["handoff"] \cup {call[c].s}
    OBVIOUS
  <2>3. {z \in sessions' : status'[z] = "active"}
          = {z \in sessions : status[z] = "active"} \cup {call[c].s}
    BY <2>1
  <2>4. QED BY <2>2, <2>3 DEF MapsAgree
<1>2. NoOrphan'
  BY DEF NoOrphan, MapsAgree, PublishedKnown
<1>3. DurableClose'
  BY DEF DurableClose, BuiltFresh, RestoringOut, CommitSound, StatusSound, NoTrace
<1>4. AckedFindingStored'
  BY DEF AckedFindingStored, CommitSound, FindingsCover, StatusSound
<1>5. NoTrace'
  BY DEF NoTrace, StarterOwns, StatusSound, RestoringOut
<1>6. StatusSound'
  <2>1. call[c].s \in Session /\ status[call[c].s] = "none"
    BY StartingSession DEF BuiltFresh
  <2>2. QED BY <2>1 DEF StatusSound
<1>7. StarterOwns'
  BY DEF StarterOwns, NoTrace, RestoringOut
<1>8. BuiltFresh'
  BY DEF BuiltFresh, StarterOwns, NoTrace, StatusSound
<1>9. PublishedKnown'
  <2>1. call[c].s \in Session
    BY StartingSession
  <2>2. call[c].s \in reg'["channels"] /\ status'[call[c].s] = "active"
    BY <2>1
  <2>3. \A z \in Session : status[z] # "none" => status'[z] # "none"
    BY <2>1
  <2>4. reg["channels"] \subseteq reg'["channels"] /\ UNCHANGED cancelled
    OBVIOUS
  <2>5. ASSUME NEW d \in Caller, call'[d].pc \in {"published", "commit", "saved"}
        PROVE  /\ status'[call'[d].s] # "none"
               /\ call'[d].s \in reg'["channels"] \cup cancelled'
    <3>1. CASE d = c
      BY <2>2, <3>1
    <3>2. CASE d # c
      <4>1. call'[d] = call[d] /\ call[d].s \in Session
        BY <2>5, <3>2, StartingSession
      <4>2. QED BY <2>3, <2>4, <2>5, <4>1 DEF PublishedKnown
    <3>3. QED BY <3>1, <3>2
  <2>6. QED BY <2>5 DEF PublishedKnown
<1>10. RestoringOut'
  BY DEF RestoringOut, StarterOwns, StatusSound, NoTrace
<1>11. CommitSound'
  BY DEF CommitSound, FindingsCover, PublishedKnown, DurableClose, StarterOwns, StatusSound
<1>12. FindingsCover'
  BY DEF FindingsCover, BuiltFresh, RestoringOut, AckedFindingStored, StatusSound
<1>13. QED BY <1>1, <1>2, <1>3, <1>4, <1>5, <1>6, <1>7, <1>8, <1>9, <1>10, <1>11, <1>12 DEF IInv

LEMMA StartSaveInv ==
    ASSUME TypeOK, IInv, NEW c \in Caller, StartSave(c)
    PROVE  IInv'
<1> USE DEF IInv, StartSave, Row, coord, chans, work, disk, history, Stopped, TypeOK, CoordType,
        ChansType, WorkType, DiskType, Frames, RawFrames, FrameOK, Starting, At,
        Begin, Goto, Enter
<1>1. MapsAgree'
  BY DEF MapsAgree, StatusSound, BuiltFresh, RestoringOut
<1>2. NoOrphan'
  BY DEF NoOrphan, MapsAgree, PublishedKnown
<1>3. DurableClose'
  BY DEF DurableClose, BuiltFresh, RestoringOut, CommitSound, StatusSound, NoTrace
<1>4. AckedFindingStored'
  BY DEF AckedFindingStored, CommitSound, FindingsCover, StatusSound
<1>5. NoTrace'
  BY DEF NoTrace, StarterOwns, StatusSound, RestoringOut
<1>6. StatusSound'
  BY DEF StatusSound, MapsAgree, BuiltFresh, RestoringOut, NoTrace
<1>7. StarterOwns'
  BY DEF StarterOwns, NoTrace, RestoringOut
<1>8. BuiltFresh'
  BY DEF BuiltFresh, StarterOwns, NoTrace, StatusSound
<1>9. PublishedKnown'
  BY DEF PublishedKnown, MapsAgree, StarterOwns, StatusSound
<1>10. RestoringOut'
  BY DEF RestoringOut, StarterOwns, StatusSound, NoTrace
<1>11. CommitSound'
  <2>1. /\ call[c].s \in Session /\ status[call[c].s] # "none"
        /\ call'[c] = [call[c] EXCEPT !.pc = "commit", !.row = Row(call[c].s)]
    BY StartingSession DEF PublishedKnown
  <2>2. /\ call'[c].s = call[c].s
        /\ call'[c].row.st = status[call[c].s]
        /\ call'[c].row.f = findings[call[c].s]
    BY <2>1
  <2>3. status[call[c].s] \in {"active", "closed"}
    BY <2>1 DEF Statuses
  <2>4. call[c].s \in durable => call'[c].row.st = "closed"
    BY <2>1, <2>2, <2>3 DEF DurableClose
  <2>5. \A a \in Agent : acked[call[c].s][a] <= call'[c].row.f[a]
    BY <2>1, <2>2 DEF FindingsCover
  <2>6. \A d \in Caller \ {c} : call'[d] = call[d]
    OBVIOUS
  <2>7. UNCHANGED <<durable, acked>>
    OBVIOUS
  <2>8. ASSUME NEW d \in Caller, call'[d].pc = "commit"
        PROVE  /\ call'[d].s \in durable' => call'[d].row.st = "closed"
               /\ \A a \in Agent : acked'[call'[d].s][a] <= call'[d].row.f[a]
    <3>1. CASE d = c
      BY <2>2, <2>4, <2>5, <2>7, <3>1
    <3>2. CASE d # c
      BY <2>6, <2>7, <2>8, <3>2 DEF CommitSound
    <3>3. QED BY <3>1, <3>2
  <2>9. QED BY <2>8 DEF CommitSound
<1>12. FindingsCover'
  BY DEF FindingsCover, BuiltFresh, RestoringOut, AckedFindingStored, StatusSound
<1>13. QED BY <1>1, <1>2, <1>3, <1>4, <1>5, <1>6, <1>7, <1>8, <1>9, <1>10, <1>11, <1>12 DEF IInv

LEMMA StartCommitInv ==
    ASSUME TypeOK, IInv, NEW c \in Caller, StartCommit(c)
    PROVE  IInv'
<1> USE DEF IInv, StartCommit, coord, chans, work, history, Stopped, TypeOK, CoordType,
        ChansType, WorkType, DiskType, Frames, RawFrames, FrameOK, Starting, At,
        Begin, Goto, Enter
<1>1. MapsAgree'
  BY DEF MapsAgree, StatusSound, BuiltFresh, RestoringOut
<1>2. NoOrphan'
  BY DEF NoOrphan, MapsAgree, PublishedKnown
<1>3. DurableClose'
  BY DEF DurableClose, BuiltFresh, RestoringOut, CommitSound, StatusSound, NoTrace
<1>4. AckedFindingStored'
  BY DEF AckedFindingStored, CommitSound, FindingsCover, StatusSound
<1>5. NoTrace'
  BY DEF NoTrace, StarterOwns, StatusSound, RestoringOut
<1>6. StatusSound'
  BY DEF StatusSound, MapsAgree, BuiltFresh, RestoringOut, NoTrace
<1>7. StarterOwns'
  BY DEF StarterOwns, NoTrace, RestoringOut
<1>8. BuiltFresh'
  BY DEF BuiltFresh, StarterOwns, NoTrace, StatusSound
<1>9. PublishedKnown'
  BY DEF PublishedKnown, MapsAgree, StarterOwns, StatusSound
<1>10. RestoringOut'
  BY DEF RestoringOut, StarterOwns, StatusSound, NoTrace
<1>11. CommitSound'
  BY DEF CommitSound, FindingsCover, PublishedKnown, DurableClose, StarterOwns, StatusSound
<1>12. FindingsCover'
  BY DEF FindingsCover, BuiltFresh, RestoringOut, AckedFindingStored, StatusSound
<1>13. QED BY <1>1, <1>2, <1>3, <1>4, <1>5, <1>6, <1>7, <1>8, <1>9, <1>10, <1>11, <1>12 DEF IInv

LEMMA StartSpawnInv ==
    ASSUME TypeOK, IInv, NEW c \in Caller, StartSpawn(c)
    PROVE  IInv'
<1> USE DEF IInv, StartSpawn, coord, chans, disk, history, Stopped, TypeOK, CoordType,
        ChansType, WorkType, DiskType, Frames, RawFrames, FrameOK, Starting, At,
        Begin, Goto, Enter, Frame, Return, IdleCall
<1>1. MapsAgree'
  BY DEF MapsAgree, StatusSound, BuiltFresh, RestoringOut
<1>2. NoOrphan'
  <2>1. /\ call[c].s \in Session
        /\ call[c].s \in reg["channels"] \cup cancelled
    BY StartingSession DEF PublishedKnown
  <2>2. UNCHANGED <<reg, cancelled>>
    OBVIOUS
  <2>3. ASSUME NEW z \in Session, z # call[c].s PROVE Stopped(z) => Stopped(z)'
    BY <2>1, <2>3
  <2>4. QED BY <2>1, <2>2, <2>3 DEF NoOrphan
<1>3. DurableClose'
  BY DEF DurableClose, BuiltFresh, RestoringOut, CommitSound, StatusSound, NoTrace
<1>4. AckedFindingStored'
  BY DEF AckedFindingStored, CommitSound, FindingsCover, StatusSound
<1>5. NoTrace'
  BY DEF NoTrace, StarterOwns, StatusSound, RestoringOut
<1>6. StatusSound'
  BY DEF StatusSound, MapsAgree, BuiltFresh, RestoringOut, NoTrace
<1>7. StarterOwns'
  BY DEF StarterOwns, NoTrace, RestoringOut
<1>8. BuiltFresh'
  BY DEF BuiltFresh, StarterOwns, NoTrace, StatusSound
<1>9. PublishedKnown'
  BY DEF PublishedKnown, MapsAgree, StarterOwns, StatusSound
<1>10. RestoringOut'
  BY DEF RestoringOut, StarterOwns, StatusSound, NoTrace
<1>11. CommitSound'
  BY DEF CommitSound, FindingsCover, PublishedKnown, DurableClose, StarterOwns, StatusSound
<1>12. FindingsCover'
  BY DEF FindingsCover, BuiltFresh, RestoringOut, AckedFindingStored, StatusSound
<1>13. QED BY <1>1, <1>2, <1>3, <1>4, <1>5, <1>6, <1>7, <1>8, <1>9, <1>10, <1>11, <1>12 DEF IInv

LEMMA SubmitRecordInv ==
    ASSUME TypeOK, IInv, NEW c \in Caller, SubmitRecord(c)
    PROVE  IInv'
<1> USE DEF IInv, TypeOK, CoordType, ChansType, WorkType, DiskType
<1>s. PICK s \in sessions, b \in Agent :
         LET more == [findings[s] EXCEPT ![b] = @ + 1] IN
         /\ findings' = [findings EXCEPT ![s] = more]
         /\ store' = IF HasStore
                     THEN [store EXCEPT ![s] = [Row(s) EXCEPT !.f = more]] ELSE store
         /\ acked' = IF HasStore /\ ~SavePending(s)
                     THEN [acked EXCEPT ![s] = more] ELSE acked
  BY DEF SubmitRecord
<1> DEFINE more == [findings[s] EXCEPT ![b] = @ + 1]
<1>a. /\ s \in Session /\ s \notin restoring
      /\ status[s] \in {"active", "closed"} /\ created[s] # 0
  BY DEF StatusSound, RestoringOut, NoTrace, Statuses
<1>b. /\ more \in [Agent -> Nat] /\ findings[s] \in [Agent -> Nat]
      /\ \A a \in Agent : findings[s][a] <= more[a]
  <2>1. findings[s] \in [Agent -> Nat]
    BY <1>a
  <2>2. \A a \in Agent : more[a] = IF a = b THEN findings[s][a] + 1 ELSE findings[s][a]
    BY <2>1
  <2>3. QED BY <2>1, <2>2
<1> HIDE DEF more
<1>c. ASSUME NEW a \in Agent PROVE acked[s][a] <= more[a]
  <2>1. acked[s][a] <= findings[s][a] /\ findings[s][a] <= more[a]
    BY <1>a, <1>b DEF FindingsCover
  <2>2. acked[s][a] \in Nat /\ findings[s][a] \in Nat /\ more[a] \in Nat
    BY <1>a, <1>b
  <2>3. QED BY <2>1, <2>2
<1>d. /\ findings'[s] = more
      /\ acked'[s] = more \/ acked'[s] = acked[s]
      /\ store'[s].f = more \/ UNCHANGED <<store, acked>>
      /\ store'[s].st = status[s] \/ UNCHANGED store
  BY <1>s, <1>a, <1>b DEF Row, more
<1>e. \A z \in Session \ {s} :
         findings'[z] = findings[z] /\ acked'[z] = acked[z] /\ store'[z] = store[z]
  BY <1>s, <1>a
<1>f. \A d \in Caller : call'[d].pc \in Starting => call'[d] = call[d]
  BY DEF SubmitRecord, Enter, Frame, Starting
<1>g. UNCHANGED <<sessions, status, created, reg, closedCh, cancelled, ag, pf, restoring, durable>>
  BY DEF SubmitRecord, coord, chans
<1>h. \A a \in Agent : more[a] <= more[a] /\ acked[s][a] <= acked[s][a]
  BY <1>a, <1>b
<1>1. MapsAgree'
  BY <1>g DEF MapsAgree
<1>2. NoOrphan'
  BY <1>g DEF NoOrphan, Stopped
<1>3. DurableClose'
  <2>1. s \in durable => store'[s].st = "closed"
    BY <1>a, <1>d DEF DurableClose
  <2>2. QED BY <2>1, <1>e, <1>g DEF DurableClose
<1>4. AckedFindingStored'
  <2>1. ASSUME NEW a \in Agent PROVE acked'[s][a] <= store'[s].f[a]
    BY <1>a, <1>b, <1>c, <1>d, <1>h DEF AckedFindingStored
  <2>2. QED BY <2>1, <1>e DEF AckedFindingStored
<1>5. NoTrace'
  <2>1. ASSUME NEW z \in Session, created[z] = 0
        PROVE  z # s /\ acked'[z] = acked[z] /\ store'[z] = store[z]
    BY <1>a, <1>e, <2>1
  <2>2. QED BY <2>1, <1>g DEF NoTrace
<1>6. StatusSound'
  BY <1>g DEF StatusSound
<1>7. StarterOwns'
  BY <1>f, <1>g DEF StarterOwns
<1>8. BuiltFresh'
  <2>1. ASSUME NEW d \in Caller, call'[d].pc = "built"
        PROVE  /\ call'[d].s \in Session \ {s} /\ call'[d] = call[d]
    <3>1. call'[d] = call[d] /\ call[d].s \in Session
      BY <1>f, <2>1, StartingSession DEF Starting
    <3>2. status[call[d].s] = "none"
      BY <2>1, <3>1 DEF BuiltFresh
    <3>3. call[d].s # s
      BY <1>a, <3>2
    <3>4. QED BY <3>1, <3>3
  <2>2. ASSUME NEW d \in Caller, call'[d].pc = "built"
        PROVE  /\ status'[call'[d].s] = "none" /\ call'[d].s \notin durable'
               /\ \A a \in Agent : acked'[call'[d].s][a] = 0
    <3>1. call'[d] = call[d] /\ acked'[call[d].s] = acked[call[d].s]
      BY ONLY <2>1, <2>2, <1>e
    <3>2. UNCHANGED <<status, durable>>
      BY <1>g
    <3>3. QED BY <2>2, <3>1, <3>2 DEF BuiltFresh
  <2>3. QED BY <2>2 DEF BuiltFresh
<1>9. PublishedKnown'
  BY <1>f, <1>g DEF PublishedKnown, Starting
<1>10. RestoringOut'
  BY <1>a, <1>e, <1>g DEF RestoringOut
<1>11. CommitSound'
  <2>1. ASSUME NEW d \in Caller, call'[d].pc = "commit"
        PROVE  /\ call'[d].s \in durable' => call'[d].row.st = "closed"
               /\ \A a \in Agent : acked'[call'[d].s][a] <= call'[d].row.f[a]
    <3>1. call'[d] = call[d] /\ call[d].pc = "commit" /\ call[d].s \in Session
      BY <1>f, <2>1, StartingSession DEF Starting
    <3>2. acked'[call[d].s] = acked[call[d].s]
      <4>1. CASE call[d].s = s
        BY <1>s, <3>1, <4>1 DEF SavePending
      <4>2. CASE call[d].s # s
        BY <1>e, <3>1, <4>2
      <4>3. QED BY <4>1, <4>2
    <3>3. QED BY <1>g, <3>1, <3>2 DEF CommitSound
  <2>2. QED BY <2>1 DEF CommitSound
<1>12. FindingsCover'
  <2>1. ASSUME NEW a \in Agent PROVE acked'[s][a] <= findings'[s][a]
    BY <1>b, <1>c, <1>d, <1>h
  <2>2. QED BY <2>1, <1>e, <1>g DEF FindingsCover
<1>13. QED BY <1>1, <1>2, <1>3, <1>4, <1>5, <1>6, <1>7, <1>8, <1>9, <1>10, <1>11, <1>12 DEF IInv

LEMMA ParentDoneInv ==
    ASSUME TypeOK, IInv, NEW s \in Session, ParentDone(s)
    PROVE  IInv'
<1> USE DEF IInv, ParentDone, coord, work, disk, history, Stopped, TypeOK, CoordType, ChansType,
        WorkType, DiskType
<1>1. MapsAgree'
  BY DEF MapsAgree, StatusSound, BuiltFresh, RestoringOut
<1>2. NoOrphan'
  BY DEF NoOrphan, MapsAgree, PublishedKnown
<1>3. DurableClose'
  BY DEF DurableClose, BuiltFresh, RestoringOut, CommitSound, StatusSound, NoTrace
<1>4. AckedFindingStored'
  BY DEF AckedFindingStored, CommitSound, FindingsCover, StatusSound
<1>5. NoTrace'
  BY DEF NoTrace, StarterOwns, StatusSound, RestoringOut
<1>6. StatusSound'
  BY DEF StatusSound, MapsAgree, BuiltFresh, RestoringOut, NoTrace
<1>7. StarterOwns'
  BY DEF StarterOwns, NoTrace, RestoringOut
<1>8. BuiltFresh'
  BY DEF BuiltFresh, StarterOwns, NoTrace, StatusSound
<1>9. PublishedKnown'
  BY DEF PublishedKnown, MapsAgree, StarterOwns, StatusSound
<1>10. RestoringOut'
  BY DEF RestoringOut, StarterOwns, StatusSound, NoTrace
<1>11. CommitSound'
  BY DEF CommitSound, FindingsCover, PublishedKnown, DurableClose, StarterOwns, StatusSound
<1>12. FindingsCover'
  BY DEF FindingsCover, BuiltFresh, RestoringOut, AckedFindingStored, StatusSound
<1>13. QED BY <1>1, <1>2, <1>3, <1>4, <1>5, <1>6, <1>7, <1>8, <1>9, <1>10, <1>11, <1>12 DEF IInv

LEMMA RestoreSessionInv ==
    ASSUME TypeOK, IInv, NEW s \in Session, RestoreSession(s)
    PROVE  IInv'
<1> USE DEF IInv, RestoreSession, chans, history, Tables, Stopped, TypeOK, CoordType, ChansType,
        WorkType, DiskType, Rows, Frames, RawFrames, FrameOK, Starting
<1>1. MapsAgree'
  <2>1. /\ reg'["channels"] = reg["channels"]
        /\ reg'["findings"] = reg["findings"]
        /\ reg'["cancels"] = reg["cancels"]
        /\ reg'["blackboards"] = reg["blackboards"] \cup {s}
        /\ reg'["handoff"] = reg["handoff"] \cup {s}
    OBVIOUS
  <2>2. store[s].st = "active" /\ status' = [status EXCEPT ![s] = "active"]
    BY DEF RestoringOut
  <2>3. {z \in sessions' : status'[z] = "active"}
          = {z \in sessions : status[z] = "active"} \cup {s}
    BY <2>2
  <2>4. QED BY <2>1, <2>3 DEF MapsAgree
<1>2. NoOrphan'
  BY DEF NoOrphan, MapsAgree, PublishedKnown
<1>3. DurableClose'
  BY DEF DurableClose, BuiltFresh, RestoringOut, CommitSound, StatusSound, NoTrace
<1>4. AckedFindingStored'
  BY DEF AckedFindingStored, CommitSound, FindingsCover, StatusSound
<1>5. NoTrace'
  BY DEF NoTrace, StarterOwns, StatusSound, RestoringOut
<1>6. StatusSound'
  BY DEF StatusSound, MapsAgree, BuiltFresh, RestoringOut, NoTrace
<1>7. StarterOwns'
  BY DEF StarterOwns, NoTrace, RestoringOut
<1>8. BuiltFresh'
  BY DEF BuiltFresh, StarterOwns, NoTrace, StatusSound
<1>9. PublishedKnown'
  <2>1. UNCHANGED <<call, cancelled>> /\ reg'["channels"] = reg["channels"]
    OBVIOUS
  <2>2. \A z \in Session : status[z] # "none" => status'[z] # "none"
    BY DEF RestoringOut
  <2>3. \A d \in Caller : call[d].pc \in {"published", "commit", "saved"} => call[d].s \in Session
    BY StartingSession
  <2>4. QED BY <2>1, <2>2, <2>3 DEF PublishedKnown
<1>10. RestoringOut'
  BY DEF RestoringOut, StarterOwns, StatusSound, NoTrace
<1>11. CommitSound'
  BY DEF CommitSound, FindingsCover, PublishedKnown, DurableClose, StarterOwns, StatusSound
<1>12. FindingsCover'
  BY DEF FindingsCover, BuiltFresh, RestoringOut, AckedFindingStored, StatusSound
<1>13. QED BY <1>1, <1>2, <1>3, <1>4, <1>5, <1>6, <1>7, <1>8, <1>9, <1>10, <1>11, <1>12 DEF IInv

LEMMA CrashInv ==
    ASSUME TypeOK, IInv, Crash
    PROVE  IInv'
<1> USE DEF IInv, Crash, Tables, Stopped, IdleCall, Frame, Starting, TypeOK, CoordType,
        ChansType, WorkType, DiskType, Rows, NoFindings
<1>1. MapsAgree'
  BY DEF MapsAgree, StatusSound, BuiltFresh, RestoringOut
<1>2. NoOrphan'
  BY DEF NoOrphan, MapsAgree, PublishedKnown
<1>3. DurableClose'
  BY DEF DurableClose, BuiltFresh, RestoringOut, CommitSound, StatusSound, NoTrace
<1>4. AckedFindingStored'
  BY DEF AckedFindingStored, CommitSound, FindingsCover, StatusSound
<1>5. NoTrace'
  BY DEF NoTrace, StarterOwns, StatusSound, RestoringOut
<1>6. StatusSound'
  BY DEF StatusSound, MapsAgree, BuiltFresh, RestoringOut, NoTrace
<1>7. StarterOwns'
  BY DEF StarterOwns, NoTrace, RestoringOut
<1>8. BuiltFresh'
  BY DEF BuiltFresh, StarterOwns, NoTrace, StatusSound
<1>9. PublishedKnown'
  BY DEF PublishedKnown, MapsAgree, StarterOwns, StatusSound
<1>10. RestoringOut'
  BY DEF RestoringOut, StarterOwns, StatusSound, NoTrace
<1>11. CommitSound'
  BY DEF CommitSound, FindingsCover, PublishedKnown, DurableClose, StarterOwns, StatusSound
<1>12. FindingsCover'
  BY DEF FindingsCover, BuiltFresh, RestoringOut, AckedFindingStored, StatusSound
<1>13. QED BY <1>1, <1>2, <1>3, <1>4, <1>5, <1>6, <1>7, <1>8, <1>9, <1>10, <1>11, <1>12 DEF IInv

LEMMA CloseInv ==
    ASSUME TypeOK, IInv, NEW s \in Session, Close(s), TypeOK',
           \A d \in Caller : call'[d].pc \in Starting => call'[d] = call[d]
    PROVE  IInv'
<1> USE DEF IInv, Close, Dispose, Row, SavePending, work, Tables, Stopped, Statuses, TypeOK,
        CoordType, ChansType, WorkType, DiskType, Frames, RawFrames, FrameOK, Starting
<1>1. MapsAgree'
  <2>1. reg' = [t \in Tables |-> reg[t] \ {s}]
    OBVIOUS
  <2>2. {z \in sessions' : status'[z] = "active"} = {z \in sessions : status[z] = "active"} \ {s}
    BY DEF MapsAgree
  <2>3. MapsAgree
    OBVIOUS
  <2>4. QED BY ONLY <2>1, <2>2, <2>3 DEF MapsAgree, Tables
<1>2. NoOrphan'
  BY DEF NoOrphan, MapsAgree, PublishedKnown
<1>3. DurableClose'
  BY DEF DurableClose, BuiltFresh, RestoringOut, CommitSound, StatusSound, NoTrace
<1>4. AckedFindingStored'
  BY DEF AckedFindingStored, CommitSound, FindingsCover, StatusSound
<1>5. NoTrace'
  BY DEF NoTrace, StarterOwns, StatusSound, RestoringOut
<1>6. StatusSound'
  BY DEF StatusSound, MapsAgree, BuiltFresh, RestoringOut, NoTrace
<1>7. StarterOwns'
  BY DEF StarterOwns, NoTrace, RestoringOut
<1>8. BuiltFresh'
  BY DEF BuiltFresh, StarterOwns, NoTrace, StatusSound
<1>9. PublishedKnown'
  BY DEF PublishedKnown, MapsAgree, StarterOwns, StatusSound
<1>10. RestoringOut'
  BY DEF RestoringOut, StarterOwns, StatusSound, NoTrace
<1>11. CommitSound'
  BY DEF CommitSound, FindingsCover, PublishedKnown, DurableClose, StarterOwns, StatusSound
<1>12. FindingsCover'
  BY DEF FindingsCover, BuiltFresh, RestoringOut, AckedFindingStored, StatusSound
<1>13. QED BY <1>1, <1>2, <1>3, <1>4, <1>5, <1>6, <1>7, <1>8, <1>9, <1>10, <1>11, <1>12 DEF IInv

LEMMA CloseSessionInv ==
    ASSUME TypeOK, IInv, NEW c \in Caller, CloseSession(c)
    PROVE  IInv'
<1>1. PICK s \in Session : Close(s)
  BY DEF CloseSession, TypeOK, CoordType
<1>2. UNCHANGED call
  BY DEF CloseSession
<1>3. QED BY <1>1, <1>2, CloseSessionType, CloseInv

LEMMA ShutdownCloseInv ==
    ASSUME TypeOK, IInv, NEW c \in Caller, ShutdownClose(c)
    PROVE  IInv'
<1>1. call[c].pc = "shutdown" /\ call \in [Caller -> Frames]
  BY DEF ShutdownClose, At, TypeOK
<1>2. CASE call[c].todo \cap sessions = {}
  <2>1. /\ Return(c)
        /\ UNCHANGED <<coord, chans, work, disk, gauge, proc, history>>
    BY <1>2 DEF ShutdownClose
  <2>2. \A d \in Caller : call'[d].pc \in Starting => call'[d] = call[d]
    BY <1>1, <2>1 DEF Return, Enter, IdleCall, Frame, Starting
  <2>3. UNCHANGED <<coord, closedCh, cancelled, disk, durable, acked>>
    BY <2>1 DEF chans, history
  <2>4. UNCHANGED <<findings, ag, pf>>
    BY <2>1 DEF work
  <2>5. \A s \in Session, a \in Agent : findings[s][a] <= findings'[s][a]
    BY <2>4 DEF TypeOK, WorkType
  <2>6. \A s \in Session : Stopped(s) => Stopped(s)'
    BY <2>4 DEF Stopped
  <2>7. QED BY <2>2, <2>3, <2>5, <2>6, ShutdownCloseType, QuietStep
<1>3. CASE call[c].todo \cap sessions # {}
  <2>1. PICK s \in Session : Close(s) /\ Enter(c, [call[c] EXCEPT !.todo = @ \ {s}])
    BY <1>3 DEF ShutdownClose, TypeOK, CoordType
  <2>2. \A d \in Caller : call'[d].pc \in Starting => call'[d] = call[d]
    BY <1>1, <2>1 DEF Enter, Frames, RawFrames, Starting
  <2>3. QED BY <2>1, <2>2, ShutdownCloseType, CloseInv
<1>4. QED BY <1>2, <1>3

LEMMA InitInv ==
    ASSUME Init PROVE IInv
<1> USE DEF Init, IdleCall, Frame, Starting
<1>1. MapsAgree /\ StatusSound
  BY DEF MapsAgree, StatusSound, Tables
<1>2. NoOrphan
  BY DEF NoOrphan, Stopped, Tables
<1>3. DurableClose /\ RestoringOut
  BY DEF DurableClose, RestoringOut
<1>4. AckedFindingStored
  BY DEF AckedFindingStored, NoRow, NoFindings
<1>5. NoTrace
  BY DEF NoTrace, NoRow, NoFindings
<1>6. StarterOwns /\ BuiltFresh /\ PublishedKnown /\ CommitSound
  BY DEF StarterOwns, BuiltFresh, PublishedKnown, CommitSound
<1>7. FindingsCover
  BY DEF FindingsCover
<1>8. QED BY <1>1, <1>2, <1>3, <1>4, <1>5, <1>6, <1>7 DEF IInv

LEMMA InvStep ==
    ASSUME TypeOK, IInv, [Next]_vars
    PROVE  IInv'
<1>1. CASE \E c \in Caller : StartWarRoom(c) \/ SubmitFinding(c)
  BY <1>1, StartEvictInv, StartBuildInv, StartPublishInv, StartSaveInv, StartCommitInv,
     StartSpawnInv, SubmitRecordInv, SubmitLookupQuiet, SubmitSendQuiet
     DEF StartWarRoom, SubmitFinding
<1>2. CASE \E c \in Caller : AssignTask(c) \/ Broadcast(c)
  BY <1>2, AssignLookupQuiet, AssignSendQuiet, AssignCancelledQuiet, BroadcastLookupQuiet,
     BroadcastSendQuiet DEF AssignTask, Broadcast
<1>3. CASE \E c \in Caller : CloseSession(c) \/ Shutdown(c)
  BY <1>3, CloseSessionInv, ShutdownListQuiet, ShutdownCloseInv DEF Shutdown
<1>4. CASE \E s \in Session : ParentDone(s) \/ processFindings(s) \/ RestoreSession(s)
  BY <1>4, ParentDoneInv, RestoreSessionInv, PfBeginQuiet, PfQuitQuiet, PfRecvQuiet,
     PfSendQuiet DEF processFindings
<1>5. CASE \E s \in Session, a \in Agent : runAgent(s, a)
  BY <1>5, AgentBeginQuiet, AgentFetchQuiet, AgentQuitQuiet, AgentRecvQuiet,
     AgentClosedQuiet, AgentReportQuiet, AgentSendQuiet DEF runAgent
<1>6. CASE Crash
  BY <1>6, CrashInv
<1>7. CASE UNCHANGED vars
  <2>1. UNCHANGED <<coord, closedCh, cancelled, disk, durable, acked, call, findings, ag, pf>>
    BY <1>7 DEF vars, chans, work, history
  <2>2. \A s \in Session, a \in Agent : findings[s][a] <= findings'[s][a]
    BY <2>1 DEF TypeOK, WorkType
  <2>3. \A s \in Session : Stopped(s) => Stopped(s)'
    BY <2>1 DEF Stopped
  <2>4. QED BY <2>1, <2>2, <2>3, TypeStep, QuietStep
<1>8. QED BY <1>1, <1>2, <1>3, <1>4, <1>5, <1>6, <1>7 DEF Next

\* The inductive invariant holds in every behaviour of the coordinator.
THEOREM CoordinatorInvariant == Spec => [](TypeOK /\ IInv)
<1>1. Init => TypeOK /\ IInv
  BY InitType, InitInv
<1>2. TypeOK /\ IInv /\ [Next]_vars => (TypeOK /\ IInv)'
  BY TypeStep, InvStep
<1>3. QED BY <1>1, <1>2, PTL DEF Spec

-----------------------------------------------------------------------------
(* What follows for the properties the runs check.                           *)

\* In every behaviour the per-session maps of the coordinator agree, whatever
\* starts, evictions, closes and restores interleave.
THEOREM MapsStayInStep == Spec => []MapsAgree
<1>1. TypeOK /\ IInv => MapsAgree
  BY DEF IInv
<1>2. QED BY <1>1, CoordinatorInvariant, PTL

\* A lookup in the channel map never returns a channel that was closed.
THEOREM LookupsStayOpen == Spec => []LookupsOpen
<1>1. TypeOK /\ IInv => LookupsOpen
  <2>1. SUFFICES ASSUME TypeOK, IInv, NEW s \in reg["channels"], s \in closedCh
                 PROVE  FALSE
    BY DEF LookupsOpen
  <2>2. status[s] = "active"
    BY <2>1 DEF IInv, MapsAgree
  <2>3. status[s] = "closed"
    BY <2>1 DEF IInv, StatusSound
  <2>4. QED BY <2>2, <2>3
<1>2. QED BY <1>1, CoordinatorInvariant, PTL

\* Closing or evicting a session always cancels the goroutines it leaves.
THEOREM OrphansAreCancelled == Spec => []NoOrphan
<1>1. TypeOK /\ IInv => NoOrphan
  BY DEF IInv
<1>2. QED BY <1>1, CoordinatorInvariant, PTL

\* A session closed after its initial save stays closed on disk, over any number
\* of crashes and restores.
THEOREM ClosedStaysClosed == Spec => []DurableClose
<1>1. TypeOK /\ IInv => DurableClose
  BY DEF IInv
<1>2. QED BY <1>1, CoordinatorInvariant, PTL

\* A finding acknowledged after the initial save is never lost from the store.
THEOREM AckedFindingsSurvive == Spec => []AckedFindingStored
<1>1. TypeOK /\ IInv => AckedFindingStored
  BY DEF IInv
<1>2. QED BY <1>1, CoordinatorInvariant, PTL

=============================================================================
