------------------------ MODULE WarRoomCapacityProofs ------------------------
(* The overshoot of c.maxSessions is bounded.  A call that has passed the    *)
(* capacity check and not yet inserted its session counts as a pending       *)
(* start; sessions and pending starts together never exceed                  *)
(* MaxSessions + |Caller| - 1, because the check that makes a start pending  *)
(* either evicts a session or finds fewer than MaxSessions of them.          *)
EXTENDS WarRoomProofs, FiniteSetTheorems

CapInv == IsFiniteSet(sessions) /\ CapacityInv

LEMMA PendingFinite ==
    /\ IsFiniteSet(PendingStarts)
    /\ Cardinality(PendingStarts) \in Nat
    /\ Cardinality(PendingStarts) <= Cardinality(Caller)
    /\ Cardinality(Caller) \in Nat
BY WarRoomAssumption, FS_Subset, FS_CardinalityType DEF PendingStarts

\* A step that inserts no session, restores none and makes no start pending.
LEMMA CalmStep ==
    ASSUME CapInv, UNCHANGED <<sessions, restoring, crashes>>,
           PendingStarts' \subseteq PendingStarts
    PROVE  CapInv'
<1>1. /\ IsFiniteSet(PendingStarts) /\ Cardinality(PendingStarts) \in Nat
      /\ Cardinality(Caller) \in Nat
  BY PendingFinite
<1>2. /\ IsFiniteSet(PendingStarts') /\ Cardinality(PendingStarts') \in Nat
      /\ Cardinality(PendingStarts') <= Cardinality(PendingStarts)
  BY <1>1, FS_Subset, FS_CardinalityType
<1>3. Cardinality(sessions) \in Nat
  BY FS_CardinalityType DEF CapInv
<1>4. QED BY <1>1, <1>2, <1>3, WarRoomAssumption DEF CapInv, CapacityInv

LEMMA StartEvictCap ==
    ASSUME TypeOK, TypeOK', CapInv, NEW c \in Caller, StartEvict(c)
    PROVE  CapInv'
<1>1. /\ c \notin PendingStarts /\ PendingStarts' = PendingStarts \cup {c}
      /\ UNCHANGED <<restoring, crashes>>
  BY DEF StartEvict, PendingStarts, Begin, At, Goto, Enter, TypeOK, Frames, RawFrames, disk
<1>2. /\ Cardinality(PendingStarts') = Cardinality(PendingStarts) + 1
      /\ Cardinality(PendingStarts) \in Nat /\ Cardinality(Caller) \in Nat
      /\ Cardinality(PendingStarts) + 1 <= Cardinality(Caller)
  <2>1. PendingStarts' \subseteq Caller
    BY DEF PendingStarts
  <2>2. /\ Cardinality(PendingStarts') = Cardinality(PendingStarts) + 1
        /\ Cardinality(PendingStarts) \in Nat
    BY <1>1, PendingFinite, FS_AddElement
  <2>3. Cardinality(PendingStarts') <= Cardinality(Caller)
    BY <2>1, WarRoomAssumption, FS_Subset
  <2>4. QED BY <2>2, <2>3, PendingFinite
<1>3. Cardinality(sessions) \in Nat /\ MaxSessions \in Nat
  BY FS_CardinalityType, WarRoomAssumption DEF CapInv
<1>4. CASE MaxSessions > 0 /\ Cardinality(sessions) >= MaxSessions
  <2>1. PICK oldest \in sessions : sessions' = sessions \ {oldest}
    BY <1>4 DEF StartEvict
  <2>2. IsFiniteSet(sessions') /\ Cardinality(sessions') = Cardinality(sessions) - 1
    BY <2>1, FS_RemoveElement DEF CapInv
  <2>3. QED BY <1>1, <1>2, <1>3, <2>2 DEF CapInv, CapacityInv
<1>5. CASE ~(MaxSessions > 0 /\ Cardinality(sessions) >= MaxSessions)
  <2>1. UNCHANGED sessions
    BY <1>5 DEF StartEvict
  <2>2. QED BY <1>1, <1>2, <1>3, <1>5, <2>1 DEF CapInv, CapacityInv
<1>6. QED BY <1>4, <1>5

LEMMA StartPublishCap ==
    ASSUME TypeOK, TypeOK', CapInv, NEW c \in Caller, StartPublish(c)
    PROVE  CapInv'
<1>1. /\ c \in PendingStarts /\ PendingStarts' = PendingStarts \ {c}
      /\ sessions' = sessions \cup {call[c].s} /\ UNCHANGED <<restoring, crashes>>
  BY DEF StartPublish, PendingStarts, At, Goto, Enter, TypeOK, Frames, RawFrames, disk, history
<1>2. /\ Cardinality(PendingStarts') = Cardinality(PendingStarts) - 1
      /\ Cardinality(PendingStarts) \in Nat /\ Cardinality(Caller) \in Nat
  BY <1>1, PendingFinite, FS_RemoveElement
<1>3. /\ IsFiniteSet(sessions') /\ Cardinality(sessions') <= Cardinality(sessions) + 1
      /\ Cardinality(sessions) \in Nat /\ Cardinality(sessions') \in Nat
      /\ MaxSessions \in Nat
  <2>1. IsFiniteSet(sessions) /\ MaxSessions \in Nat /\ Cardinality(sessions) \in Nat
    BY FS_CardinalityType, WarRoomAssumption DEF CapInv
  <2>2. /\ IsFiniteSet(sessions')
        /\ \/ Cardinality(sessions') = Cardinality(sessions)
           \/ Cardinality(sessions') = Cardinality(sessions) + 1
    BY <1>1, <2>1, FS_AddElement
  <2>3. QED BY <2>1, <2>2
<1>4. QED BY <1>1, <1>2, <1>3 DEF CapInv, CapacityInv

LEMMA RestoreSessionCap ==
    ASSUME TypeOK, CapInv, NEW s \in Session, RestoreSession(s)
    PROVE  CapInv'
<1>1. IsFiniteSet(sessions')
  BY FS_AddElement DEF CapInv, RestoreSession
<1>2. crashes # 0 /\ UNCHANGED crashes
  BY DEF CapInv, CapacityInv, RestoreSession, history
<1>3. QED BY <1>1, <1>2 DEF CapInv, CapacityInv

LEMMA CrashCap ==
    ASSUME TypeOK, CapInv, Crash
    PROVE  CapInv'
<1>1. IsFiniteSet(sessions')
  BY FS_EmptySet DEF Crash
<1>2. crashes' # 0
  BY DEF Crash, TypeOK, EnvType
<1>3. QED BY <1>1, <1>2 DEF CapInv, CapacityInv

LEMMA CallerCap ==
    ASSUME TypeOK, CapInv, NEW c \in Caller,
           \/ StartBuild(c) \/ StartSave(c) \/ StartCommit(c) \/ StartSpawn(c)
           \/ AssignTask(c) \/ Broadcast(c) \/ SubmitFinding(c) \/ CloseSession(c)
           \/ Shutdown(c)
    PROVE  CapInv'
<1> USE DEF At, Begin, Goto, Return, Enter, Frame, IdleCall
<1>1. call \in [Caller -> Frames] /\ call[c] \in RawFrames
  BY DEF TypeOK, Frames
<1>2. UNCHANGED <<sessions, restoring, crashes>>
  <2>1. CASE AssignTask(c) \/ Broadcast(c)
    BY <2>1 DEF AssignTask, AssignLookup, AssignSend, AssignCancelled, Broadcast,
       BroadcastLookup, BroadcastSend, coord, disk, history
  <2>2. CASE SubmitFinding(c)
    BY <2>2 DEF SubmitFinding, SubmitRecord, SubmitLookup, SubmitSend, coord, disk, history
  <2>3. CASE CloseSession(c) \/ Shutdown(c)
    BY <2>3 DEF CloseSession, Shutdown, ShutdownList, ShutdownClose, Close, coord, disk, history
  <2>4. CASE StartBuild(c) \/ StartSave(c) \/ StartCommit(c) \/ StartSpawn(c)
    BY <2>4 DEF StartBuild, StartSave, StartCommit, StartSpawn, coord, disk, history
  <2>5. QED BY <2>1, <2>2, <2>3, <2>4
<1>3. /\ \A d \in Caller \ {c} : call'[d] = call[d]
      /\ call'[c].pc \in {"evicted", "built"} => call[c].pc \in {"evicted", "built"}
  <2>1. CASE AssignTask(c)
    BY <1>1, <2>1 DEF AssignTask, AssignLookup, AssignSend, AssignCancelled, PanicCall
  <2>2. CASE Broadcast(c)
    <3>1. CASE BroadcastLookup(c)
      BY <1>1, <3>1 DEF BroadcastLookup
    <3>2. CASE BroadcastSend(c)
      <4>1. \/ UNCHANGED call \/ Return(c)
            \/ \E a : Enter(c, [call[c] EXCEPT !.todo = @ \ {a}])
        BY <3>2 DEF BroadcastSend, PanicCall
      <4>2. QED BY <1>1, <4>1 DEF RawFrames
    <3>3. QED BY <2>2, <3>1, <3>2 DEF Broadcast
  <2>3. CASE SubmitFinding(c)
    BY <1>1, <2>3 DEF SubmitFinding, SubmitRecord, SubmitLookup, SubmitSend, PanicCall, RawFrames
  <2>4. CASE CloseSession(c)
    BY <2>4 DEF CloseSession
  <2>5. CASE Shutdown(c)
    <3>1. CASE ShutdownList(c)
      BY <1>1, <3>1 DEF ShutdownList
    <3>2. CASE ShutdownClose(c)
      <4>1. \/ Return(c)
            \/ \E s : Enter(c, [call[c] EXCEPT !.todo = @ \ {s}])
        BY <3>2 DEF ShutdownClose
      <4>2. QED BY <1>1, <4>1 DEF RawFrames
    <3>3. QED BY <2>5, <3>1, <3>2 DEF Shutdown
  <2>6. CASE StartBuild(c) \/ StartSave(c) \/ StartCommit(c) \/ StartSpawn(c)
    <3>1. CASE StartBuild(c)
      BY <1>1, <3>1 DEF StartBuild
    <3>2. CASE StartSave(c)
      BY <1>1, <3>2 DEF StartSave, RawFrames
    <3>3. CASE StartCommit(c)
      BY <1>1, <3>3 DEF StartCommit, RawFrames
    <3>4. CASE StartSpawn(c)
      BY <1>1, <3>4 DEF StartSpawn
    <3>5. QED BY <2>6, <3>1, <3>2, <3>3, <3>4
  <2>7. QED BY <2>1, <2>2, <2>3, <2>4, <2>5, <2>6
<1>4. PendingStarts' \subseteq PendingStarts
  BY <1>3 DEF PendingStarts
<1>5. QED BY <1>2, <1>4, CalmStep

LEMMA GoroutineCap ==
    ASSUME TypeOK, CapInv, NEW s \in Session,
           ParentDone(s) \/ processFindings(s) \/ \E a \in Agent : runAgent(s, a)
    PROVE  CapInv'
<1>1. UNCHANGED <<sessions, restoring, crashes, call>>
  BY DEF ParentDone, processFindings, PfBegin, PfQuit, PfRecv, PfSend, runAgent, AgentBegin,
     AgentFetch, AgentQuit, AgentRecv, AgentClosed, AgentReport, AgentSend, coord, disk, history
<1>2. QED BY <1>1, CalmStep DEF PendingStarts

LEMMA CapStep ==
    ASSUME TypeOK, TypeOK', CapInv, [Next]_vars
    PROVE  CapInv'
<1>1. CASE \E c \in Caller : \/ StartWarRoom(c) \/ AssignTask(c) \/ Broadcast(c)
                          \/ SubmitFinding(c) \/ CloseSession(c) \/ Shutdown(c)
  BY <1>1, StartEvictCap, StartPublishCap, CallerCap DEF StartWarRoom
<1>2. CASE \E s \in Session : \/ ParentDone(s) \/ processFindings(s) \/ RestoreSession(s)
                           \/ \E a \in Agent : runAgent(s, a)
  BY <1>2, GoroutineCap, RestoreSessionCap
<1>3. CASE Crash
  BY <1>3, CrashCap
<1>4. CASE UNCHANGED vars
  BY <1>4, CalmStep DEF vars, coord, disk, history, PendingStarts
<1>5. QED BY <1>1, <1>2, <1>3, <1>4 DEF Next

\* Before any restart, concurrent calls of StartWarRoom overshoot maxSessions
\* by fewer sessions than there are callers.
THEOREM OvershootBounded == Spec => []CapacityBound
<1>1. Init => CapInv
  <2>1. ASSUME Init PROVE sessions = {} /\ restoring = {} /\ PendingStarts = {}
    BY <2>1 DEF Init, PendingStarts, IdleCall, Frame
  <2>2. Caller # {} /\ IsFiniteSet(Caller) /\ MaxSessions \in Nat
    BY WarRoomAssumption
  <2>3. Cardinality(Caller) \in Nat /\ Cardinality(Caller) >= 1
    <3>1. Cardinality(Caller) \in Nat
      BY <2>2, FS_CardinalityType
    <3>2. Cardinality(Caller) # 0
      BY <2>2, FS_EmptySet
    <3>3. QED BY <3>1, <3>2
  <2>4. ASSUME Init
        PROVE  /\ IsFiniteSet(sessions) /\ restoring = {}
               /\ Cardinality(sessions) = 0 /\ Cardinality(PendingStarts) = 0
    BY <2>1, <2>4, FS_EmptySet
  <2>5. QED BY <2>2, <2>3, <2>4 DEF CapInv, CapacityInv
<1>2. TypeOK /\ TypeOK' /\ CapInv /\ [Next]_vars => CapInv'
  BY CapStep
<1>3. CapInv => CapacityBound
  <2>1. SUFFICES ASSUME CapInv, crashes = 0, MaxSessions > 0
                 PROVE  Cardinality(sessions) <= MaxSessions + Cardinality(Caller) - 1
    BY DEF CapacityBound
  <2>2. /\ Cardinality(sessions) \in Nat /\ Cardinality(PendingStarts) \in Nat
        /\ Cardinality(Caller) \in Nat /\ MaxSessions \in Nat
    BY <2>1, PendingFinite, FS_CardinalityType, WarRoomAssumption DEF CapInv
  <2>3. QED BY <2>1, <2>2 DEF CapInv, CapacityInv
<1>4. QED BY <1>1, <1>2, <1>3, TypeCorrect, PTL DEF Spec

=============================================================================
