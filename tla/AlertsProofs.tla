------------------------------ MODULE AlertsProofs ------------------------------
(* For any events, services, limits and number of callbacks at a time: the    *)
(* limit of rooms is exceeded by less than the callbacks on their way, and a  *)
(* storm starts at most one room per callback before the cooldown; no event   *)
(* is counted twice.                                                          *)
EXTENDS Alerts, FiniteSetTheorems, TLAPS

Starting(s) == {k \in Callback : pc[k] = "start" /\ Of(k) = s}
Recording(s) == {k \in Callback : pc[k] = "record" /\ Of(k) = s}

\* Before a service is hot, every room started for it belongs to a callback
\* that has yet to record it; while it is hot, no callback passes the cooldown
\* any more, so that only those that passed it can add to the rooms started.
StormOf(s) ==
    IF last[s] = "hot"
    THEN started[s] + Cardinality(Starting(s)) <= Cardinality(Callback)
    ELSE started[s] <= Cardinality(Recording(s))

Storm == \A s \in Service : StormOf(s)

AlertsInv == TypeOK /\ StartBound /\ Storm

-----------------------------------------------------------------------------
LEMMA CallbackSets ==
    ASSUME NEW S \in SUBSET Callback
    PROVE  /\ IsFiniteSet(S) /\ Cardinality(S) \in Nat
           /\ Cardinality(S) <= Cardinality(Callback)
           /\ Cardinality(Callback) \in Nat
BY AlertsAssumption, FS_Subset, FS_CardinalityType

LEMMA EventSets ==
    ASSUME NEW S \in SUBSET Event
    PROVE  IsFiniteSet(S) /\ Cardinality(S) \in Nat
BY AlertsAssumption, FS_Subset, FS_CardinalityType

\* Steps that start no room and let no callback pass the check of MaxConcurrent.
LEMMA BoundKept ==
    ASSUME TypeOK, TypeOK', StartBound, auto' <= auto, Passed' \subseteq Passed
    PROVE  StartBound'
<1>1. Passed \in SUBSET Callback /\ Passed' \in SUBSET Callback
  BY DEF Passed
<1>2. /\ Cardinality(Passed') \in Nat /\ Cardinality(Passed) \in Nat
      /\ Cardinality(Callback) \in Nat
      /\ Cardinality(Passed') <= Cardinality(Passed)
  BY <1>1, CallbackSets, FS_Subset
<1>3. auto \in Nat /\ auto' \in Nat /\ MaxLimit \in Nat
  BY AlertsAssumption DEF TypeOK
<1>4. QED BY <1>2, <1>3 DEF StartBound

\* Steps that start no room for a service.
LEMMA StormKept ==
    ASSUME TypeOK, NEW s \in Service, StormOf(s), started'[s] = started[s],
           \/ last[s] # "hot" /\ last'[s] # "hot" /\ Recording(s) \subseteq Recording(s)'
           \/ last'[s] = "hot" /\ Starting(s)' \subseteq Starting(s)
    PROVE  StormOf(s)'
<1>1. /\ Starting(s) \in SUBSET Callback /\ Recording(s) \in SUBSET Callback
      /\ Starting(s)' \in SUBSET Callback /\ Recording(s)' \in SUBSET Callback
  BY DEF Starting, Recording
<1>2. /\ Cardinality(Starting(s)) \in Nat /\ Cardinality(Recording(s)) \in Nat
      /\ Cardinality(Starting(s)') \in Nat /\ Cardinality(Recording(s)') \in Nat
      /\ Cardinality(Callback) \in Nat
      /\ IsFiniteSet(Starting(s)) /\ IsFiniteSet(Recording(s)) /\ IsFiniteSet(Recording(s)')
  BY <1>1, CallbackSets
<1>3. started[s] \in Nat
  BY DEF TypeOK
<1>4. CASE last[s] # "hot" /\ last'[s] # "hot" /\ Recording(s) \subseteq Recording(s)'
  <2>1. Cardinality(Recording(s)) <= Cardinality(Recording(s)')
    BY <1>2, <1>4, FS_Subset
  <2>2. QED BY <1>2, <1>3, <1>4, <2>1 DEF StormOf
<1>5. CASE last'[s] = "hot" /\ Starting(s)' \subseteq Starting(s)
  <2>1. Cardinality(Starting(s)') <= Cardinality(Starting(s))
    BY <1>2, <1>5, FS_Subset
  <2>2. started[s] + Cardinality(Starting(s)) <= Cardinality(Callback)
    <3>1. CASE last[s] = "hot"
      BY <3>1 DEF StormOf
    <3>2. CASE last[s] # "hot"
      <4>1. Starting(s) \cap Recording(s) = {}
        BY DEF Starting, Recording
      <4>2. Cardinality(Starting(s) \cup Recording(s))
              = Cardinality(Starting(s)) + Cardinality(Recording(s)) - Cardinality({})
        BY <1>2, <4>1, FS_Union
      <4>3. Cardinality(Starting(s) \cup Recording(s)) <= Cardinality(Callback)
        BY <1>1, CallbackSets
      <4>4. started[s] <= Cardinality(Recording(s))
        BY <3>2 DEF StormOf
      <4>5. QED BY <1>2, <1>3, <4>2, <4>3, <4>4, FS_EmptySet
    <3>3. QED BY <3>1, <3>2
  <2>3. QED BY <1>2, <1>3, <1>5, <2>1, <2>2 DEF StormOf
<1>6. QED BY <1>4, <1>5

\* Steps that leave the callbacks past their checks, the rooms of the trigger
\* and its records alone.
LEMMA CalmStep ==
    ASSUME AlertsInv, TypeOK', auto' <= auto, UNCHANGED <<last, started>>,
           \A k \in Callback : \/ pc'[k] = pc[k] /\ about'[k] = about[k]
                               \/ /\ pc[k] \in {"idle", "begin", "check"}
                                  /\ pc'[k] \in {"idle", "begin", "check"}
    PROVE  AlertsInv'
<1> USE DEF AlertsInv
<1>1. Passed' \subseteq Passed
  BY DEF Passed
<1>2. ASSUME NEW s \in Service
      PROVE  Starting(s)' \subseteq Starting(s) /\ Recording(s) \subseteq Recording(s)'
  BY DEF Starting, Recording, Of
<1>3. \A s \in Service : StormOf(s)'
  BY <1>2, StormKept DEF Storm
<1>4. QED BY <1>1, <1>3, BoundKept DEF Storm

-----------------------------------------------------------------------------
(* One lemma per operation.                                                  *)

LEMMA IngestStep ==
    ASSUME TypeOK, NEW a \in Alert, Ingest(a)
    PROVE  /\ count' \in [Alert -> Nat]
           /\ \E k \in Callback :
                 /\ pc[k] = "idle"
                 /\ pc' = [pc EXCEPT ![k] = "begin"] /\ about' = [about EXCEPT ![k] = a]
<1>1. PICK stale \in SUBSET Alert :
        count' = [b \in Alert |-> IF b \in stale THEN 0
                                  ELSE IF b = a THEN count[b] + 1 ELSE count[b]]
  BY DEF Ingest
<1>2. count' \in [Alert -> Nat]
  BY <1>1 DEF TypeOK
<1>3. QED BY <1>2 DEF Ingest

LEMMA ToolIngestStep ==
    ASSUME AlertsInv, NEW a \in Alert, ToolIngest(a)
    PROVE  AlertsInv'
<1>1. /\ tools < MaxTools /\ tools' = tools + 1 /\ Ingest(a)
      /\ UNCHANGED <<pollVars, config, last, roomVars, started>>
  BY DEF ToolIngest
<1>2. /\ count' \in [Alert -> Nat]
      /\ \E k \in Callback :
            /\ pc[k] = "idle"
            /\ pc' = [pc EXCEPT ![k] = "begin"] /\ about' = [about EXCEPT ![k] = a]
  BY <1>1, IngestStep DEF AlertsInv
<1>3. MaxTools \in Nat
  BY AlertsAssumption
<1>4. TypeOK'
  BY <1>1, <1>2, <1>3 DEF AlertsInv, TypeOK, pollVars, roomVars
<1>5. auto' <= auto
  BY <1>1 DEF AlertsInv, TypeOK, roomVars
<1>6. QED BY <1>1, <1>2, <1>4, <1>5, CalmStep DEF AlertsInv, TypeOK

LEMMA PollStep ==
    ASSUME AlertsInv, PollBegin \/ PollEnd \/ PollerStops \/ \E e \in Event : PollEvent(e)
    PROVE  AlertsInv'
<1> USE DEF AlertsInv
<1>1. CASE PollBegin
  <2>1. PICK events \in SUBSET Event :
          /\ listed' = events /\ todo' = events
          /\ appeared' = [a \in Alert |->
                appeared[a] + Cardinality({e \in events \ listed : AlertOf[e] = a})]
    BY <1>1 DEF PollBegin
  <2>2. /\ polls' \in 0..MaxPolls /\ poller' = "polling"
        /\ UNCHANGED <<seen, tools, count, pc, about, config, last, auto, others, started>>
    BY <1>1, AlertsAssumption DEF PollBegin, TypeOK, indexVars, roomVars
  <2>3. appeared' \in [Alert -> Nat]
    <3>1. ASSUME NEW a \in Alert
          PROVE  appeared[a] + Cardinality({e \in events \ listed : AlertOf[e] = a}) \in Nat
      <4>1. {e \in events \ listed : AlertOf[e] = a} \in SUBSET Event
        OBVIOUS
      <4>2. QED BY <4>1, EventSets DEF TypeOK
    <3>2. QED BY <2>1, <3>1
  <2>4. TypeOK'
    BY <2>1, <2>2, <2>3 DEF TypeOK
  <2>5. auto' <= auto
    BY <2>2 DEF TypeOK
  <2>6. QED BY <2>2, <2>4, <2>5, CalmStep
<1>2. CASE PollEnd \/ PollerStops
  <2>1. /\ UNCHANGED <<listed, todo, polls, appeared, tools, count, pc, about, config, last, auto, others, started>>
        /\ poller' \in {"idle", "stopped"} /\ seen' \in {seen, listed}
    BY <1>2 DEF PollEnd, PollerStops, indexVars, roomVars
  <2>2. TypeOK'
    BY <2>1 DEF TypeOK
  <2>3. auto' <= auto
    BY <2>1 DEF TypeOK
  <2>4. QED BY <2>1, <2>2, <2>3, CalmStep
<1>3. CASE \E e \in Event : PollEvent(e)
  <2>1. PICK e \in Event : PollEvent(e)
    BY <1>3
  <2>2. /\ todo' = todo \ {e} /\ seen' = seen \cup {e}
        /\ UNCHANGED <<poller, listed, polls, appeared, tools, config, last, auto, others, started>>
    BY <2>1 DEF PollEvent, roomVars
  <2>3. \/ UNCHANGED <<count, pc, about>>
        \/ /\ count' \in [Alert -> Nat]
           /\ \E k \in Callback :
                 /\ pc[k] = "idle"
                 /\ pc' = [pc EXCEPT ![k] = "begin"] /\ about' = [about EXCEPT ![k] = AlertOf[e]]
    <3>1. AlertOf[e] \in Alert
      BY AlertsAssumption
    <3>2. UNCHANGED <<count, pc, about>> \/ Ingest(AlertOf[e])
      BY <2>1 DEF PollEvent
    <3>3. QED BY <3>1, <3>2, IngestStep
  <2>4. AlertOf[e] \in Alert
    BY AlertsAssumption
  <2>5. TypeOK'
    BY <2>2, <2>3, <2>4 DEF TypeOK
  <2>6. auto' <= auto
    BY <2>2 DEF TypeOK
  <2>7. \A k \in Callback : \/ pc'[k] = pc[k] /\ about'[k] = about[k]
                            \/ /\ pc[k] \in {"idle", "begin", "check"}
                               /\ pc'[k] \in {"idle", "begin", "check"}
    BY <2>3 DEF TypeOK
  <2>8. QED BY <2>2, <2>5, <2>6, <2>7, CalmStep
<1>4. QED BY <1>1, <1>2, <1>3

\* Pruning, the rooms of others, and the ends of rooms.
LEMMA OtherStep ==
    ASSUME AlertsInv, Prune \/ RoomEnds \/ OtherRoom
    PROVE  AlertsInv'
<1> USE DEF AlertsInv
<1>1. /\ UNCHANGED <<poller, listed, todo, seen, polls, appeared, tools, pc, about, config, last, started>>
      /\ count' \in [Alert -> Nat] /\ auto' \in Nat /\ auto' <= auto /\ others' \in 0..MaxOthers
  BY AlertsAssumption DEF Prune, RoomEnds, OtherRoom, TypeOK, pollVars, indexVars, roomVars
<1>2. TypeOK'
  BY <1>1 DEF TypeOK
<1>3. QED BY <1>1, <1>2, CalmStep

LEMMA CallbackBeginStep ==
    ASSUME AlertsInv, NEW k \in Callback, CallbackBegin(k)
    PROVE  AlertsInv'
<1> USE DEF AlertsInv, CallbackBegin, Goto, pollVars, indexVars, roomVars
<1>1. TypeOK'
  BY DEF TypeOK
<1>2. auto' <= auto
  BY DEF TypeOK
<1>3. QED BY <1>1, <1>2, CalmStep DEF TypeOK

\* Whoever passes has seen fewer rooms than the largest limit.
LEMMA CheckConcurrentStep ==
    ASSUME AlertsInv, NEW k \in Callback, CheckConcurrent(k)
    PROVE  AlertsInv'
<1> USE DEF AlertsInv
<1>1. /\ pc[k] = "check"
      /\ pc' = [pc EXCEPT ![k] = "cooldown"] \/ pc' = [pc EXCEPT ![k] = "idle"]
      /\ UNCHANGED <<poller, listed, todo, seen, polls, appeared, tools, count, about, config,
                     last, auto, others, started>>
  BY DEF CheckConcurrent, Goto, pollVars, indexVars, roomVars
<1>2. TypeOK'
  BY <1>1 DEF TypeOK
<1>3. CASE pc' = [pc EXCEPT ![k] = "idle"]
  BY <1>1, <1>2, <1>3, CalmStep DEF TypeOK
<1>4. CASE pc' = [pc EXCEPT ![k] = "cooldown"]
  <2>1. auto + others < config.max
    BY <1>4 DEF CheckConcurrent, Goto, TypeOK
  <2>2. config.max \in Nat /\ config.max <= MaxLimit /\ MaxLimit \in Nat
    BY AlertsAssumption DEF TypeOK
  <2>3. Cardinality(Passed') \in Nat /\ Cardinality(Passed') <= Cardinality(Callback)
        /\ Cardinality(Callback) \in Nat
    <3>1. Passed' \in SUBSET Callback
      BY DEF Passed
    <3>2. QED BY <3>1, CallbackSets
  <2>4. auto \in Nat /\ others \in Nat /\ auto' = auto
    BY <1>1, AlertsAssumption DEF TypeOK
  <2>5. StartBound'
    BY <2>1, <2>2, <2>3, <2>4 DEF StartBound
  <2>6. \A s \in Service : Starting(s)' = Starting(s) /\ Recording(s)' = Recording(s)
    BY <1>1, <1>4 DEF Starting, Recording, Of, TypeOK
  <2>7. \A s \in Service : StormOf(s)'
    BY <1>1, <2>6, StormKept DEF Storm
  <2>8. QED BY <1>2, <2>5, <2>7 DEF Storm
<1>5. QED BY <1>1, <1>3, <1>4

LEMMA CheckCooldownStep ==
    ASSUME AlertsInv, NEW k \in Callback, CheckCooldown(k)
    PROVE  AlertsInv'
<1> USE DEF AlertsInv
<1>1. /\ pc[k] = "cooldown"
      /\ pc' = [pc EXCEPT ![k] = IF last[Of(k)] = "hot" THEN "idle" ELSE "start"]
      /\ UNCHANGED <<poller, listed, todo, seen, polls, appeared, tools, count, about, config,
                     last, auto, others, started>>
  BY DEF CheckCooldown, Goto, pollVars, indexVars, roomVars
<1>2. TypeOK'
  BY <1>1 DEF TypeOK
<1>3. StartBound'
  <2>1. Passed' \subseteq Passed
    BY <1>1 DEF Passed, TypeOK
  <2>2. auto' <= auto
    BY <1>1 DEF TypeOK
  <2>3. QED BY <1>2, <2>1, <2>2, BoundKept
<1>4. ASSUME NEW s \in Service
      PROVE  /\ Recording(s)' = Recording(s)
             /\ last[s] = "hot" => Starting(s)' = Starting(s)
  BY <1>1 DEF Starting, Recording, Of, TypeOK
<1>5. \A s \in Service : StormOf(s)'
  BY <1>1, <1>4, StormKept DEF Storm
<1>6. QED BY <1>2, <1>3, <1>5 DEF Storm

\* A room more, and a callback less that has passed the check.
LEMMA StartRoomStep ==
    ASSUME AlertsInv, NEW k \in Callback, StartRoom(k)
    PROVE  AlertsInv'
<1> USE DEF AlertsInv
<1>1. /\ pc[k] = "start"
      /\ UNCHANGED <<poller, listed, todo, seen, polls, appeared, tools, count, about, config, last, others>>
  BY DEF StartRoom, Goto, pollVars, indexVars
<1>2. Passed \in SUBSET Callback /\ k \in Passed
  BY <1>1 DEF Passed
<1>3. CASE pc' = [pc EXCEPT ![k] = "idle"] /\ UNCHANGED <<auto, started>>
  <2>1. TypeOK'
    BY <1>1, <1>3 DEF TypeOK
  <2>2. Passed' \subseteq Passed
    BY <1>3 DEF Passed, TypeOK
  <2>3. auto' <= auto
    BY <1>3 DEF TypeOK
  <2>4. \A s \in Service : Starting(s)' \subseteq Starting(s) /\ Recording(s)' = Recording(s)
    BY <1>1, <1>3 DEF Starting, Recording, Of, TypeOK
  <2>5. \A s \in Service : StormOf(s)'
    BY <1>1, <1>3, <2>4, StormKept DEF Storm
  <2>6. QED BY <2>1, <2>2, <2>3, <2>5, BoundKept DEF Storm
<1>4. CASE /\ pc' = [pc EXCEPT ![k] = "record"] /\ auto' = auto + 1
           /\ started' = [started EXCEPT ![Of(k)] = @ + 1]
  <2>1. Of(k) \in Service
    BY AlertsAssumption DEF Of, TypeOK
  <2>2. TypeOK'
    BY <1>1, <1>4, <2>1 DEF TypeOK
  <2>3. StartBound'
    <3>1. Passed' = Passed \ {k}
      BY <1>4 DEF Passed, TypeOK
    <3>2. /\ Cardinality(Passed') = Cardinality(Passed) - 1
          /\ Cardinality(Passed) \in Nat /\ Cardinality(Callback) \in Nat
      BY <1>2, <3>1, CallbackSets, FS_RemoveElement
    <3>3. auto \in Nat /\ MaxLimit \in Nat
      BY AlertsAssumption DEF TypeOK
    <3>4. QED BY <1>4, <3>2, <3>3 DEF StartBound
  <2>4. ASSUME NEW s \in Service PROVE StormOf(s)'
    <3>1. /\ Starting(s) \in SUBSET Callback /\ Recording(s) \in SUBSET Callback
          /\ Starting(s)' = Starting(s) \ {k}
          /\ Recording(s)' = Recording(s) \cup (IF Of(k) = s THEN {k} ELSE {})
          /\ k \notin Recording(s) /\ (Of(k) = s => k \in Starting(s))
      BY <1>1, <1>4 DEF Starting, Recording, Of, TypeOK
    <3>2. CASE Of(k) # s
      <4>1. started'[s] = started[s]
        BY <1>4, <3>2 DEF TypeOK
      <4>2. QED BY <1>1, <3>1, <3>2, <4>1, StormKept DEF Storm
    <3>3. CASE Of(k) = s
      <4>1. started'[s] = started[s] + 1 /\ started[s] \in Nat /\ last'[s] = last[s]
        BY <1>1, <1>4, <3>3 DEF TypeOK
      <4>2. /\ IsFiniteSet(Starting(s)) /\ IsFiniteSet(Recording(s))
            /\ Cardinality(Starting(s)) \in Nat /\ Cardinality(Recording(s)) \in Nat
            /\ Cardinality(Callback) \in Nat
        BY <3>1, CallbackSets
      <4>3. Cardinality(Starting(s)') = Cardinality(Starting(s)) - 1
        <5>1. k \in Starting(s) /\ Starting(s)' = Starting(s) \ {k}
          BY <3>1, <3>3
        <5>2. QED BY <4>2, <5>1, FS_RemoveElement
      <4>4. Cardinality(Recording(s)') = Cardinality(Recording(s)) + 1
        <5>1. k \notin Recording(s) /\ Recording(s)' = Recording(s) \cup {k}
          BY <3>1, <3>3
        <5>2. QED BY <4>2, <5>1, FS_AddElement
      <4>5. StormOf(s)
        BY DEF Storm
      <4>6. QED BY <4>1, <4>2, <4>3, <4>4, <4>5 DEF StormOf
    <3>4. QED BY <3>2, <3>3
  <2>5. QED BY <2>2, <2>3, <2>4 DEF Storm
<1>5. QED BY <1>3, <1>4 DEF StartRoom, Goto

LEMMA RecordStep ==
    ASSUME AlertsInv, NEW k \in Callback, Record(k)
    PROVE  AlertsInv'
<1> USE DEF AlertsInv
<1>1. /\ pc[k] = "record" /\ pc' = [pc EXCEPT ![k] = "idle"]
      /\ last' = [last EXCEPT ![Of(k)] = "hot"]
      /\ UNCHANGED <<poller, listed, todo, seen, polls, appeared, tools, count, about, config,
                     auto, others, started>>
  BY DEF Record, Goto, pollVars, indexVars, roomVars
<1>2. TypeOK'
  BY <1>1 DEF TypeOK
<1>3. StartBound'
  <2>1. Passed' \subseteq Passed
    BY <1>1 DEF Passed, TypeOK
  <2>2. auto' <= auto
    BY <1>1 DEF TypeOK
  <2>3. QED BY <1>2, <2>1, <2>2, BoundKept
<1>4. ASSUME NEW s \in Service PROVE StormOf(s)'
  <2>1. Starting(s)' = Starting(s)
    BY <1>1 DEF Starting, Of, TypeOK
  <2>2. CASE Of(k) = s
    <3>1. last'[s] = "hot"
      BY <1>1, <2>2 DEF TypeOK
    <3>2. QED BY <1>1, <2>1, <3>1, StormKept DEF Storm
  <2>3. CASE Of(k) # s
    <3>1. last'[s] = last[s] /\ Recording(s)' = Recording(s)
      BY <1>1, <2>3 DEF Recording, Of, TypeOK
    <3>2. QED BY <1>1, <2>1, <3>1, StormKept DEF Storm
  <2>4. QED BY <2>2, <2>3
<1>5. QED BY <1>2, <1>3, <1>4 DEF Storm

\* Time and a new configuration.
LEMMA CoolDownStep ==
    ASSUME AlertsInv, NEW s \in Service, CoolDown(s)
    PROVE  AlertsInv'
<1> USE DEF AlertsInv, CoolDown, pollVars, indexVars, roomVars
<1>1. TypeOK'
  BY DEF TypeOK
<1>2. StartBound'
  BY DEF StartBound, Passed
<1>3. ASSUME NEW t \in Service PROVE StormOf(t)'
  <2>1. Starting(t)' = Starting(t) /\ Recording(t)' = Recording(t)
    BY DEF Starting, Recording, Of
  <2>2. CASE t = s
    <3>1. started'[t] = 0 /\ last'[t] # "hot"
      BY <2>2 DEF TypeOK
    <3>2. Cardinality(Recording(t)') \in Nat
      <4>1. Recording(t)' \in SUBSET Callback
        BY DEF Recording
      <4>2. QED BY <4>1, CallbackSets
    <3>3. QED BY <3>1, <3>2 DEF StormOf
  <2>3. CASE t # s
    <3>1. started'[t] = started[t] /\ last'[t] = last[t]
      BY <2>3 DEF TypeOK
    <3>2. QED BY <2>1, <3>1, StormKept DEF Storm
  <2>4. QED BY <2>2, <2>3
<1>4. QED BY <1>1, <1>2, <1>3 DEF Storm

LEMMA UpdateConfigStep ==
    ASSUME AlertsInv, UpdateConfig
    PROVE  AlertsInv'
<1> USE DEF AlertsInv
<1>1. PICK hot \in SUBSET Service : last' = [s \in Service |-> IF s \in hot THEN "hot" ELSE last[s]]
  BY DEF UpdateConfig
<1>2. /\ config' \in Config
      /\ UNCHANGED <<poller, listed, todo, seen, polls, appeared, tools, count, pc, about, auto,
                     others, started>>
  BY DEF UpdateConfig, pollVars, indexVars, roomVars
<1>3. TypeOK'
  BY <1>1, <1>2 DEF TypeOK
<1>4. StartBound'
  BY <1>2 DEF StartBound, Passed
<1>5. ASSUME NEW s \in Service PROVE StormOf(s)'
  <2>1. Starting(s)' = Starting(s) /\ Recording(s)' = Recording(s)
    BY <1>2 DEF Starting, Recording, Of
  <2>2. last'[s] = "hot" \/ last'[s] = last[s]
    BY <1>1
  <2>3. QED BY <1>2, <2>1, <2>2, StormKept DEF Storm
<1>6. QED BY <1>3, <1>4, <1>5 DEF Storm

-----------------------------------------------------------------------------
\* Type correctness and the inductive strengthening of the two bounds.
THEOREM AlertsInvariant == Spec => []AlertsInv
<1>1. Init => AlertsInv
  <2>1. SUFFICES ASSUME Init PROVE AlertsInv
    OBVIOUS
  <2>2. TypeOK
    BY <2>1, AlertsAssumption DEF Init, TypeOK
  <2>3. Passed = {} /\ auto = 0
    BY <2>1 DEF Init, Passed
  <2>4. Cardinality(Callback) \in Nat /\ Cardinality(Callback) # 0
    BY AlertsAssumption, FS_CardinalityType, FS_EmptySet
  <2>5. StartBound
    BY <2>3, <2>4, AlertsAssumption, FS_EmptySet DEF StartBound
  <2>6. ASSUME NEW s \in Service PROVE StormOf(s)
    <3>1. started[s] = 0 /\ last[s] # "hot"
      BY <2>1 DEF Init
    <3>2. Recording(s) \in SUBSET Callback
      BY DEF Recording
    <3>3. QED BY <3>1, <3>2, CallbackSets DEF StormOf
  <2>7. QED BY <2>2, <2>5, <2>6 DEF AlertsInv, Storm
<1>2. AlertsInv /\ [Next]_vars => AlertsInv'
  <2>1. SUFFICES ASSUME AlertsInv, [Next]_vars PROVE AlertsInv'
    OBVIOUS
  <2>2. CASE UNCHANGED vars
    <3>1. TypeOK'
      BY <2>1, <2>2 DEF AlertsInv, TypeOK, vars, pollVars, indexVars, roomVars
    <3>2. auto' <= auto
      BY <2>1, <2>2 DEF AlertsInv, TypeOK, vars, roomVars
    <3>3. QED BY <2>1, <2>2, <3>1, <3>2, CalmStep DEF vars
  <2>3. CASE PollBegin \/ PollEnd \/ PollerStops \/ \E e \in Event : PollEvent(e)
    BY <2>1, <2>3, PollStep
  <2>4. CASE \E a \in Alert : ToolIngest(a)
    BY <2>1, <2>4, ToolIngestStep
  <2>5. CASE Prune \/ RoomEnds \/ OtherRoom
    BY <2>1, <2>5, OtherStep
  <2>6. CASE UpdateConfig
    BY <2>1, <2>6, UpdateConfigStep
  <2>7. CASE \E s \in Service : CoolDown(s)
    BY <2>1, <2>7, CoolDownStep
  <2>8. ASSUME NEW k \in Callback,
               CallbackBegin(k) \/ CheckConcurrent(k) \/ CheckCooldown(k) \/ StartRoom(k) \/ Record(k)
        PROVE  AlertsInv'
    BY <2>1, <2>8, CallbackBeginStep, CheckConcurrentStep, CheckCooldownStep, StartRoomStep, RecordStep
  <2>9. QED BY <2>1, <2>2, <2>3, <2>4, <2>5, <2>6, <2>7, <2>8 DEF Next
<1>3. QED BY <1>1, <1>2, PTL DEF Spec

\* Every reachable state has its type.
THEOREM TypeCorrect == Spec => []TypeOK
<1>1. AlertsInv => TypeOK
  BY DEF AlertsInv
<1>2. QED BY <1>1, AlertsInvariant, PTL

\* Callbacks that pass the check of MaxConcurrent together exceed it by less
\* than the number of callbacks at a time.
THEOREM StartsBounded == Spec => []StartBound
<1>1. AlertsInv => StartBound
  BY DEF AlertsInv
<1>2. QED BY <1>1, AlertsInvariant, PTL

\* A storm starts at most one room per callback for a service before its
\* cooldown has passed.
THEOREM StormsBounded == Spec => []StormBound
<1>1. AlertsInv => StormBound
  <2>1. SUFFICES ASSUME AlertsInv, NEW s \in Service
                 PROVE  started[s] <= Cardinality(Callback)
    BY DEF StormBound
  <2>2. started[s] \in Nat /\ StormOf(s)
    BY <2>1 DEF AlertsInv, TypeOK, Storm
  <2>3. Starting(s) \in SUBSET Callback /\ Recording(s) \in SUBSET Callback
    BY DEF Starting, Recording
  <2>4. QED BY <2>2, <2>3, CallbackSets DEF StormOf
<1>2. QED BY <1>1, AlertsInvariant, PTL

-----------------------------------------------------------------------------
(* Counting.  An event is counted when pollOnce comes to it; until then it is *)
(* in Pending, and by then it has newly appeared in the response, because all *)
(* that is still listed from the response before was seen and is remembered.  *)

Pending(a) == {e \in todo \ seen : AlertOf[e] = a}

CountInv ==
    /\ poller # "polling" => todo = {}
    /\ listed \ todo \subseteq seen
    /\ \A a \in Polled : count[a] + Cardinality(Pending(a)) <= appeared[a]

LEMMA PolledAlerts == Polled \subseteq Alert
BY AlertsAssumption DEF Polled

\* Steps of others count no polled alert.
LEMMA CountKept ==
    ASSUME TypeOK, TypeOK', CountInv, UNCHANGED <<poller, listed, todo, seen, appeared>>,
           \A a \in Polled : count'[a] <= count[a]
    PROVE  CountInv'
<1>1. ASSUME NEW a \in Polled
      PROVE  count'[a] + Cardinality(Pending(a)') <= appeared'[a]
  <2>1. Pending(a)' = Pending(a) /\ Pending(a) \in SUBSET Event
    BY DEF Pending, TypeOK
  <2>2. Cardinality(Pending(a)) \in Nat
    BY <2>1, EventSets
  <2>3. count[a] \in Nat /\ count'[a] \in Nat /\ appeared[a] \in Nat /\ appeared'[a] = appeared[a]
    BY PolledAlerts DEF TypeOK
  <2>4. count[a] + Cardinality(Pending(a)) <= appeared[a] /\ count'[a] <= count[a]
    BY DEF CountInv
  <2>5. QED BY <2>1, <2>2, <2>3, <2>4
<1>2. QED BY <1>1 DEF CountInv, Polled

LEMMA PollBeginCounts ==
    ASSUME TypeOK, TypeOK', CountInv, PollBegin
    PROVE  CountInv'
<1>1. PICK events \in SUBSET Event :
        /\ listed' = events /\ todo' = events
        /\ appeared' = [a \in Alert |->
              appeared[a] + Cardinality({e \in events \ listed : AlertOf[e] = a})]
  BY DEF PollBegin
<1>2. poller = "idle" /\ poller' = "polling" /\ UNCHANGED <<seen, count>>
  BY DEF PollBegin, indexVars
<1>3. todo = {} /\ listed \subseteq seen
  BY <1>2 DEF CountInv
<1>4. ASSUME NEW a \in Polled
      PROVE  count'[a] + Cardinality(Pending(a)') <= appeared'[a]
  <2> DEFINE new == {e \in events \ listed : AlertOf[e] = a}
  <2>1. new \in SUBSET Event /\ Pending(a)' \subseteq new
    BY <1>1, <1>2, <1>3 DEF Pending
  <2>2. /\ IsFiniteSet(new) /\ Cardinality(new) \in Nat
        /\ Cardinality(Pending(a)') \in Nat /\ Cardinality(Pending(a)') <= Cardinality(new)
    BY <2>1, EventSets, FS_Subset
  <2>3. Pending(a) = {} /\ Cardinality(Pending(a)) = 0
    BY <1>3, FS_EmptySet DEF Pending
  <2>4. a \in Alert /\ count[a] \in Nat /\ appeared[a] \in Nat /\ count[a] + 0 <= appeared[a]
    BY <2>3, PolledAlerts DEF TypeOK, CountInv
  <2>5. appeared'[a] = appeared[a] + Cardinality(new)
    BY <1>1, <2>4
  <2> HIDE DEF new
  <2>6. QED BY <1>2, <2>2, <2>4, <2>5
<1>5. QED BY <1>1, <1>2, <1>4 DEF CountInv, Polled

LEMMA PollEventCounts ==
    ASSUME TypeOK, TypeOK', CountInv, NEW e \in Event, PollEvent(e)
    PROVE  CountInv'
<1>1. /\ poller = "polling" /\ e \in todo /\ todo' = todo \ {e} /\ seen' = seen \cup {e}
      /\ UNCHANGED <<poller, listed, appeared>>
      /\ IF e \in seen THEN UNCHANGED count ELSE Ingest(AlertOf[e])
  BY DEF PollEvent
<1>2. ASSUME NEW a \in Polled
      PROVE  count'[a] + Cardinality(Pending(a)') <= appeared'[a]
  <2>1. /\ a \in Alert /\ count[a] \in Nat /\ count'[a] \in Nat /\ appeared[a] \in Nat
        /\ appeared'[a] = appeared[a] /\ count[a] + Cardinality(Pending(a)) <= appeared[a]
    BY <1>1, PolledAlerts DEF TypeOK, CountInv
  <2>2. /\ Pending(a) \in SUBSET Event /\ IsFiniteSet(Pending(a))
        /\ Cardinality(Pending(a)) \in Nat
    <3>1. Pending(a) \in SUBSET Event
      BY DEF Pending, TypeOK
    <3>2. QED BY <3>1, EventSets
  <2>3. CASE e \in seen
    <3>1. Pending(a)' = Pending(a) /\ count'[a] = count[a]
      BY <1>1, <2>3 DEF Pending
    <3>2. QED BY <2>1, <2>2, <3>1
  <2>4. CASE e \notin seen /\ AlertOf[e] = a
    <3>1. Pending(a)' = Pending(a) \ {e} /\ e \in Pending(a)
      BY <1>1, <2>4 DEF Pending
    <3>2. Cardinality(Pending(a)') = Cardinality(Pending(a)) - 1
      BY <2>2, <3>1, FS_RemoveElement
    <3>3. count'[a] = count[a] + 1 \/ count'[a] = 0
      BY <1>1, <2>1, <2>4 DEF Ingest
    <3>4. QED BY <2>1, <2>2, <3>1, <3>2, <3>3
  <2>5. CASE e \notin seen /\ AlertOf[e] # a
    <3>1. Pending(a)' = Pending(a)
      BY <1>1, <2>5 DEF Pending
    <3>2. count'[a] = count[a] \/ count'[a] = 0
      BY <1>1, <2>1, <2>5 DEF Ingest
    <3>3. QED BY <2>1, <2>2, <3>1, <3>2
  <2>6. QED BY <2>3, <2>4, <2>5
<1>3. QED BY <1>1, <1>2 DEF CountInv, Polled

LEMMA PollEndCounts ==
    ASSUME TypeOK, TypeOK', CountInv, PollEnd
    PROVE  CountInv'
<1>1. /\ poller' = "idle" /\ todo = {} /\ UNCHANGED <<listed, todo, count, appeared>>
      /\ seen' \in {seen, listed}
  BY DEF PollEnd, indexVars
<1>2. listed \subseteq seen'
  BY <1>1 DEF CountInv
<1>3. \A a \in Polled : Pending(a) = {} /\ Pending(a)' = {}
  BY <1>1 DEF Pending
<1>4. QED BY <1>1, <1>2, <1>3 DEF CountInv, Polled

\* An event that stays listed is not counted again, also when lastSeenIDs is
\* trimmed: no alert is counted more often than its events have appeared.
THEOREM NothingCountedTwice == Spec => []CountsOccurrences
<1>1. Init => CountInv
  <2>1. SUFFICES ASSUME Init PROVE CountInv
    OBVIOUS
  <2>2. todo = {} /\ listed = {}
    BY <2>1 DEF Init
  <2>3. ASSUME NEW a \in Polled
        PROVE  count[a] = 0 /\ appeared[a] = 0 /\ Cardinality(Pending(a)) = 0
    <3>1. Pending(a) = {}
      BY <2>2 DEF Pending
    <3>2. QED BY <2>1, <3>1, PolledAlerts, FS_EmptySet DEF Init
  <2>4. QED BY <2>2, <2>3 DEF CountInv
<1>2. AlertsInv /\ AlertsInv' /\ CountInv /\ [Next]_vars => CountInv'
  <2>1. SUFFICES ASSUME TypeOK, TypeOK', CountInv, [Next]_vars PROVE CountInv'
    BY DEF AlertsInv
  <2>2. CASE PollBegin
    BY <2>1, <2>2, PollBeginCounts
  <2>3. CASE \E e \in Event : PollEvent(e)
    BY <2>1, <2>3, PollEventCounts
  <2>4. CASE PollEnd
    BY <2>1, <2>4, PollEndCounts
  <2>5. CASE PollerStops
    <3>1. poller = "idle" /\ poller' = "stopped" /\ UNCHANGED <<listed, todo, seen, appeared, count>>
      BY <2>5 DEF PollerStops, indexVars
    <3>2. \A a \in Polled : Pending(a)' = Pending(a)
      BY <3>1 DEF Pending
    <3>3. QED BY <2>1, <3>1, <3>2 DEF CountInv, Polled
  <2>6. CASE \E a \in Alert : ToolIngest(a)
    <3>1. PICK b \in Alert : ToolIngest(b)
      BY <2>6
    <3>2. UNCHANGED <<poller, listed, todo, seen, appeared>> /\ b \notin Polled /\ Ingest(b)
      BY <3>1 DEF ToolIngest, pollVars
    <3>3. ASSUME NEW a \in Polled PROVE count'[a] <= count[a]
      <4>1. a \in Alert /\ a # b /\ count[a] \in Nat
        BY <2>1, <3>2, PolledAlerts DEF TypeOK
      <4>2. count'[a] = count[a] \/ count'[a] = 0
        BY <3>2, <4>1 DEF Ingest
      <4>3. QED BY <4>1, <4>2
    <3>4. QED BY <2>1, <3>2, <3>3, CountKept
  <2>7. CASE Prune
    <3>1. UNCHANGED <<poller, listed, todo, seen, appeared>>
      BY <2>7 DEF Prune, pollVars
    <3>2. ASSUME NEW a \in Polled PROVE count'[a] <= count[a]
      <4>1. a \in Alert /\ count[a] \in Nat
        BY <2>1, PolledAlerts DEF TypeOK
      <4>2. count'[a] = count[a] \/ count'[a] = 0
        BY <2>7, <4>1 DEF Prune
      <4>3. QED BY <4>1, <4>2
    <3>3. QED BY <2>1, <3>1, <3>2, CountKept
  <2>8. CASE \/ UpdateConfig \/ RoomEnds \/ OtherRoom \/ \E s \in Service : CoolDown(s)
             \/ \E k \in Callback : \/ CallbackBegin(k) \/ CheckConcurrent(k)
                                    \/ CheckCooldown(k) \/ StartRoom(k) \/ Record(k)
             \/ UNCHANGED vars
    <3>1. UNCHANGED <<poller, listed, todo, seen, appeared, count>>
      BY <2>8 DEF UpdateConfig, RoomEnds, OtherRoom, CoolDown, CallbackBegin, CheckConcurrent,
         CheckCooldown, StartRoom, Record, Goto, vars, pollVars, indexVars
    <3>2. \A a \in Polled : count'[a] <= count[a]
      BY <2>1, <3>1, PolledAlerts DEF TypeOK
    <3>3. QED BY <2>1, <3>1, <3>2, CountKept
  <2>9. QED BY <2>1, <2>2, <2>3, <2>4, <2>5, <2>6, <2>7, <2>8 DEF Next
<1>3. AlertsInv /\ CountInv => CountsOccurrences
  <2>1. SUFFICES ASSUME TypeOK, CountInv, NEW a \in Polled PROVE count[a] <= appeared[a]
    BY DEF AlertsInv, CountsOccurrences
  <2>2. Pending(a) \in SUBSET Event
    BY <2>1 DEF Pending, TypeOK
  <2>3. Cardinality(Pending(a)) \in Nat
    BY <2>2, EventSets
  <2>4. count[a] \in Nat /\ appeared[a] \in Nat /\ count[a] + Cardinality(Pending(a)) <= appeared[a]
    BY <2>1, PolledAlerts DEF TypeOK, CountInv
  <2>5. QED BY <2>3, <2>4
<1>4. QED BY <1>1, <1>2, <1>3, AlertsInvariant, PTL DEF Spec
=============================================================================
