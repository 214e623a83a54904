-------------------------------- MODULE Alerts --------------------------------
(* The way from an alert to a War Room: the poller of SOPA events, the alert  *)
(* engine's index of deduplicated alerts, and the trigger, whose callbacks    *)
(* the engine runs in a goroutine each.  A callback looks at the number of    *)
(* rooms and at the cooldown of the alert's service, starts a room, and only  *)
(* then records that it has.  Whether an alert is severe enough (its level    *)
(* and the configured one, read without a lock) is left open.                 *)
EXTENDS Integers, FiniteSets

CONSTANTS
    Event,       \* ids of alert events SOPA can list
    Alert,       \* fingerprints
    Service,
    AlertOf,     \* the fingerprint of an event
    ServiceOf,   \* the service of a fingerprint
    Callback,    \* goroutines of callbacks; bound: callbacks at a time
    Config,      \* trigger configurations: enabled, max (MaxConcurrent)
    MaxLimit,    \* the largest MaxConcurrent among them
    SeenCap,     \* size at which lastSeenIDs is trimmed
    IndexCap,    \* maxRawAlerts
    MaxPolls,    \* bound: successful polls
    MaxTools,    \* bound: alerts ingested by others than the poller
    MaxOthers    \* bound: rooms opened by others at a time

ASSUME AlertsAssumption ==
    /\ AlertOf \in [Event -> Alert] /\ ServiceOf \in [Alert -> Service]
    /\ Config \subseteq [enabled : BOOLEAN, max : 0..MaxLimit]
    /\ IsFiniteSet(Event) /\ IsFiniteSet(Callback) /\ Callback # {}
    /\ MaxLimit \in Nat \ {0}
    /\ {SeenCap, IndexCap, MaxPolls, MaxTools, MaxOthers} \subseteq Nat

VARIABLES
    poller,      \* "idle", "polling" or "stopped"
    listed,      \* events of the last response
    todo,        \* those of them pollOnce has not come to
    seen,        \* lastSeenIDs
    polls,       \* what MaxPolls bounds
    tools,       \* what MaxTools bounds
    count,       \* DedupedAlert.Count by fingerprint; 0: not in the index
    pc, about,   \* a callback: where it is, and the alert it is about
    config,      \* the trigger's configuration
    last,        \* lastTriggered: "never", within the cooldown ("hot") or "cold"
    auto,        \* active rooms the trigger has started
    others,      \* active rooms of others
    appeared,    \* history: how often an event of the fingerprint newly appeared in a response
    started      \* history: rooms started for a service since it was last cold

pollVars  == <<poller, listed, todo, seen, polls, appeared>>
indexVars == <<tools, count>>
roomVars  == <<auto, others>>
vars      == <<pollVars, indexVars, pc, about, config, last, roomVars, started>>

Init ==
    /\ poller = "idle" /\ listed = {} /\ todo = {} /\ seen = {}
    /\ polls = 0 /\ tools = 0
    /\ count = [a \in Alert |-> 0]
    /\ pc = [k \in Callback |-> "idle"]
    /\ about \in [Callback -> Alert]
    /\ config \in Config
    /\ last = [s \in Service |-> "never"]
    /\ auto = 0 /\ others = 0
    /\ appeared = [a \in Alert |-> 0]
    /\ started = [s \in Service |-> 0]

Of(k) == ServiceOf[about[k]]

-----------------------------------------------------------------------------
(* The engine.                                                               *)

\* SOPA's alerts; theirs is a source of its own, and they fire when polled.
Polled == {AlertOf[e] : e \in Event}

\* Ingest: the alert is new or counted once more; a full index is then purged
\* of alerts not fired in the window.  Either way a callback is started.
Ingest(a) ==
    LET indexed == {b \in Alert : count[b] > 0}
        full == a \in indexed /\ Cardinality(indexed) > IndexCap
    IN  /\ \E stale \in SUBSET (indexed \ (Polled \cap {a})) :
              /\ ~full => stale = {}
              /\ count' = [b \in Alert |-> IF b \in stale THEN 0
                                           ELSE IF b = a THEN count[b] + 1 ELSE count[b]]
        /\ \E k \in Callback :
              /\ pc[k] = "idle"
              /\ pc' = [pc EXCEPT ![k] = "begin"]
              /\ about' = [about EXCEPT ![k] = a]

\* alert_ingest and the watchdog.
ToolIngest(a) ==
    /\ tools < MaxTools /\ a \notin Polled
    /\ tools' = tools + 1
    /\ Ingest(a)
    /\ UNCHANGED <<pollVars, config, last, roomVars, started>>

\* Prune, and Clear, which takes them all.
Prune ==
    /\ \E old \in SUBSET {a \in Alert : count[a] > 0} \ {{}} :
          count' = [a \in Alert |-> IF a \in old THEN 0 ELSE count[a]]
    /\ UNCHANGED <<pollVars, tools, pc, about, config, last, roomVars, started>>

-----------------------------------------------------------------------------
(* The poller; a failed request changes nothing.                             *)

PollBegin ==
    /\ poller = "idle" /\ polls < MaxPolls
    /\ poller' = "polling"
    /\ polls' = polls + 1
    /\ \E events \in SUBSET Event :
          /\ listed' = events
          /\ todo' = events
          /\ appeared' = [a \in Alert |->
                appeared[a] + Cardinality({e \in events \ listed : AlertOf[e] = a})]
    /\ UNCHANGED <<seen, indexVars, pc, about, config, last, roomVars, started>>

\* The next event of the response; one that was seen before is passed over.
PollEvent(e) ==
    /\ poller = "polling" /\ e \in todo
    /\ todo' = todo \ {e}
    /\ seen' = seen \cup {e}
    /\ IF e \in seen THEN UNCHANGED <<count, pc, about>> ELSE Ingest(AlertOf[e])
    /\ UNCHANGED <<poller, listed, polls, appeared, tools, config, last, roomVars, started>>

\* A mutant of PollEnd: forgets the current response as well.
PollEndForgets ==
    /\ poller = "polling" /\ todo = {}
    /\ poller' = "idle"
    /\ seen' = IF Cardinality(seen) > SeenCap THEN {} ELSE seen
    /\ UNCHANGED <<listed, todo, polls, appeared, indexVars, pc, about, config, last, roomVars, started>>

\* lastSeenIDs has grown too large: only the current response is remembered.
PollEnd ==
    /\ poller = "polling" /\ todo = {}
    /\ poller' = "idle"
    /\ seen' = IF Cardinality(seen) > SeenCap THEN listed ELSE seen
    /\ UNCHANGED <<listed, todo, polls, appeared, indexVars, pc, about, config, last, roomVars, started>>

PollerStops ==
    /\ poller = "idle"
    /\ poller' = "stopped"
    /\ UNCHANGED <<listed, todo, seen, polls, appeared, indexVars, pc, about, config, last, roomVars, started>>

-----------------------------------------------------------------------------
(* A callback of the trigger.                                                *)

Goto(k, next) ==
    /\ pc' = [pc EXCEPT ![k] = next]
    /\ UNCHANGED <<pollVars, indexVars, about, config>>

\* OnAlert reads Enabled without the lock.
CallbackBegin(k) ==
    /\ pc[k] = "begin"
    /\ Goto(k, IF config.enabled THEN "check" ELSE "idle")
    /\ UNCHANGED <<last, roomVars, started>>

\* A mutant of CheckConcurrent: off by one.
CheckConcurrentOver(k) ==
    /\ pc[k] = "check"
    /\ \/ auto + others <= config.max /\ Goto(k, "cooldown")
       \/ Goto(k, "idle")
    /\ UNCHANGED <<last, roomVars, started>>

\* shouldTrigger: the severity, and the number of active rooms.
CheckConcurrent(k) ==
    /\ pc[k] = "check"
    /\ \/ auto + others < config.max /\ Goto(k, "cooldown")
       \/ Goto(k, "idle")
    /\ UNCHANGED <<last, roomVars, started>>

CheckCooldown(k) ==
    /\ pc[k] = "cooldown"
    /\ Goto(k, IF last[Of(k)] = "hot" THEN "idle" ELSE "start")
    /\ UNCHANGED <<last, roomVars, started>>

\* StartWarRoomFromAlert, which may fail.
StartRoom(k) ==
    /\ pc[k] = "start"
    /\ \/ /\ Goto(k, "record")
          /\ auto' = auto + 1
          /\ started' = [started EXCEPT ![Of(k)] = @ + 1]
       \/ Goto(k, "idle") /\ UNCHANGED <<auto, started>>
    /\ UNCHANGED <<last, others>>

\* A mutant of Record: forgets the trigger.
RecordNothing(k) ==
    /\ pc[k] = "record"
    /\ Goto(k, "idle")
    /\ UNCHANGED <<last, roomVars, started>>

Record(k) ==
    /\ pc[k] = "record"
    /\ Goto(k, "idle")
    /\ last' = [last EXCEPT ![Of(k)] = "hot"]
    /\ UNCHANGED <<roomVars, started>>

-----------------------------------------------------------------------------
(* Time, the coordinator's other callers, and UpdateConfig.                  *)

\* The last trigger of a service comes to be older than the cooldown.
CoolDown(s) ==
    /\ last[s] = "hot"
    /\ last' = [last EXCEPT ![s] = "cold"]
    /\ started' = [started EXCEPT ![s] = 0]
    /\ UNCHANGED <<pollVars, indexVars, pc, about, config, roomVars>>

\* UpdateConfig; a longer cooldown makes services hot again, and a shorter one
\* is a CoolDown.  The web handler writes back what it read before, with some
\* fields replaced, so any configuration may be written.
UpdateConfig ==
    /\ \E c \in Config, hot \in SUBSET {s \in Service : last[s] = "cold"} :
          /\ config' = c
          /\ last' = [s \in Service |-> IF s \in hot THEN "hot" ELSE last[s]]
    /\ UNCHANGED <<pollVars, indexVars, pc, about, roomVars, started>>

\* A mutant of RoomEnds: a room can end twice.
RoomEndsTwice ==
    /\ auto' = auto - 1
    /\ UNCHANGED <<pollVars, indexVars, pc, about, config, last, others, started>>

RoomEnds ==
    /\ \/ auto > 0 /\ auto' = auto - 1 /\ UNCHANGED others
       \/ others > 0 /\ others' = others - 1 /\ UNCHANGED auto
    /\ UNCHANGED <<pollVars, indexVars, pc, about, config, last, started>>

OtherRoom ==
    /\ others < MaxOthers
    /\ others' = others + 1
    /\ UNCHANGED <<pollVars, indexVars, pc, about, config, last, auto, started>>

-----------------------------------------------------------------------------
Next ==
    \/ PollBegin \/ PollEnd \/ PollerStops \/ \E e \in Event : PollEvent(e)
    \/ \E a \in Alert : ToolIngest(a)
    \/ Prune \/ UpdateConfig \/ RoomEnds \/ OtherRoom
    \/ \E s \in Service : CoolDown(s)
    \/ \E k \in Callback :
          CallbackBegin(k) \/ CheckConcurrent(k) \/ CheckCooldown(k) \/ StartRoom(k) \/ Record(k)

Spec == Init /\ [][Next]_vars

-----------------------------------------------------------------------------
(* Properties.                                                               *)

\* Every variable has its type, and what pollOnce works on was listed.
TypeOK ==
    /\ poller \in {"idle", "polling", "stopped"}
    /\ listed \subseteq Event /\ todo \subseteq listed /\ seen \subseteq Event
    /\ polls \in 0..MaxPolls /\ tools \in 0..MaxTools
    /\ count \in [Alert -> Nat]
    /\ pc \in [Callback -> {"idle", "begin", "check", "cooldown", "start", "record"}]
    /\ about \in [Callback -> Alert]
    /\ config \in Config
    /\ last \in [Service -> {"never", "hot", "cold"}]
    /\ auto \in Nat /\ others \in 0..MaxOthers
    /\ appeared \in [Alert -> Nat] /\ started \in [Service -> Nat]

Passed == {k \in Callback : pc[k] \in {"cooldown", "start"}}

\* Callbacks that pass the check of MaxConcurrent together exceed it, but by
\* less than the number of callbacks at a time, counting those on their way.
StartBound == auto + Cardinality(Passed) <= MaxLimit - 1 + Cardinality(Callback)

\* An alert storm starts at most one room per callback for a service before
\* its cooldown has passed, although the cooldown is recorded last.
StormBound == \A s \in Service : started[s] <= Cardinality(Callback)

\* The count of a deduplicated alert is not more than the number of times its
\* events have appeared: an event that stays listed is not ingested again,
\* also when lastSeenIDs is trimmed.
CountsOccurrences == \A a \in Polled : count[a] <= appeared[a]
=============================================================================
