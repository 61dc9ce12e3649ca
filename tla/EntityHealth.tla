---------------------------- MODULE EntityHealth ----------------------------
(***************************************************************************)
(* nodeState, replicaSetState and eventState of internal/diag/state.go:    *)
(* which messages a node, a replica set or an event gets, and under which  *)
(* key the store remembers them.  A message is a sequence of tokens: the   *)
(* markers <t> and </t> around what changes with time, and words for the   *)
(* rest.  NormalizeTemporal strips what the markers enclose, and what is   *)
(* left is the key.                                                        *)
(*                                                                         *)
(* The clock is PodHealth's, and so is the whole of its behaviour: either  *)
(* the pod is the one looked at or, with a pod that has succeeded, another *)
(* object.  Unlike the pod, these objects change: conditions flip and      *)
(* events recur while their periods of grace run.                          *)
(***************************************************************************)
EXTENDS PodHealth, SequencesExt

CONSTANTS
    Quantities,     \* amounts of a resource of a node: allocatable and capacity
    UsageThreshold, \* node-resource-usage-threshold, in per cent
    EventGrace,     \* graceTimeForEventSinceEntityCreation
    Unparsable,     \* an annotation that is not a number
    MaxCount        \* bound of the number of times an event recurs

Resource == {"CPU", "Memory", "Ephemeral Storage"}

ConditionType == {"Ready", "Pressure"}

\* A node whose conditions all date from the beginning.
Node ==
    [kind : {"Node"},
     conditions : [ConditionType -> [status : {"True", "False", "Unknown"}, since : {0}]],
     resources : [Resource -> Quantities]]

ReplicaSet ==
    [kind : {"ReplicaSet"},
     spec : 0..2 \cup {None},
     annotation : 0..2 \cup {None, Unparsable},
     replicas : 0..2,
     conditions : {{}, {0}, {1}}]       \* the instants of their transitions

\* An event that occurs for the first time.  Older clients count an event in
\* itself, newer ones in its series.
Event(instant) ==
    LET event(first, count, eventTime) ==
            [kind : {"Event"},
             harmless : BOOLEAN,                    \* what isEventHealthy accepts
             created : 0..instant \cup {None},      \* when its entity was
             FirstTimestamp : {first},
             LastTimestamp : {first},
             Count : {count},
             EventTime : {eventTime},
             Series : {None}]
    IN  event(instant, 1, None) \cup event(None, 0, instant)

ASSUME EntityHealthAssumption ==
    /\ Quantities \subseteq [allocatable : Nat, capacity : Nat]
    /\ \A q \in Quantities : q.allocatable <= q.capacity
    /\ {UsageThreshold, EventGrace, MaxCount} \subseteq Nat
    /\ Unparsable \notin Int \cup {None}

-----------------------------------------------------------------------------
(* Messages and their keys *)

formatDuration(older, newer) ==
    IF older = None THEN "unknown time ago"
    ELSE IF newer < older THEN "now" ELSE ToString(newer - older)

WrapTemporal(item) == <<"<t>", item, "</t>">>

\* Strips pair after pair, and gives up at a start without an end behind it.
NormalizeTemporal[message \in Seq(STRING)] ==
    LET start == SelectInSeq(message, LAMBDA token : token = "<t>")
        end == SelectInSeq(message, LAMBDA token : token = "</t>")
    IN  IF start = 0 \/ end < start THEN message
        ELSE NormalizeTemporal[
                SubSeq(message, 1, start - 1) \o SubSeq(message, end + 1, Len(message))]

\* Slip: the age is written without markers.
SlipBareAge(type, since, instant) ==
    <<type, "last transition", formatDuration(since, instant)>>

conditionMessage(type, since, instant) ==
    <<type, "last transition">> \o WrapTemporal(formatDuration(since, instant))

-----------------------------------------------------------------------------
(* Nodes *)

failing(node, type) ==
    node.conditions[type].status # (IF type = "Ready" THEN "True" ELSE "False")

\* A resource that the node does not have is not in use.
excessive(q) ==
    /\ q.capacity # 0
    /\ 100 * (q.capacity - q.allocatable) > UsageThreshold * q.capacity

formatResourceUsage(name, q) ==
    <<"Excessive usage", name, ToString(q.capacity - q.allocatable), ToString(q.capacity)>>

\* Slip: a condition that is still in its minute silences the resources too.
SlipYoungSilences(node, instant) ==
    IF \E t \in ConditionType : failing(node, t)
    THEN {conditionMessage(t, node.conditions[t].since, instant) :
            t \in {u \in ConditionType : /\ failing(node, u)
                                         /\ instant - node.conditions[u].since >= Minute}}
    ELSE {formatResourceUsage(r, node.resources[r]) :
            r \in {s \in Resource : excessive(node.resources[s])}}

\* The resources are looked at only if no condition is told.
nodeState(node, instant) ==
    LET told == {t \in ConditionType : /\ failing(node, t)
                                       /\ instant - node.conditions[t].since >= Minute}
    IN  IF told # {}
        THEN {conditionMessage(t, node.conditions[t].since, instant) : t \in told}
        ELSE {formatResourceUsage(r, node.resources[r]) :
                r \in {s \in Resource : excessive(node.resources[s])}}

-----------------------------------------------------------------------------
(* Replica sets *)

desiredReplicas(rs) ==
    IF rs.spec # None THEN rs.spec
    ELSE IF rs.annotation \in {None, Unparsable} THEN 1 ELSE rs.annotation

\* One that is short of replicas is told by its conditions, if it has any.
replicaSetState(rs, instant) ==
    IF rs.replicas >= desiredReplicas(rs) THEN {}
    ELSE {conditionMessage("ReplicaFailure", since, instant) : since \in rs.conditions}

-----------------------------------------------------------------------------
(* Events *)

firstTimestamp(event) ==
    IF event.FirstTimestamp # None THEN event.FirstTimestamp ELSE event.EventTime

\* Slip: what a series has observed is not looked at.
SlipForgetsSeries(event) ==
    IF event.Count > 1 /\ event.LastTimestamp # None THEN event.LastTimestamp
    ELSE event.EventTime

\* A series tells only with the instant it was last observed.
seriesTells(event) == event.Series # None /\ event.Series.LastObservedTime # None

\* Of an event that an older client has seen once, no last instant is known.
lastTimestamp(event) ==
    IF seriesTells(event) THEN event.Series.LastObservedTime
    ELSE IF event.Count > 1 /\ event.LastTimestamp # None THEN event.LastTimestamp
    ELSE event.EventTime

countOf(event) ==
    IF seriesTells(event) THEN event.Series.Count
    ELSE IF event.Count > 1 /\ event.LastTimestamp # None THEN event.Count
    ELSE 1

\* Slip: the count is written without markers.
SlipBareCount(event) ==
    IF countOf(event) > 1 THEN <<"x", ToString(countOf(event))>> ELSE <<>>

countText(event) ==
    IF countOf(event) > 1 THEN <<"x">> \o WrapTemporal(ToString(countOf(event))) ELSE <<>>

eventMessage(event, instant) ==
    LET first == firstTimestamp(event)
        last == lastTimestamp(event)
    IN  <<"Event", "reason">> \o countText(event)
        \o <<"since">> \o WrapTemporal(ToString(first))
        \o WrapTemporal(formatDuration(first, instant))
        \o (IF first # last /\ last # None
            THEN WrapTemporal(formatDuration(last, instant)) ELSE <<>>)
        \o <<"text">>

\* unhealthyEvents forgives what was last seen while its entity was being created.
forgiven(event) ==
    /\ lastTimestamp(event) # None
    /\ event.created # None
    /\ lastTimestamp(event) - event.created < EventGrace

eventState(event, instant) ==
    IF event.harmless \/ forgiven(event) THEN {} ELSE {eventMessage(event, instant)}

-----------------------------------------------------------------------------

VARIABLE object

Absent == [kind |-> "None"]

messages(o, instant) ==
    CASE o.kind = "Node" -> nodeState(o, instant)
      [] o.kind = "ReplicaSet" -> replicaSetState(o, instant)
      [] o.kind = "Event" -> eventState(o, instant)
      [] OTHER -> {}

\* What TryAdd looks for in the store.
keys(o, instant) == {NormalizeTemporal[m] : m \in messages(o, instant)}

QuietPod(p) == p.phase = "Succeeded" /\ p.started = None /\ p.deleted = None
               /\ ~ p.reason /\ ~ p.unmet /\ p.init = {} /\ p.main = {}

EntityInit ==
    /\ Init
    /\ \/ object = Absent
       \/ QuietPod(pod) /\ now = 0 /\ object \in Node
       \/ QuietPod(pod) /\ now = 1 /\ object \in ReplicaSet
       \/ QuietPod(pod) /\ object \in Event(now)

\* A condition of the node gets another status.
Flips ==
    /\ object.kind = "Node"
    /\ \E t \in ConditionType, s \in {"True", "False", "Unknown"} :
        /\ s # object.conditions[t].status
        /\ object' = [object EXCEPT !.conditions[t] = [status |-> s, since |-> now]]
    /\ UNCHANGED <<pod, now>>

\* The event occurs once more.
Recurs ==
    /\ object.kind = "Event"
    /\ \/ /\ object.Count \in 1..(MaxCount - 1)
          /\ object' = [object EXCEPT !.Count = object.Count + 1, !.LastTimestamp = now]
       \/ /\ object.EventTime # None
          /\ countOf(object) < MaxCount
          /\ object' = [object EXCEPT !.Series =
                            [LastObservedTime |-> now, Count |-> countOf(object) + 1]]
    /\ UNCHANGED <<pod, now>>

EntityNext == (Tick /\ UNCHANGED object) \/ Flips \/ Recurs

EntitySpec == EntityInit /\ [][EntityNext]_<<vars, object>>

-----------------------------------------------------------------------------
(* Properties *)

\* A node with a condition that has failed for a minute, or a resource in
\* excessive use, is never silent: whatever is left out for the sake of
\* something else (state.go:325-339), the something else is told.
NodeTroubleIsTold ==
    object.kind = "Node" /\ messages(object, now) = {} =>
        /\ \A t \in ConditionType :
            failing(object, t) => now - object.conditions[t].since < Minute
        /\ \A r \in Resource : ~ excessive(object.resources[r])

\* The grace for events of a new entity hides no event that occurred after it,
\* in whichever fields its client reports that (state.go:420-438).
LateEventIsTold ==
    object.kind = "Event" /\ ~ object.harmless /\ messages(object, now) = {} =>
        LET seen == {object.FirstTimestamp, object.LastTimestamp, object.EventTime}
                    \cup (IF object.Series = None THEN {}
                          ELSE {object.Series.LastObservedTime})
        IN  \A t \in seen \ {None} : t - object.created < EventGrace

\* As time passes over an object that does not change, its messages keep their
\* keys, so that the store finds them again.  Only the resources of a node fall
\* silent, when a condition takes over.
TimeKeepsKeys ==
    [][object' = object =>
        \A k \in keys(object, now) :
            \/ k \in keys(object, now')
            \/ object.kind = "Node" /\ k[1] = "Excessive usage" /\ keys(object, now') # {}
      ]_<<vars, object>>

\* A repeated event that is told keeps its key however often it recurs, although
\* its message has another count and other instants each time.
RecurringKeepsKey ==
    [][object.kind = "Event" /\ countOf(object) > 1 /\ keys(object, now) # {}
        => keys(object, now)' = keys(object, now)]_<<vars, object>>

=============================================================================
