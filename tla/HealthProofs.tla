---------------------------- MODULE HealthProofs ----------------------------
(***************************************************************************)
(* The rules by which pods, nodes and events are told, for any periods of  *)
(* grace, any thresholds and any container statuses.                       *)
(***************************************************************************)
EXTENDS EntityHealth, TLAPS

-----------------------------------------------------------------------------
(* Pods *)

PodInv ==
    /\ pod \in Pod
    /\ now \in Time

LEMMA PodInit == Init => PodInv
  BY DEF Init, PodInv

LEMMA PodStep == PodInv /\ [Tick]_vars => PodInv'
  BY PodHealthAssumption DEF PodInv, Tick, vars, Time

\* What the fields of a pod and of its containers hold.
LEMMA PodFields ==
  ASSUME PodInv
  PROVE  /\ now \in Nat
         /\ pod.created = 0
         /\ pod.started # None => pod.started = 1
         /\ pod.deleted # None => pod.deleted = 2
         /\ pod.deletionGrace # None => pod.deletionGrace = 0
  BY PodHealthAssumption DEF PodInv, Pod, Time

LEMMA ContainerFields ==
  ASSUME PodInv, NEW c \in pod.init \cup pod.main
  PROVE  /\ c.restarts \in Nat
         /\ c.finished # None => c.finished \in Nat
         /\ c.lastFinished # None => c.lastFinished \in Nat
         /\ c.state = "terminated" => c.finished # None
  <1>1. pod.init \subseteq Statuses /\ pod.main \subseteq Statuses
    BY DEF PodInv, Pod, OfName
  <1>2. c \in ContainerStatus /\ c \in Statuses
    BY <1>1, PodHealthAssumption
  <1>3. Time \subseteq Nat
    BY PodHealthAssumption DEF Time
  <1> QED  BY <1>2, <1>3, PodHealthAssumption DEF ContainerStatus
\* A container that is checked is one of the pod's.
LEMMA CheckedAreContainers == Checked(pod) \subseteq pod.init \cup pod.main
  BY DEF Checked

\* A trouble of a container that is told is told by its pod.
LEMMA ContainerIsHeard ==
  ASSUME NEW c \in Checked(pod), checkContainerStatus(pod, c, now) # {}
  PROVE  /\ checkContainerStatuses(pod, now) # {}
         /\ checkContainerStatus(pod, c, now)
                \subseteq UNION {checkContainerStatus(pod, d, now) : d \in Checked(pod)}
  BY DEF checkContainerStatuses

\* A pod out of whose reach every grace is, and that does not run, is told by
\* its conditions or its phase when nothing else is told of it.
LEMMA FallbackTells ==
  ASSUME pod.phase \notin {"Running", "Succeeded"}, startingGracePassed(pod, now)
  PROVE  conditionMessages(pod, now) # {}
  BY DEF conditionMessages

\* A container whose periods of grace are over, that does not back off and whose
\* restarts do not count, has no trouble that its pod would not tell.
LEMMA TroubleIsTold ==
  ASSUME PodInv, NEW c \in Checked(pod), runProblems(c),
         startingGracePassed(pod, now),
         c.state = "terminated" => now - c.finished >= TerminationGrace,
         ~ BacksOff(c), c.restarts <= RestartGraceCount
  PROVE  \/ checkContainerStatus(pod, c, now) # {}
         \/ pendingMessages(pod, now) # {}
  <1>1. c.restarts \in Nat
    BY CheckedAreContainers, ContainerFields
  <1>2. terminatedBadly(c) \/ c.state = "waiting"
    BY <1>1, PodHealthAssumption DEF runProblems, restartsCount
  <1>3. CASE terminatedBadly(c)
    BY <1>3 DEF checkContainerStatus, terminationTold, terminatedBadly
  <1>4. CASE c.state = "waiting" /\ c.reason \in {"ContainerCreating", "PodInitializing"}
    BY <1>4 DEF pendingMessages, waitingToCreate, waitingToInitialize
  <1>5. CASE c.state = "waiting" /\ c.reason \notin {"ContainerCreating", "PodInitializing"}
    <2>1. waitingTold(c)
      BY <1>5 DEF waitingTold, BacksOff
    <2> QED  BY <2>1 DEF checkContainerStatus
  <1> QED  BY <1>2, <1>3, <1>4, <1>5

\* No pod is silently stuck: one that neither runs nor has succeeded gets a
\* message once every period of grace is over, unless a container backs off or
\* has restarts behind it (state.go:50-131, 155-253, 262-308).
THEOREM StuckPodIsTold == Spec => []StuckIsTold
  <1>1. PodInv => StuckIsTold
    <2> SUFFICES ASSUME PodInv,
                        pod.phase \notin {"Running", "Succeeded"},
                        now - valueOrDefault(pod.started, pod.created) >= CreationGrace,
                        startingGracePassed(pod, now),
                        \A c \in pod.init \cup pod.main :
                            /\ c.state = "terminated" => now - c.finished >= TerminationGrace
                            /\ ~ BacksOff(c)
                            /\ c.restarts <= RestartGraceCount
                 PROVE  podState(pod, now) # {}
      BY DEF StuckIsTold
    <2>1. podState(pod, now) = checkContainerStatuses(pod, now)
      <3>1. ~ (now - valueOrDefault(pod.started, pod.created) < CreationGrace)
        BY PodFields, PodHealthAssumption DEF valueOrDefault
      <3> QED  BY <3>1 DEF podState
    <2>2. CASE \E c \in Checked(pod) : runProblems(c)
      <3>1. PICK c \in Checked(pod) : runProblems(c)
        BY <2>2
      <3>2. \/ checkContainerStatus(pod, c, now) # {}
            \/ pendingMessages(pod, now) # {}
        BY <3>1, CheckedAreContainers, TroubleIsTold
      <3>3. CASE checkContainerStatus(pod, c, now) # {}
        BY <2>1, <3>3, ContainerIsHeard
      <3>4. CASE pendingMessages(pod, now) # {}
        BY <2>1, <3>4 DEF checkContainerStatuses
      <3> QED  BY <3>2, <3>3, <3>4
    <2>3. CASE \A c \in Checked(pod) : ~ runProblems(c)
      BY <2>1, <2>3, FallbackTells DEF checkContainerStatuses
    <2> QED  BY <2>2, <2>3
  <1> QED  BY <1>1, PodInit, PodStep, PTL DEF Spec
\* What a pod is told of for another reason than its restarts.
Restarted == {<<"init", "restarted">>, <<"main", "restarted">>}

\* The graces that are over stay over.
LEMMA GracesStayOver ==
  ASSUME PodInv, Tick
  PROVE  /\ startingGracePassed(pod, now) => startingGracePassed(pod, now')
         /\ \A c \in pod.init \cup pod.main :
                terminationTold(c, now) => terminationTold(c, now')
         /\ ~ (now - valueOrDefault(pod.started, pod.created) < CreationGrace)
              => ~ (now' - valueOrDefault(pod.started, pod.created) < CreationGrace)
  <1>1. now' = now + 1 /\ now \in Nat
    BY PodFields DEF Tick
  <1>2. startingGracePassed(pod, now) => startingGracePassed(pod, now')
    BY <1>1, PodFields, PodHealthAssumption DEF startingGracePassed
  <1>3. ASSUME NEW c \in pod.init \cup pod.main, terminationTold(c, now)
        PROVE  terminationTold(c, now')
    <2>1. terminatedBadly(c) /\ c.finished \in Nat
      BY <1>3, ContainerFields DEF terminationTold, terminatedBadly
    <2> QED  BY <1>1, <1>3, <2>1, PodHealthAssumption DEF terminationTold
  <1>4. valueOrDefault(pod.started, pod.created) \in Nat
    BY PodFields DEF valueOrDefault
  <1> QED  BY <1>1, <1>2, <1>3, <1>4, PodHealthAssumption

\* What the status of a pod says, it goes on to say.
LEMMA StatusPersists ==
  ASSUME PodInv, Tick
  PROVE  statusMessages(pod, now) \subseteq statusMessages(pod, now')
  <1>1. now' = now + 1 /\ now \in Nat
    BY PodFields DEF Tick
  <1>2. valueOrDefault(pod.deletionGrace, TerminationGrace) \in Nat
    BY PodFields, PodHealthAssumption DEF valueOrDefault
  <1>3. ASSUME pod.deleted # None,
               now - pod.deleted > valueOrDefault(pod.deletionGrace, TerminationGrace)
        PROVE  now' - pod.deleted > valueOrDefault(pod.deletionGrace, TerminationGrace)
    BY <1>1, <1>2, <1>3, PodFields
  <1> QED  BY <1>3 DEF statusMessages

\* One of the messages of containers that wait to start takes the other's place.
LEMMA PendingPersists ==
  ASSUME PodInv, Tick, pendingMessages(pod, now) # {}
  PROVE  pendingMessages(pod, now') # {}
  BY GracesStayOver DEF pendingMessages, waitingToCreate, waitingToInitialize

LEMMA ContainersPersist ==
  ASSUME PodInv, Tick, NEW c \in Checked(pod), NEW m \in checkContainerStatus(pod, c, now),
         m \notin Restarted
  PROVE  m \in checkContainerStatus(pod, c, now')
  <1>1. c.name \in {"init", "main"}
    BY PodHealthAssumption DEF PodInv, Pod, OfName, Checked
  <1>2. PICK what \in (IF terminationTold(c, now) THEN {"terminated"} ELSE {})
                      \cup (IF waitingTold(c) THEN {"waiting"} ELSE {})
                      \cup (IF excessiveRestarts(pod, c, now) THEN {"restarted"} ELSE {}) :
          m = <<c.name, what>>
    BY DEF checkContainerStatus
  <1>3. what # "restarted"
    BY <1>1, <1>2 DEF Restarted
  <1>4. CASE what = "terminated" /\ terminationTold(c, now)
    <2>1. terminationTold(c, now')
      BY <1>4, CheckedAreContainers, GracesStayOver
    <2> QED  BY <1>2, <1>4, <2>1 DEF checkContainerStatus
  <1>5. CASE what = "waiting" /\ waitingTold(c)
    BY <1>2, <1>5 DEF checkContainerStatus
  <1> QED  BY <1>2, <1>3, <1>4, <1>5

\* Time alone never silences a pod that is told, but for its restarts: the
\* message that takes over when a period of grace ends is there by then
\* (state.go:50-131, 155-253, 262-308).
THEOREM PodAlarmPersists == Spec => AlarmPersists
  <1>1. ASSUME PodInv, Tick, NEW m \in podState(pod, now), m \notin Restarted
        PROVE  podState(pod, now') # {}
    <2>1. /\ podState(pod, now) = checkContainerStatuses(pod, now)
          /\ podState(pod, now') = checkContainerStatuses(pod, now')
      <3>1. /\ pod.phase # "Succeeded"
            /\ ~ (now - valueOrDefault(pod.started, pod.created) < CreationGrace)
        BY <1>1 DEF podState
      <3> QED  BY <1>1, <3>1, GracesStayOver DEF podState
    <2>2. CASE m \in statusMessages(pod, now)
      BY <1>1, <2>1, <2>2, StatusPersists DEF checkContainerStatuses
    <2>3. CASE m \in pendingMessages(pod, now)
      BY <1>1, <2>1, <2>3, PendingPersists DEF checkContainerStatuses
    <2>4. CASE \E c \in Checked(pod) : m \in checkContainerStatus(pod, c, now)
      <3>1. PICK c \in Checked(pod) : m \in checkContainerStatus(pod, c, now)
        BY <2>4
      <3>2. m \in checkContainerStatus(pod, c, now')
        BY <1>1, <3>1, ContainersPersist
      <3> QED  BY <2>1, <3>2 DEF checkContainerStatuses
    <2>5. CASE /\ pod.phase # "Running"
               /\ \A c \in Checked(pod) : ~ runProblems(c)
               /\ m \in conditionMessages(pod, now)
      <3>1. conditionMessages(pod, now') # {}
        BY <1>1, <2>5, GracesStayOver DEF conditionMessages
      <3> QED  BY <2>1, <2>5, <3>1 DEF checkContainerStatuses
    <2> QED  BY <1>1, <2>1, <2>2, <2>3, <2>4, <2>5 DEF checkContainerStatuses
  <1>2. PodInv /\ [Tick]_vars =>
          [podState(pod, now) # {} /\ podState(pod, now)' = {} =>
              podState(pod, now) \subseteq Restarted]_vars
    <2> SUFFICES ASSUME PodInv, Tick, podState(pod, now)' = {},
                        NEW m \in podState(pod, now), m \notin Restarted
                 PROVE  FALSE
      OBVIOUS
    <2>1. podState(pod, now)' = podState(pod, now')
      BY DEF Tick, podState, checkContainerStatuses, statusMessages, pendingMessages,
             conditionMessages, checkContainerStatus, Checked
    <2> QED  BY <1>1, <2>1
  <1>3. Spec => [][podState(pod, now) # {} /\ podState(pod, now)' = {} =>
                      podState(pod, now) \subseteq Restarted]_vars
    BY <1>2, PodInit, PodStep, PTL DEF Spec
  <1> QED  BY <1>3 DEF AlarmPersists, Restarted
\* Restarts that are forgiven stay forgiven until there are new ones
\* (isPodExcessiveRestartProblem, state.go:133-153).
THEOREM ForgivenRestartsStayForgiven == Spec => ForgivenStaysForgiven
  <1>1. ASSUME PodInv, Tick, NEW c \in pod.init \cup pod.main,
               pod.started # None, ~ excessiveRestarts(pod, c, now)
        PROVE  ~ excessiveRestarts(pod, c, now)'
    <2>1. now' = now + 1 /\ pod' = pod /\ now \in Nat
      BY <1>1, PodFields DEF Tick
    <2>2. pod.created \in Nat /\ pod.started \in Nat /\ problemTimestamp(pod, c) \in Nat
      BY <1>1, PodFields, ContainerFields DEF problemTimestamp
    <2>3. isPodExcessiveRestartProblem(now', pod.created, problemTimestamp(pod, c), pod.started)
            => isPodExcessiveRestartProblem(now, pod.created, problemTimestamp(pod, c),
                                            pod.started)
      BY <2>1, <2>2, PodHealthAssumption DEF isPodExcessiveRestartProblem
    <2>4. ~ excessiveRestarts(pod, c, now')
      BY <1>1, <2>3 DEF excessiveRestarts
    <2>5. excessiveRestarts(pod, c, now)' = excessiveRestarts(pod, c, now')
      BY <2>1 DEF excessiveRestarts, problemTimestamp
    <2> QED  BY <2>4, <2>5
  <1>2. PodInv /\ [Tick]_vars =>
          [\A c \in pod.init \cup pod.main :
              pod.started # None /\ ~ excessiveRestarts(pod, c, now)
                  => ~ excessiveRestarts(pod, c, now)']_vars
    BY <1>1
  <1> QED  BY <1>2, PodInit, PodStep, PTL DEF Spec, ForgivenStaysForgiven

-----------------------------------------------------------------------------
(* Nodes and events *)

\* What a node and an event have become.
NodeSoFar ==
    [kind : {"Node"},
     conditions : [ConditionType -> [status : {"True", "False", "Unknown"}, since : Nat]],
     resources : [Resource -> Quantities]]

EventSoFar ==
    [kind : {"Event"},
     harmless : BOOLEAN,
     created : Nat \cup {None},
     FirstTimestamp : Nat \cup {None},
     LastTimestamp : Nat \cup {None},
     Count : Nat,
     EventTime : Nat \cup {None},
     Series : [LastObservedTime : Nat, Count : Nat] \cup {None}]

\* Every client reports the instants of an event in one of two ways: by a count
\* and a last instant, or by a series, and never before its first instant.
TwoWays(event) ==
    \/ /\ event.EventTime = None /\ event.Series = None
       /\ event.FirstTimestamp # None /\ event.LastTimestamp # None
       /\ event.FirstTimestamp <= event.LastTimestamp
       /\ event.LastTimestamp <= now
       /\ event.Count >= 1
    \/ /\ event.FirstTimestamp = None /\ event.LastTimestamp = None
       /\ event.Count = 0
       /\ event.EventTime # None /\ event.EventTime <= now
       /\ event.Series # None =>
            /\ event.EventTime <= event.Series.LastObservedTime
            /\ event.Series.LastObservedTime <= now

EntityInv ==
    /\ PodInv
    /\ object.kind \in {"None", "Node", "ReplicaSet", "Event"}
    /\ object.kind = "Node" => object \in NodeSoFar
    /\ object.kind = "Event" => object \in EventSoFar /\ TwoWays(object)

LEMMA FirstEvent ==
  ASSUME now \in Nat, NEW event \in Event(now)
  PROVE  event \in EventSoFar /\ TwoWays(event)
  BY PodHealthAssumption DEF Event, EventSoFar, TwoWays

LEMMA EntityInitInv == EntityInit => EntityInv
  <1> SUFFICES ASSUME EntityInit PROVE EntityInv
    OBVIOUS
  <1>1. PodInv /\ now \in Nat
    BY PodInit, PodFields DEF EntityInit
  <1>2. CASE object = Absent
    BY <1>1, <1>2 DEF Absent, EntityInv
  <1>3. CASE object \in Node
    BY <1>1, <1>3 DEF Node, NodeSoFar, EntityInv
  <1>4. CASE object \in ReplicaSet
    BY <1>1, <1>4 DEF ReplicaSet, EntityInv
  <1>5. CASE object \in Event(now)
    <2>1. object \in EventSoFar /\ TwoWays(object)
      BY <1>1, <1>5, FirstEvent
    <2>2. object.kind = "Event"
      BY <2>1 DEF EventSoFar
    <2> QED  BY <1>1, <2>1, <2>2 DEF EntityInv
  <1> QED  BY <1>2, <1>3, <1>4, <1>5 DEF EntityInit

LEMMA EntityStep == EntityInv /\ [EntityNext]_<<vars, object>> => EntityInv'
  <1> SUFFICES ASSUME EntityInv, [EntityNext]_<<vars, object>> PROVE EntityInv'
    OBVIOUS
  <1>a. now \in Nat
    BY PodFields DEF EntityInv
  <1>1. CASE Tick /\ UNCHANGED object
    <2>1. PodInv'
      BY <1>1, PodStep DEF EntityInv
    <2>2. now' = now + 1
      BY <1>1 DEF Tick
    <2>3. object.kind = "Event" => TwoWays(object)'
      BY <1>a, <1>1, <2>2 DEF EntityInv, TwoWays, EventSoFar
    <2> QED  BY <1>1, <2>1, <2>3 DEF EntityInv
  <1>2. CASE Flips
    <2>1. PodInv' /\ now' = now /\ object.kind = "Node" /\ object \in NodeSoFar
      BY <1>2 DEF Flips, EntityInv, PodInv
    <2>2. PICK t \in ConditionType, s \in {"True", "False", "Unknown"} :
            object' = [object EXCEPT !.conditions[t] = [status |-> s, since |-> now]]
      BY <1>2 DEF Flips
    <2>3. object' \in NodeSoFar
      BY <1>a, <2>1, <2>2 DEF NodeSoFar
    <2> QED  BY <2>1, <2>3 DEF EntityInv, NodeSoFar
  <1>3. CASE Recurs
    <2>1. PodInv' /\ now' = now /\ object.kind = "Event" /\ object \in EventSoFar
          /\ TwoWays(object)
      BY <1>3 DEF Recurs, EntityInv, PodInv
    <2>2. CASE /\ object.Count \in 1..(MaxCount - 1)
               /\ object' = [object EXCEPT !.Count = object.Count + 1, !.LastTimestamp = now]
      <3>1. object.Count \in Nat \ {0} /\ object.Count + 1 \in Nat \ {0}
        BY <2>1, <2>2 DEF EventSoFar
      <3>2. object' \in EventSoFar
        BY <1>a, <2>1, <2>2, <3>1 DEF EventSoFar
      <3>3. /\ object'.Count = object.Count + 1 /\ object'.LastTimestamp = now
            /\ object'.EventTime = object.EventTime /\ object'.Series = object.Series
            /\ object'.FirstTimestamp = object.FirstTimestamp
        BY <2>1, <2>2 DEF EventSoFar
      <3>4. TwoWays(object)'
        <4>1. object.FirstTimestamp \in Nat /\ object.LastTimestamp \in Nat
          BY <2>1, <3>1 DEF TwoWays, EventSoFar
        <4> QED  BY <1>a, <2>1, <3>1, <3>3, <4>1, PodHealthAssumption DEF TwoWays
      <3> QED  BY <2>1, <3>2, <3>4 DEF EntityInv, EventSoFar
    <2>3. CASE /\ object.EventTime # None
               /\ object' = [object EXCEPT !.Series =
                                [LastObservedTime |-> now, Count |-> countOf(object) + 1]]
      <3>1. countOf(object) \in Nat
        BY <2>1, <2>3, PodHealthAssumption DEF EventSoFar, TwoWays, countOf, seriesTells
      <3> QED
        BY <1>a, <2>1, <2>3, <3>1, PodHealthAssumption DEF EventSoFar, TwoWays, EntityInv
    <2> QED  BY <1>3, <2>2, <2>3 DEF Recurs
  <1>4. CASE UNCHANGED <<vars, object>>
    BY <1>4 DEF vars, EntityInv, PodInv, TwoWays
  <1> QED  BY <1>1, <1>2, <1>3, <1>4 DEF EntityNext
\* Whatever node, replica set or event is looked at, the clock is the pods'.
LEMMA EntitiesKeepTheClock == EntitySpec => Spec
  <1>1. EntityInit => Init
    BY DEF EntityInit
  <1>2. [EntityNext]_<<vars, object>> => [Tick]_vars
    BY DEF EntityNext, Flips, Recurs, vars
  <1> QED  BY <1>1, <1>2, PTL DEF EntitySpec, Spec

\* A node with a condition that has failed for a minute, or a resource in
\* excessive use, is never silent: whatever is left out for the sake of
\* something else, the something else is told (state.go:310-360).
THEOREM TroubledNodeIsTold == EntitySpec => []NodeTroubleIsTold
  <1>1. EntityInv => NodeTroubleIsTold
    <2> SUFFICES ASSUME EntityInv, object.kind = "Node", messages(object, now) = {}
                 PROVE  /\ \A t \in ConditionType :
                            failing(object, t) => now - object.conditions[t].since < Minute
                        /\ \A r \in Resource : ~ excessive(object.resources[r])
      BY DEF NodeTroubleIsTold
    <2> DEFINE told == {t \in ConditionType :
                          /\ failing(object, t)
                          /\ now - object.conditions[t].since >= Minute}
    <2>1. nodeState(object, now) = {}
      BY DEF messages
    <2>2. told = {}
      <3>1. ASSUME told # {} PROVE FALSE
        <4>1. nodeState(object, now)
                = {conditionMessage(t, object.conditions[t].since, now) : t \in told}
          BY <3>1 DEF nodeState
        <4> QED  BY <2>1, <3>1, <4>1
      <3> QED  BY <3>1
    <2>3. ASSUME NEW t \in ConditionType, failing(object, t)
          PROVE  now - object.conditions[t].since < Minute
      <3>1. now \in Nat /\ object.conditions[t].since \in Nat
        BY PodFields DEF EntityInv, NodeSoFar
      <3> QED  BY <2>2, <2>3, <3>1, PodHealthAssumption
    <2>4. {formatResourceUsage(r, object.resources[r]) :
             r \in {s \in Resource : excessive(object.resources[s])}} = {}
      BY <2>1, <2>2 DEF nodeState
    <2> QED  BY <2>3, <2>4
  <1> QED  BY <1>1, EntityInitInv, EntityStep, PTL DEF EntitySpec

\* The grace for events of a new entity hides no event that occurred after it:
\* the instant that is compared is the latest of those that the client reports,
\* in whichever of its two ways (state.go:403-488, diag.go:53-67).
THEOREM LateEventIsNotForgiven == EntitySpec => []LateEventIsTold
  <1>1. EntityInv => LateEventIsTold
    <2> SUFFICES ASSUME EntityInv, object.kind = "Event", ~ object.harmless,
                        messages(object, now) = {},
                        NEW t \in {object.FirstTimestamp, object.LastTimestamp,
                                   object.EventTime}
                                  \cup (IF object.Series = None THEN {}
                                        ELSE {object.Series.LastObservedTime}),
                        t # None
                 PROVE  t - object.created < EventGrace
      BY DEF LateEventIsTold
    <2>1. object \in EventSoFar /\ TwoWays(object)
      BY DEF EntityInv
    <2>2. forgiven(object)
      <3>1. eventState(object, now) = {}
        BY DEF messages
      <3> QED  BY <3>1 DEF eventState
    <2>3. /\ object.created \in Nat
          /\ lastTimestamp(object) # None
          /\ lastTimestamp(object) - object.created < EventGrace
      BY <2>1, <2>2 DEF forgiven, EventSoFar
    <2>4. lastTimestamp(object) \in Nat /\ t \in Nat /\ t <= lastTimestamp(object)
      <3>1. CASE object.Series = None
        BY <2>1, <2>3, <3>1 DEF lastTimestamp, seriesTells, TwoWays, EventSoFar
      <3>2. CASE object.Series # None
        <4>1. /\ object.Series \in [LastObservedTime : Nat, Count : Nat]
              /\ lastTimestamp(object) = object.Series.LastObservedTime
          BY <2>1, <3>2, PodHealthAssumption DEF lastTimestamp, seriesTells, EventSoFar
        <4>2. object.EventTime \in Nat /\ object.EventTime <= object.Series.LastObservedTime
              /\ object.FirstTimestamp = None /\ object.LastTimestamp = None
          BY <2>1, <3>2 DEF TwoWays, EventSoFar
        <4> QED  BY <3>2, <4>1, <4>2
      <3> QED  BY <3>1, <3>2
    <2> QED  BY <2>3, <2>4, EntityHealthAssumption
  <1> QED  BY <1>1, EntityInitInv, EntityStep, PTL DEF EntitySpec

=============================================================================
