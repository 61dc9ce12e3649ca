----------------------------- MODULE Diagnosis -----------------------------
(***************************************************************************)
(* diag.DiagnoseCluster for one cluster: the API calls that collect what   *)
(* the cluster looks like, each at an instant of its own and each liable   *)
(* to fail, and the walk over what was collected that decides, message by  *)
(* message, what is new.                                                   *)
(*                                                                         *)
(* What podState, nodeState, replicaSetState and eventState make of an API *)
(* object is the choice of the messages it yields; module PodHealth has    *)
(* the rules for pods.  The lists of the API server and the maps of the    *)
(* code are walked in any order.                                           *)
(***************************************************************************)
EXTENDS Observation

CONSTANTS
    Namespace,          \* namespaces of the cluster
    Included, Excluded, \* the filters of the configuration
    KindOf,             \* the kind of an entity
    NamespaceOf,        \* the namespace that lists an entity, or an event
    Early               \* events whose last occurrence is within five seconds
                        \* of the creation of their entity

Kinds == {"Pod", "ReplicaSet", "Node", "Other"}

\* The store that the code is handed is that of the one cluster.
ASSUME DiagnosisAssumption ==
    /\ \E c \in Cluster : Cluster = {c}
    /\ None \notin Entity
    /\ Included \subseteq Namespace
    /\ Excluded \subseteq Namespace
    /\ KindOf \in [Entity -> Kinds]
    /\ Inspected = {e \in Entity : KindOf[e] # "Other"}
    /\ NamespaceOf \in [Entity \cup Event -> Namespace]
    /\ Early \subseteq Event

\* The instant of the execution.
Now == MaxTime

VARIABLES
    pc,
    todo,           \* namespaces still to be read
    namespace,      \* the namespace being read
    failed,         \* whether aggregatedError is set
    statesByName,   \* entities with a state, not yet handled
    messages,       \* the messages of all states
    eventsByName,   \* the events with a message, whose entity is not yet handled
    entity,         \* the entity in work
    pending,        \* its messages or events that TryAdd has not seen yet
    fresh,          \* those it found new
    book,           \* the cluster's store
    alerts,         \* the alerts so far
    opened,         \* history: the store as it was handed over
    seen            \* history: the messages and events that were collected

vars == <<pc, todo, namespace, failed, statesByName, messages, eventsByName,
          entity, pending, fresh, book, alerts, opened, seen>>

PCs == {"namespaces", "namespace", "pods", "replicaSets", "states", "messages",
        "events", "standalone", "done"}

Alert == [entity : Entity, messages : SUBSET Key, events : SUBSET Key]

TypeOK ==
    /\ pc \in PCs
    /\ todo \subseteq Namespace
    /\ namespace \in Namespace \cup {None}
    /\ failed \in BOOLEAN
    /\ statesByName \subseteq Inspected
    /\ messages \subseteq Key \ Event
    /\ eventsByName \subseteq Event
    /\ entity \in Entity \cup {None}
    /\ pending \subseteq Key
    /\ fresh \subseteq Key
    /\ book \in Book
    /\ alerts \subseteq Alert
    /\ opened \in Book
    /\ seen \subseteq Key

\* The store holds instants of earlier executions, and was pruned for this
\* cluster just before (kubescout.go:68).
Init ==
    /\ pc = "namespaces"
    /\ todo = {}
    /\ namespace = None
    /\ failed = FALSE
    /\ statesByName = {}
    /\ messages = {}
    /\ eventsByName = {}
    /\ entity = None
    /\ pending = {}
    /\ fresh = {}
    /\ \E b \in [Key -> (Time \ {Now}) \cup {None}], c \in Cluster :
           opened = GetClusterStore(b, c, Now)
    /\ book = opened
    /\ alerts = {}
    /\ seen = {}

-----------------------------------------------------------------------------
(* Collecting *)

collecting == <<todo, namespace, failed, statesByName, messages, eventsByName, seen>>
handling == <<entity, pending, fresh, book, alerts, opened>>

isNamespaceRelevant(n) ==
    /\ Included # {} => n \in Included
    /\ n \notin Excluded
\* Slip: a list is not told apart by the kind of its objects.
SlipAnyKind(kind) == Entity

OfKind(kind) == {e \in Entity : KindOf[e] = kind}

ListedIn(n) == {e \in Entity : NamespaceOf[e] = n}

MessagesOf(es) == {k \in Key \ Event : EntityOf[k] \in es}

\* Without the namespaces there is nothing to go on with.
GetNamespacesFails ==
    /\ pc = "namespaces"
    /\ failed' = TRUE
    /\ pc' = "done"
    /\ UNCHANGED <<todo, namespace, statesByName, messages, eventsByName, seen, handling>>

GetNamespaces ==
    /\ pc = "namespaces"
    /\ todo' = {n \in Namespace : isNamespaceRelevant(n)}
    /\ pc' = "namespace"
    /\ UNCHANGED <<namespace, failed, statesByName, messages, eventsByName, seen, handling>>

\* The events are the first thing read in a namespace.  Healthy ones leave an
\* entry without a message, which is dropped wherever it is looked at.
GetEvents ==
    /\ pc = "namespace"
    /\ \E n \in todo :
        /\ \E found \in SUBSET {k \in Event : NamespaceOf[k] = n} :
            /\ eventsByName' = eventsByName \cup found
            /\ seen' = seen \cup found
        /\ namespace' = n
        /\ todo' = todo \ {n}
    /\ pc' = "pods"
    /\ UNCHANGED <<failed, statesByName, messages, handling>>

GetEventsFails ==
    /\ pc = "namespace"
    /\ \E n \in todo :
        /\ namespace' = n
        /\ todo' = todo \ {n}
    /\ failed' = TRUE
    /\ pc' = "pods"
    /\ UNCHANGED <<statesByName, messages, eventsByName, seen, handling>>

\* The objects of a list get their states, with or without messages.
AddStates(es) ==
    \E listed \in SUBSET es : \E ms \in SUBSET MessagesOf(listed) :
        /\ statesByName' = statesByName \cup listed
        /\ messages' = messages \cup ms
        /\ seen' = seen \cup ms

GetPods ==
    /\ pc = "pods"
    /\ AddStates(OfKind("Pod") \cap ListedIn(namespace))
    /\ pc' = "replicaSets"
    /\ UNCHANGED <<todo, namespace, failed, eventsByName, handling>>

GetPodsFails ==
    /\ pc = "pods"
    /\ failed' = TRUE
    /\ pc' = "replicaSets"
    /\ UNCHANGED <<todo, namespace, statesByName, messages, eventsByName, seen, handling>>

GetReplicaSets ==
    /\ pc = "replicaSets"
    /\ AddStates(OfKind("ReplicaSet") \cap ListedIn(namespace))
    /\ pc' = "namespace"
    /\ UNCHANGED <<todo, namespace, failed, eventsByName, handling>>

GetReplicaSetsFails ==
    /\ pc = "replicaSets"
    /\ failed' = TRUE
    /\ pc' = "namespace"
    /\ UNCHANGED <<todo, namespace, statesByName, messages, eventsByName, seen, handling>>
\* Slip: errors of earlier calls are forgotten when the nodes are read.
SlipNodesForgetErrors ==
    /\ pc = "namespace"
    /\ todo = {}
    /\ AddStates(OfKind("Node"))
    /\ pc' = "states"
    /\ UNCHANGED <<todo, namespace, failed, eventsByName, handling>>

\* The nodes come last.  Whatever failed, the whole diagnosis fails with it.
GetNodes ==
    /\ pc = "namespace"
    /\ todo = {}
    /\ AddStates(OfKind("Node"))
    /\ pc' = IF failed THEN "done" ELSE "states"
    /\ UNCHANGED <<todo, namespace, failed, eventsByName, handling>>

GetNodesFails ==
    /\ pc = "namespace"
    /\ todo = {}
    /\ failed' = TRUE
    /\ pc' = "done"
    /\ UNCHANGED <<todo, namespace, statesByName, messages, eventsByName, seen, handling>>

-----------------------------------------------------------------------------
(* Handling *)

EventsOf(e) == {k \in eventsByName : EntityOf[k] = e}

\* Events in the first seconds of an entity with a known creation time are not
\* held against it; without a state the creation time is not known.
unhealthyEvents(e) == EventsOf(e) \ Early

\* A state is unhealthy by its messages, a Node by its events as well.
isHealthy(e) ==
    /\ messages \cap MessagesOf({e}) = {}
    /\ KindOf[e] = "Node" => unhealthyEvents(e) = {}
\* The entity is done with, and its events go with it.
Leave(e, next) ==
    /\ statesByName' = statesByName \ {e}
    /\ eventsByName' = eventsByName \ EventsOf(e)
    /\ entity' = None
    /\ pending' = {}
    /\ fresh' = {}
    /\ pc' = next

SkipHealthy ==
    /\ pc = "states"
    /\ \E e \in statesByName : isHealthy(e) /\ Leave(e, "states")
    /\ UNCHANGED <<todo, namespace, failed, messages, seen, book, alerts, opened>>

HandleState ==
    /\ pc = "states"
    /\ \E e \in statesByName :
        /\ ~ isHealthy(e)
        /\ entity' = e
        /\ pending' = messages \cap MessagesOf({e})
    /\ pc' = "messages"
    /\ UNCHANGED <<collecting, fresh, book, alerts, opened>>

\* One call of ClusterStore.TryAdd.
TryAdd(k) ==
    /\ \/ Adds(book, k, Now) /\ book' = Recorded(book, {k}, Now) /\ fresh' = fresh \cup {k}
       \/ Skips(book, k, Now) /\ UNCHANGED <<book, fresh>>
    /\ pending' = pending \ {k}

TryAddMessage ==
    /\ pc = "messages"
    /\ \E k \in pending : TryAdd(k)
    /\ UNCHANGED <<pc, collecting, entity, alerts, opened>>

\* No message is new: the events are not even offered.
Deduped ==
    /\ pc = "messages"
    /\ pending = {}
    /\ fresh = {}
    /\ Leave(entity, "states")
    /\ UNCHANGED <<todo, namespace, failed, messages, seen, book, alerts, opened>>
\* Slip: the events are offered even if no message is new.
SlipAlwaysOffersEvents ==
    /\ pc = "messages"
    /\ pending = {}
    /\ pending' = unhealthyEvents(entity)
    /\ pc' = "events"
    /\ UNCHANGED <<collecting, entity, fresh, book, alerts, opened>>

GoOnToEvents ==
    /\ pc = "messages"
    /\ pending = {}
    /\ fresh # {}
    /\ pending' = unhealthyEvents(entity)
    /\ pc' = "events"
    /\ UNCHANGED <<collecting, entity, fresh, book, alerts, opened>>

TryAddEvent ==
    /\ pc \in {"events", "standalone"}
    /\ \E k \in pending : TryAdd(k)
    /\ UNCHANGED <<pc, collecting, entity, alerts, opened>>

AlertOf(e) == [entity |-> e, messages |-> fresh \ Event, events |-> fresh \cap Event]

AlertState ==
    /\ pc = "events"
    /\ pending = {}
    /\ alerts' = alerts \cup {AlertOf(entity)}
    /\ Leave(entity, "states")
    /\ UNCHANGED <<todo, namespace, failed, messages, seen, book, opened>>

StatesDone ==
    /\ pc = "states"
    /\ statesByName = {}
    /\ pc' = "standalone"
    /\ UNCHANGED <<collecting, handling>>

\* Events without a state.  Those of the inspected kinds are dropped.
DropEvents ==
    /\ pc = "standalone"
    /\ entity = None
    /\ \E e \in Inspected : EventsOf(e) # {} /\ Leave(e, "standalone")
    /\ UNCHANGED <<todo, namespace, failed, messages, seen, book, alerts, opened>>

HandleStandaloneEvents ==
    /\ pc = "standalone"
    /\ entity = None
    /\ \E e \in Entity \ Inspected :
        /\ EventsOf(e) # {}
        /\ entity' = e
        /\ pending' = EventsOf(e)
    /\ UNCHANGED <<pc, collecting, fresh, book, alerts, opened>>

AlertStandalone ==
    /\ pc = "standalone"
    /\ entity # None
    /\ pending = {}
    /\ alerts' = alerts \cup (IF fresh = {} THEN {} ELSE {AlertOf(entity)})
    /\ Leave(entity, "standalone")
    /\ UNCHANGED <<todo, namespace, failed, messages, seen, book, opened>>

Done ==
    /\ pc = "standalone"
    /\ entity = None
    /\ eventsByName = {}
    /\ pc' = "done"
    /\ UNCHANGED <<collecting, handling>>

Collect ==
    \/ GetNamespaces \/ GetNamespacesFails
    \/ GetEvents \/ GetEventsFails
    \/ GetPods \/ GetPodsFails
    \/ GetReplicaSets \/ GetReplicaSetsFails
    \/ GetNodes \/ GetNodesFails

Handle ==
    \/ SkipHealthy \/ HandleState \/ TryAddMessage \/ Deduped \/ GoOnToEvents
    \/ TryAddEvent \/ AlertState \/ StatesDone
    \/ DropEvents \/ HandleStandaloneEvents \/ AlertStandalone \/ Done

Next == Collect \/ Handle

Spec == Init /\ [][Next]_vars

-----------------------------------------------------------------------------
(* Properties *)

Told == UNION {a.messages \cup a.events : a \in alerts}

\* The early events of entities with a state do not count.
Counted == seen \ {k \in Early : EntityOf[k] \in Inspected}

\* A diagnosis that succeeds keeps the promise its caller relies on: what it
\* alerts is what is new among what it saw, and the store records exactly what
\* the alerts tell.  Nothing is recorded that no alert shows, although the code
\* records as it goes and may still drop the entity (diag.go:92-101).
KeepsPromise ==
    pc = "done" /\ ~ failed =>
        /\ Accepted(opened, Counted, Told, Now)
        /\ book = Recorded(opened, Told, Now)

\* A diagnosis that fails has neither recorded nor alerted anything, whichever
\* of its calls failed and however late: what the other calls returned will be
\* new again for the next execution.
FailureLeavesNoTrace == failed /\ pc = "done" => book = opened /\ alerts = {}

\* README.md:193 "Warning events on any entity": when the code is done with a node
\* that was listed, each event that made it unhealthy (diag.go:72-74) is told, or
\* it or its like is stored and still in grace.
NodeEventsAreTold ==
    [][\A e \in statesByName \ statesByName' : KindOf[e] = "Node" =>
        \A k \in unhealthyEvents(e) :
            \E j \in Key : Matches(j, k) /\ book[j] # None]_vars

=============================================================================
