---------------------------- MODULE Observation ----------------------------
(***************************************************************************)
(* What the diagnosis of one cluster (internal/diag) promises to its       *)
(* caller: given the messages and events it saw and the store it was       *)
(* handed, which of them become alerts and are recorded.  Scout uses the   *)
(* promise as a single step; Diagnosis has the steps that keep it.         *)
(***************************************************************************)
EXTENDS Store

CONSTANTS
    Event,      \* the keys that are messages of Kubernetes events
    Inspected   \* the entities of kind Pod, Node or ReplicaSet

\* Only entities of the inspected kinds get messages of their own
\* (podState, nodeState, replicaSetState); all others are known by events.
ASSUME ObservationAssumption ==
    /\ Event \subseteq Key
    /\ Inspected \subseteq Entity
    /\ \A k \in Key \ Event : EntityOf[k] \in Inspected

\* Everything the diagnosis of cluster c may see.  What persists it always sees.
Sightings(c, persisting) ==
    {seen \in SUBSET KeysOf(c) : persisting \cap KeysOf(c) \subseteq seen}

\* The keys that TryAdd accepts when it is offered each of a set, in any order,
\* by a diagnosis whose cluster store has just been pruned.  A key that is not
\* accepted has a likeness that is stored and still in grace, or one that was
\* accepted before it in the same diagnosis.
AcceptedOf(book, offered, added, now) ==
    /\ added \subseteq offered
    /\ \A k \in added :
        /\ Adds(book, k, now)
        /\ DedupDuration > 0 => \A j \in added \ {k} : ~ Matches(j, k)
    /\ \A k \in offered \ added :
        \/ Skips(book, k, now)
        \/ DedupDuration > 0 /\ \E j \in added : Matches(j, k)

\* The events that are offered to the store at all: those of an inspected
\* entity only if one of its messages was new (diag.go:99-101), or if the
\* entity is of another kind (diag.go:123-125).
OfferedEvents(seen, addedMessages) ==
    {k \in seen \cap Event :
        EntityOf[k] \in Inspected =>
            \E m \in addedMessages : EntityOf[m] = EntityOf[k]}

\* The messages of an entity are offered first, its events afterwards.
Accepted(book, seen, added, now) ==
    LET addedMessages == added \ Event
        addedEvents == added \cap Event
    IN  /\ AcceptedOf(book, seen \ Event, addedMessages, now)
        /\ AcceptedOf(Recorded(book, addedMessages, now),
                      OfferedEvents(seen, addedMessages), addedEvents, now)

=============================================================================
