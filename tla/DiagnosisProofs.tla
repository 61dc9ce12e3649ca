-------------------------- MODULE DiagnosisProofs --------------------------
(***************************************************************************)
(* Theorems about Diagnosis, for any cluster, any store it may be handed,  *)
(* any filters and any calls that fail: its types; that a diagnosis that   *)
(* fails has done nothing; and that one that succeeds keeps the promise of *)
(* Observation, which module Scout takes for a single step.                *)
(***************************************************************************)
EXTENDS Diagnosis, TLAPS

-----------------------------------------------------------------------------
(* Types *)

\* What is being handled belongs to an entity.
TypeInv == TypeOK /\ (pc \in {"messages", "events"} => entity # None)

\* Recording and opening yield a book.
LEMMA BookType ==
  ASSUME NEW b \in Book
  PROVE  /\ \A added : Recorded(b, added, Now) \in Book
         /\ \A c : GetClusterStore(b, c, Now) \in Book
  BY StoreAssumption DEF Recorded, GetClusterStore, Book, Time, Now

LEMMA TypeInit == Init => TypeInv
  <1> SUFFICES ASSUME Init PROVE opened \in Book /\ book \in Book
    BY DEF Init, TypeInv, TypeOK, PCs
  <1>1. PICK b \in [Key -> (Time \ {Now}) \cup {None}], c \in Cluster :
          opened = GetClusterStore(b, c, Now)
    BY DEF Init
  <1>2. b \in Book
    BY DEF Book
  <1> QED  BY <1>1, <1>2, BookType DEF Init

\* The states of a list are of inspected entities.
LEMMA AddStatesType ==
  ASSUME TypeOK, NEW es \in SUBSET Inspected, AddStates(es)
  PROVE  /\ statesByName' \subseteq Inspected
         /\ messages' \subseteq Key \ Event
         /\ seen' \subseteq Key
  BY DEF AddStates, MessagesOf, TypeOK

LEMMA OfKindType == \A kind \in Kinds \ {"Other"} : OfKind(kind) \subseteq Inspected
  BY DiagnosisAssumption DEF OfKind

LEMMA LeaveType ==
  ASSUME TypeOK, NEW e, NEW next \in PCs \ {"messages", "events"}, Leave(e, next),
         UNCHANGED <<todo, namespace, failed, messages, seen, book, opened>>,
         alerts' \subseteq Alert
  PROVE  TypeInv'
  BY DEF TypeInv, TypeOK, Leave, PCs

LEMMA TryAddType ==
  ASSUME TypeOK, NEW k \in pending, TryAdd(k)
  PROVE  pending' \subseteq Key /\ fresh' \subseteq Key /\ book' \in Book
  BY BookType DEF TypeOK, TryAdd

LEMMA AlertType ==
  ASSUME TypeOK, entity # None
  PROVE  alerts \cup {AlertOf(entity)} \subseteq Alert
  BY ObservationAssumption DEF TypeOK, AlertOf, Alert

LEMMA TypeStep == TypeInv /\ [Next]_vars => TypeInv'
  <1> SUFFICES ASSUME TypeInv, [Next]_vars PROVE TypeInv'
    OBVIOUS
  <1>a. TypeOK
    BY DEF TypeInv
  <1> USE DEF handling, collecting
  <1>1. CASE GetNamespaces \/ GetNamespacesFails
    BY <1>1, <1>a DEF GetNamespaces, GetNamespacesFails, TypeInv, TypeOK, PCs
  <1>2. CASE GetEvents \/ GetEventsFails
    BY <1>2, <1>a, ObservationAssumption
    DEF GetEvents, GetEventsFails, TypeInv, TypeOK, PCs
  <1>3. CASE GetPods \/ GetReplicaSets \/ GetNodes
    <2>1. /\ statesByName' \subseteq Inspected
          /\ messages' \subseteq Key \ Event
          /\ seen' \subseteq Key
      BY <1>3, <1>a, AddStatesType, OfKindType DEF GetPods, GetReplicaSets, GetNodes, Kinds
    <2> QED  BY <1>3, <1>a, <2>1
             DEF GetPods, GetReplicaSets, GetNodes, TypeInv, TypeOK, PCs
  <1>4. CASE GetPodsFails \/ GetReplicaSetsFails \/ GetNodesFails
    BY <1>4, <1>a DEF GetPodsFails, GetReplicaSetsFails, GetNodesFails, TypeInv, TypeOK, PCs
  <1>5. CASE SkipHealthy \/ Deduped \/ DropEvents
    BY <1>5, <1>a, LeaveType DEF SkipHealthy, Deduped, DropEvents, TypeOK, PCs
  <1>6. CASE HandleState
    BY <1>6, <1>a, ObservationAssumption, DiagnosisAssumption
    DEF HandleState, MessagesOf, TypeInv, TypeOK, PCs
  <1>7. CASE TryAddMessage \/ TryAddEvent
    <2>1. pending' \subseteq Key /\ fresh' \subseteq Key /\ book' \in Book
      BY <1>7, <1>a, TryAddType DEF TryAddMessage, TryAddEvent
    <2> QED  BY <1>7, <1>a, <2>1 DEF TryAddMessage, TryAddEvent, TypeInv, TypeOK
  <1>8. CASE GoOnToEvents
    BY <1>8, <1>a, ObservationAssumption
    DEF GoOnToEvents, unhealthyEvents, EventsOf, TypeInv, TypeOK, PCs
  <1>9. CASE AlertState \/ AlertStandalone
    <2>1. entity # None
      BY <1>9 DEF AlertState, AlertStandalone, TypeInv
    <2>2. alerts' \subseteq Alert
      BY <1>9, <1>a, <2>1, AlertType DEF AlertState, AlertStandalone, TypeOK
    <2> QED  BY <1>9, <1>a, <2>2, LeaveType DEF AlertState, AlertStandalone, PCs
  <1>10. CASE StatesDone \/ Done
    BY <1>10, <1>a DEF StatesDone, Done, TypeInv, TypeOK, PCs
  <1>11. CASE HandleStandaloneEvents
    BY <1>11, <1>a, ObservationAssumption
    DEF HandleStandaloneEvents, EventsOf, TypeInv, TypeOK
  <1>12. CASE UNCHANGED vars
    BY <1>12, <1>a DEF vars, TypeInv, TypeOK
  <1> QED  BY <1>1, <1>2, <1>3, <1>4, <1>5, <1>6, <1>7, <1>8, <1>9, <1>10, <1>11, <1>12
           DEF Next, Collect, Handle

\* Whatever the calls return, and in whichever order the maps are walked, the
\* state of a diagnosis is of its type.
THEOREM DiagnosisIsTyped == Spec => []TypeOK
  <1> QED  BY TypeInit, TypeStep, PTL DEF Spec, TypeInv

-----------------------------------------------------------------------------
(* The inductive invariant.                                                *)
(*                                                                         *)
(* KeepsPromise speaks of the end.  Inductive is what holds key by key on  *)
(* the way there.  Taken are the keys that TryAdd has accepted; a message  *)
(* or event is settled when it was taken, or when it is like one that was  *)
(* stored or taken before it; and each that was collected is still to be   *)
(* offered, or is settled, or is one that need not be offered.             *)

Collecting == pc \in {"namespaces", "namespace", "pods", "replicaSets"}

Taken == Told \cup fresh

\* Nothing is recorded or alerted before everything has been collected.
Untouched ==
    /\ failed => Collecting \/ pc = "done"
    /\ Collecting \/ failed =>
         book = opened /\ alerts = {} /\ entity = None /\ pending = {} /\ fresh = {}

\* The entity in work has what it needs for its place in the code.
Working ==
    /\ entity = None => pending = {} /\ fresh = {}
    /\ pc = "states" => entity = None
    /\ pc = "messages" =>
         /\ entity \in statesByName
         /\ pending \subseteq messages \cap MessagesOf({entity})
         /\ fresh \subseteq MessagesOf({entity})
    /\ pc = "events" =>
         /\ entity \in statesByName
         /\ pending \subseteq unhealthyEvents(entity)
         /\ \E m \in fresh \ Event : EntityOf[m] = entity
    /\ pc = "standalone" =>
         /\ statesByName = {}
         /\ entity \notin Inspected
         /\ pending \subseteq EventsOf(entity)
    /\ pc = "done" /\ ~ failed => statesByName = {} /\ eventsByName = {} /\ entity = None

\* What is in work was collected, and what was collected has an owner.
Collected ==
    /\ messages = seen \ Event
    /\ eventsByName \subseteq seen
    /\ Collecting => /\ eventsByName = seen \cap Event
                     /\ \A k \in messages : EntityOf[k] \in statesByName

\* The store pruned for this diagnosis holds nothing that has expired.
FreshBook(b) == DedupDuration > 0 => \A k \in Key : b[k] # None => InGrace(b[k], Now)

\* The store as it was opened, and what was taken, is what is recorded.
RecordsTaken == FreshBook(opened) /\ book = Recorded(opened, Taken, Now)

\* No key was taken that is like another, or like one that was stored.
NoneAlike ==
    DedupDuration > 0 =>
        \A k \in Taken, j \in Key :
            Matches(j, k) => opened[j] = None /\ (j \in Taken => j = k)

\* What was taken was collected, and the events among it with a message.
TakenWereOffered ==
    /\ Taken \subseteq Counted
    /\ Taken \cap Event \subseteq OfferedEvents(Counted, Taken \ Event)

\* The fresh keys are of the entity in work, the told of entities done with.
TakenAreOwned ==
    /\ \A k \in fresh : EntityOf[k] = entity
    /\ \A k \in Told : EntityOf[k] \notin statesByName /\ EventsOf(EntityOf[k]) = {}

\* The key is like one that was stored, or is among the told.
Silenced(k, told) ==
    DedupDuration > 0 /\ \E j \in Key : Matches(j, k) /\ (opened[j] # None \/ j \in told)

\* A message is to be offered as long as its entity has its state, and by the
\* entity in work as long as it is pending.
MessagesSettled ==
    \A k \in messages :
        \/ EntityOf[k] \in statesByName /\ (EntityOf[k] = entity => k \in pending)
        \/ k \in Taken
        \/ Silenced(k, Taken \ Event)

\* An event is to be offered as long as it is there.  It need not be offered if
\* no message of its inspected entity was taken, and none will be.
EventsAnswered ==
    \A k \in seen \cap Event :
        \/ k \in eventsByName
           /\ (EntityOf[k] = entity /\ pc \in {"events", "standalone"} => k \in pending)
        \/ EntityOf[k] \in Inspected
           /\ \/ k \in Early
              \/ \A m \in Taken \ Event : EntityOf[m] # EntityOf[k]
        \/ k \in Taken
        \/ Silenced(k, Taken)

\* An entity whose state is still there has its events still.
EventsStay ==
    \A k \in seen \cap Event : EntityOf[k] \in statesByName => k \in eventsByName

PromiseInv ==
    /\ Untouched
    /\ Working
    /\ Collected
    /\ RecordsTaken
    /\ NoneAlike
    /\ TakenWereOffered
    /\ TakenAreOwned
    /\ MessagesSettled
    /\ EventsAnswered
    /\ EventsStay

-----------------------------------------------------------------------------
(* What TryAdd answers. *)

\* Of two like keys each is like the other, and both are of one entity.
LEMMA MatchesBothWays ==
  ASSUME NEW j \in Key, NEW k \in Key, Matches(j, k)
  PROVE  Matches(k, j) /\ EntityOf[j] = EntityOf[k]
  BY StoreAssumption DEF Matches

\* A store that was opened for the one cluster is fresh.
LEMMA OpenedIsFresh == Init => FreshBook(opened)
  <1> SUFFICES ASSUME Init, DedupDuration > 0, NEW k \in Key, opened[k] # None
               PROVE  InGrace(opened[k], Now)
    BY DEF FreshBook
  <1>1. PICK b \in [Key -> (Time \ {Now}) \cup {None}], c \in Cluster :
          opened = GetClusterStore(b, c, Now)
    BY DEF Init
  <1>2. k \in KeysOf(c)
    BY StoreAssumption, DiagnosisAssumption DEF KeysOf
  <1>3. opened[k] = b[k] /\ ~ Expired(b[k], Now) /\ b[k] \in Int /\ Now \in Int
    BY <1>1, <1>2, StoreAssumption DEF GetClusterStore, Time, Now
  <1> QED  BY <1>3, StoreAssumption DEF Expired, InGrace

\* On a fresh book TryAdd answers "told" just for what is like a record, whichever
\* record its search meets.
LEMMA FreshDecides ==
  ASSUME NEW b \in Book, FreshBook(b), NEW k \in Key
  PROVE  LET silent == DedupDuration > 0 /\ \E j \in Key : Matches(j, k) /\ b[j] # None
         IN  Skips(b, k, Now) = silent /\ Adds(b, k, Now) = ~ silent
  <1> DEFINE silent == DedupDuration > 0 /\ \E j \in Key : Matches(j, k) /\ b[j] # None
  <1>1. \A j \in tryMatch(b, k) : j \in Key /\ Matches(j, k) /\ b[j] # None
    BY DEF tryMatch, Matches
  <1>2. (\E j \in Key : Matches(j, k) /\ b[j] # None) => tryMatch(b, k) # {}
    BY DEF tryMatch
  <1>3. DedupDuration > 0 => \A j \in tryMatch(b, k) : InGrace(b[j], Now)
    BY <1>1 DEF FreshBook
  <1>4. ~ DedupDuration > 0 => \A j \in tryMatch(b, k) : ~ InGrace(b[j], Now)
    BY DEF InGrace
  <1>5. Skips(b, k, Now) <=> silent
    BY <1>1, <1>2, <1>3, <1>4 DEF Skips
  <1>6. Adds(b, k, Now) <=> ~ silent
    BY <1>1, <1>2, <1>3, <1>4 DEF Adds
  <1>7. Skips(b, k, Now) \in BOOLEAN /\ Adds(b, k, Now) \in BOOLEAN
    BY DEF Skips, Adds
  <1> QED  BY <1>5, <1>6, <1>7

\* What a diagnosis records is of its own instant, so a fresh book stays fresh.
LEMMA RecordedIsFresh ==
  ASSUME NEW b \in Book, FreshBook(b), NEW added
  PROVE  FreshBook(Recorded(b, added, Now))
  <1>1. DedupDuration > 0 => InGrace(Now, Now)
    BY StoreAssumption DEF InGrace, Now
  <1> QED  BY <1>1 DEF FreshBook, Recorded

\* A call of TryAdd takes a key that is like none that was stored or taken, or
\* passes over one that is.
LEMMA TryAddAnswers ==
  ASSUME TypeOK, RecordsTaken, NEW k \in Key, TryAdd(k)
  PROVE  /\ pending' = pending \ {k}
         /\ \/ /\ fresh' = fresh \cup {k}
               /\ book' = Recorded(book, {k}, Now)
               /\ DedupDuration > 0 =>
                    \A j \in Key : Matches(j, k) => opened[j] = None /\ j \notin Taken
            \/ UNCHANGED <<book, fresh>> /\ Silenced(k, Taken)
  <1>1. opened \in Book /\ book \in Book /\ FreshBook(book)
    BY RecordedIsFresh DEF TypeOK, RecordsTaken
  <1>2. \A j \in Key : book[j] # None <=> opened[j] # None \/ j \in Taken
    BY StoreAssumption DEF RecordsTaken, Recorded, Now
  <1>3. Skips(book, k, Now) <=> Silenced(k, Taken)
    BY <1>1, <1>2, FreshDecides DEF Silenced
  <1>4. Adds(book, k, Now) <=> ~ Silenced(k, Taken)
    BY <1>1, <1>2, FreshDecides DEF Silenced
  <1> QED  BY <1>3, <1>4 DEF TryAdd, Silenced

-----------------------------------------------------------------------------
(* Collecting keeps the invariant: nothing is taken before it is over. *)

LEMMA NothingTakenYet ==
  ASSUME PromiseInv, Collecting
  PROVE  /\ book = opened /\ alerts = {} /\ entity = None /\ pending = {} /\ fresh = {}
         /\ Told = {} /\ Taken = {}
  BY DEF PromiseInv, Untouched, Told, Taken

\* A step that only collects, or ends without success, keeps the invariant.
LEMMA CollectStep ==
  ASSUME TypeInv, PromiseInv, Collect
  PROVE  PromiseInv'
  <1>a. TypeOK /\ RecordsTaken /\ Collected
    BY DEF TypeInv, PromiseInv
  <1>b. Collecting
    BY DEF Collect, GetNamespaces, GetNamespacesFails, GetEvents, GetEventsFails, GetPods,
           GetPodsFails, GetReplicaSets, GetReplicaSetsFails, GetNodes, GetNodesFails,
           Collecting
  <1>c. /\ book = opened /\ alerts = {} /\ entity = None /\ pending = {} /\ fresh = {}
        /\ Told = {} /\ Taken = {}
    BY <1>b, NothingTakenYet
  <1>d. UNCHANGED handling
    BY DEF Collect, GetNamespaces, GetNamespacesFails, GetEvents, GetEventsFails, GetPods,
           GetPodsFails, GetReplicaSets, GetReplicaSetsFails, GetNodes, GetNodesFails
  <1>e. Told' = {} /\ Taken' = {}
    BY <1>c, <1>d DEF handling, Told, Taken
  <1>f. \/ Collecting' \/ (pc' = "done" /\ failed')
        \/ pc' = "states" /\ ~ failed'
    BY DEF Collect, GetNamespaces, GetNamespacesFails, GetEvents, GetEventsFails, GetPods,
           GetPodsFails, GetReplicaSets, GetReplicaSetsFails, GetNodes, GetNodesFails,
           Collecting
  <1>1. Untouched'
    BY <1>c, <1>d, <1>f DEF handling, Untouched, Collecting
  <1>2. Working'
    BY <1>c, <1>d, <1>f DEF handling, Working, Collecting
  <1>3. /\ messages' = seen' \ Event
        /\ eventsByName' = seen' \cap Event
        /\ \A k \in messages' : EntityOf[k] \in statesByName'
    <2>1. /\ messages = seen \ Event
          /\ eventsByName = seen \cap Event
          /\ \A k \in messages : EntityOf[k] \in statesByName
      BY <1>a, <1>b DEF Collected
    <2>2. ASSUME NEW es, AddStates(es), eventsByName' = eventsByName
          PROVE  /\ messages' = seen' \ Event
                 /\ eventsByName' = seen' \cap Event
                 /\ \A k \in messages' : EntityOf[k] \in statesByName'
      BY <2>1, <2>2 DEF AddStates, MessagesOf
    <2>3. CASE GetPods \/ GetReplicaSets \/ GetNodes
      BY <2>2, <2>3 DEF GetPods, GetReplicaSets, GetNodes
    <2>4. CASE GetEvents
      BY <2>1, <2>4 DEF GetEvents
    <2>5. CASE \/ GetNamespaces \/ GetNamespacesFails \/ GetEventsFails
               \/ GetPodsFails \/ GetReplicaSetsFails \/ GetNodesFails
      BY <2>1, <2>5
      DEF GetNamespaces, GetNamespacesFails, GetEventsFails, GetPodsFails,
          GetReplicaSetsFails, GetNodesFails
    <2> QED  BY <2>3, <2>4, <2>5 DEF Collect
  <1>4. Collected'
    BY <1>3 DEF Collected
  <1>5. RecordsTaken'
    BY <1>a, <1>c, <1>d, <1>e DEF RecordsTaken, handling, FreshBook
  <1>6. NoneAlike' /\ TakenWereOffered' /\ TakenAreOwned'
    BY <1>c, <1>d, <1>e DEF NoneAlike, TakenWereOffered, TakenAreOwned, handling
  <1>7. MessagesSettled'
    <2>1. \A k \in messages' : EntityOf[k] \in Entity
      BY <1>3, ObservationAssumption, StoreAssumption, TypeStep DEF TypeInv, TypeOK, Next
    <2> QED  BY <1>3, <1>c, <1>d, <2>1, DiagnosisAssumption DEF MessagesSettled, handling
  <1>8. EventsAnswered' /\ EventsStay'
    <2>1. pc' \notin {"events", "standalone"}
      BY <1>f DEF Collecting
    <2> QED  BY <1>3, <2>1 DEF EventsAnswered, EventsStay
  <1> QED  BY <1>1, <1>2, <1>4, <1>5, <1>6, <1>7, <1>8 DEF PromiseInv

-----------------------------------------------------------------------------
(* Handling keeps the invariant. *)

\* An entity may be left when each of its messages and events is settled, and
\* what is fresh is told or there is nothing fresh.
LEMMA LeaveStep ==
  ASSUME TypeInv, PromiseInv, NEW e, NEW next \in {"states", "standalone"}, Leave(e, next),
         UNCHANGED <<todo, namespace, failed, messages, seen, book, opened>>,
         Told' = Taken,
         ~ failed, ~ Collecting, next = "standalone" => pc = "standalone",
         \A k \in fresh : EntityOf[k] = e,
         \A k \in messages \cap MessagesOf({e}) :
            k \in Taken \/ Silenced(k, Taken \ Event),
         \A k \in EventsOf(e) :
            \/ EntityOf[k] \in Inspected /\ k \in Early
            \/ EntityOf[k] \in Inspected /\ \A m \in Taken \ Event : EntityOf[m] # EntityOf[k]
            \/ k \in Taken
            \/ Silenced(k, Taken)
  PROVE  PromiseInv'
  <1> USE DEF PromiseInv
  <1>a. /\ pc' = next /\ entity' = None /\ pending' = {} /\ fresh' = {}
        /\ statesByName' = statesByName \ {e}
        /\ eventsByName' = eventsByName \ EventsOf(e)
        /\ Taken' = Taken /\ Counted' = Counted
    BY DEF Leave, Taken, Counted
  <1>b. None \notin Inspected /\ \A k \in Key : EntityOf[k] # None
    BY StoreAssumption, ObservationAssumption, DiagnosisAssumption
  <1>1. Untouched'
    BY <1>a DEF Untouched, Collecting
  <1>2. Working'
    BY <1>a, <1>b DEF Working
  <1>3. Collected'
    BY <1>a DEF Collected, Collecting
  <1>4. RecordsTaken' /\ NoneAlike' /\ TakenWereOffered'
    BY <1>a DEF RecordsTaken, FreshBook, NoneAlike, TakenWereOffered
  <1>5. TakenAreOwned'
    BY <1>a DEF TakenAreOwned, Taken, EventsOf
  <1>6. MessagesSettled'
    BY <1>a, <1>b DEF MessagesSettled, MessagesOf, Silenced, TypeInv, TypeOK
  <1>7. EventsAnswered'
    <2> SUFFICES ASSUME NEW k \in seen \cap Event
                 PROVE  \/ k \in eventsByName' /\ EntityOf[k] # None
                        \/ EntityOf[k] \in Inspected
                           /\ \/ k \in Early
                              \/ \A m \in Taken \ Event : EntityOf[m] # EntityOf[k]
                        \/ k \in Taken
                        \/ Silenced(k, Taken)
      BY <1>a DEF EventsAnswered, Silenced
    <2>1. CASE k \in EventsOf(e)
      BY <2>1
    <2>2. CASE k \notin EventsOf(e)
      BY <1>a, <1>b, <2>2, ObservationAssumption DEF EventsAnswered
    <2> QED  BY <2>1, <2>2
  <1>8. EventsStay'
    BY <1>a DEF EventsStay, EventsOf
  <1> QED  BY <1>1, <1>2, <1>3, <1>4, <1>5, <1>6, <1>7, <1>8

\* An alert tells what was fresh.
LEMMA AlertTells ==
  /\ alerts' = alerts \cup {AlertOf(entity)} => Told' = Taken
  /\ alerts' = alerts => Told' = Told
  <1> DEFINE a == AlertOf(entity)
  <1>1. a.messages \cup a.events = fresh
    BY DEF AlertOf
  <1>2. ASSUME alerts' = alerts \cup {a} PROVE Told' = Told \cup (a.messages \cup a.events)
    <2> HIDE DEF a
    <2> QED  BY <1>2 DEF Told
  <1>3. alerts' = alerts => Told' = Told
    BY DEF Told
  <1> QED  BY <1>1, <1>2, <1>3 DEF Taken

\* Outside the collection nothing has failed.
LEMMA HandlingIsUnfailed ==
  ASSUME PromiseInv, pc \in {"states", "messages", "events", "standalone"}
  PROVE  ~ failed /\ ~ Collecting
  BY DEF PromiseInv, Untouched, Collecting

LEMMA SkipHealthyStep ==
  ASSUME TypeInv, PromiseInv, SkipHealthy
  PROVE  PromiseInv'
  <1>1. PICK e \in statesByName : isHealthy(e) /\ Leave(e, "states")
    BY DEF SkipHealthy
  <1>2. entity = None /\ fresh = {} /\ Taken = Told /\ Told' = Told
    BY AlertTells DEF SkipHealthy, PromiseInv, Working, Taken
  <1>3. messages \cap MessagesOf({e}) = {}
    BY <1>1 DEF isHealthy
  <1>4. \A m \in Taken \ Event : EntityOf[m] # e
    BY <1>2 DEF PromiseInv, TakenAreOwned
  <1>5. \A k \in EventsOf(e) : EntityOf[k] = e /\ e \in Inspected
    BY DEF TypeInv, TypeOK, EventsOf
  <1>6. pc = "states" /\ ~ failed /\ ~ Collecting
        /\ UNCHANGED <<todo, namespace, failed, messages, seen, book, opened>>
    BY HandlingIsUnfailed DEF SkipHealthy
  <1> QED  BY <1>1, <1>2, <1>3, <1>4, <1>5, <1>6, LeaveStep

LEMMA DedupedStep ==
  ASSUME TypeInv, PromiseInv, Deduped
  PROVE  PromiseInv'
  <1>1. pc = "messages" /\ pending = {} /\ fresh = {} /\ Leave(entity, "states")
        /\ entity \in statesByName /\ entity \in Inspected
    BY DEF Deduped, PromiseInv, Working, TypeInv, TypeOK
  <1>2. Taken = Told /\ Told' = Told
    BY <1>1, AlertTells DEF Deduped, Taken
  <1>3. \A m \in Taken \ Event : EntityOf[m] # entity
    BY <1>1, <1>2 DEF PromiseInv, TakenAreOwned
  <1>4. \A k \in messages \cap MessagesOf({entity}) :
            k \in Taken \/ Silenced(k, Taken \ Event)
    BY <1>1 DEF PromiseInv, MessagesSettled, MessagesOf
  <1> QED  BY <1>1, <1>2, <1>3, <1>4, HandlingIsUnfailed, LeaveStep
           DEF Deduped, EventsOf

LEMMA AlertStateStep ==
  ASSUME TypeInv, PromiseInv, AlertState
  PROVE  PromiseInv'
  <1>1. pc = "events" /\ pending = {} /\ Leave(entity, "states") /\ Told' = Taken
        /\ entity \in statesByName /\ entity \in Inspected
    BY AlertTells DEF AlertState, PromiseInv, Working, TypeInv, TypeOK
  <1>2. \A k \in fresh : EntityOf[k] = entity
    BY DEF PromiseInv, TakenAreOwned
  <1>3. \A k \in messages \cap MessagesOf({entity}) :
            k \in Taken \/ Silenced(k, Taken \ Event)
    BY <1>1 DEF PromiseInv, MessagesSettled, MessagesOf
  <1>4. ASSUME NEW k \in EventsOf(entity)
        PROVE  \/ EntityOf[k] \in Inspected /\ k \in Early
               \/ EntityOf[k] \in Inspected
                  /\ \A m \in Taken \ Event : EntityOf[m] # EntityOf[k]
               \/ k \in Taken
               \/ Silenced(k, Taken)
    <2>1. k \in seen \cap Event /\ EntityOf[k] = entity
      BY DEF EventsOf, PromiseInv, Collected, TypeInv, TypeOK
    <2> QED  BY <1>1, <2>1 DEF PromiseInv, EventsAnswered
  <1> QED  BY <1>1, <1>2, <1>3, <1>4, HandlingIsUnfailed, LeaveStep DEF AlertState

LEMMA DropEventsStep ==
  ASSUME TypeInv, PromiseInv, DropEvents
  PROVE  PromiseInv'
  <1>1. PICK e \in Inspected : EventsOf(e) # {} /\ Leave(e, "standalone")
    BY DEF DropEvents
  <1>2. entity = None /\ fresh = {} /\ Taken = Told /\ Told' = Told /\ statesByName = {}
    BY AlertTells DEF DropEvents, PromiseInv, Working, Taken
  <1>3. \A m \in Taken \ Event : EntityOf[m] # e
    BY <1>1, <1>2 DEF PromiseInv, TakenAreOwned
  <1>4. \A k \in messages \cap MessagesOf({e}) :
            k \in Taken \/ Silenced(k, Taken \ Event)
    BY <1>2 DEF PromiseInv, MessagesSettled
  <1> QED  BY <1>1, <1>2, <1>3, <1>4, HandlingIsUnfailed, LeaveStep
           DEF DropEvents, EventsOf

LEMMA AlertStandaloneStep ==
  ASSUME TypeInv, PromiseInv, AlertStandalone
  PROVE  PromiseInv'
  <1>1. /\ pc = "standalone" /\ pending = {} /\ Leave(entity, "standalone")
        /\ entity \notin Inspected /\ statesByName = {}
    BY DEF AlertStandalone, PromiseInv, Working
  <1>2. Told' = Taken
    BY AlertTells DEF AlertStandalone, Taken
  <1>3. \A k \in fresh : EntityOf[k] = entity
    BY DEF PromiseInv, TakenAreOwned
  <1>4. \A k \in messages : k \in Taken \/ Silenced(k, Taken \ Event)
    BY <1>1 DEF PromiseInv, MessagesSettled
  <1>5. ASSUME NEW k \in EventsOf(entity)
        PROVE  k \in Taken \/ Silenced(k, Taken)
    <2>1. k \in seen \cap Event /\ EntityOf[k] = entity
      BY DEF EventsOf, PromiseInv, Collected, TypeInv, TypeOK
    <2> QED  BY <1>1, <2>1 DEF PromiseInv, EventsAnswered
  <1> QED  BY <1>1, <1>2, <1>3, <1>4, <1>5, HandlingIsUnfailed, LeaveStep
           DEF AlertStandalone

\* What both calls of TryAdd have in common: the key is of the entity in work,
\* was collected, and, if it is an event, need be offered.
LEMMA TryAddTakes ==
  ASSUME TypeInv, PromiseInv, NEW k \in pending, TryAdd(k),
         pc \in {"messages", "events", "standalone"},
         UNCHANGED <<pc, collecting, entity, alerts, opened>>,
         EntityOf[k] = entity, k \in Counted,
         k \in Event => k \in OfferedEvents(Counted, Taken \ Event)
  PROVE  /\ Untouched' /\ Collected' /\ RecordsTaken' /\ NoneAlike'
         /\ TakenWereOffered' /\ TakenAreOwned' /\ EventsStay'
         /\ pending' = pending \ {k} /\ Told' = Told
         /\ \/ Taken' = Taken \cup {k} /\ fresh' = fresh \cup {k}
            \/ Taken' = Taken /\ fresh' = fresh /\ Silenced(k, Taken)
  <1> USE DEF PromiseInv, collecting
  <1>a. TypeOK /\ k \in Key /\ Told' = Told /\ Counted' = Counted /\ ~ failed /\ ~ Collecting
    BY AlertTells, HandlingIsUnfailed DEF TypeInv, TypeOK, Counted
  <1>b. /\ pending' = pending \ {k}
        /\ \/ /\ fresh' = fresh \cup {k}
              /\ Taken' = Taken \cup {k}
              /\ book' = Recorded(book, {k}, Now)
              /\ DedupDuration > 0 =>
                   \A j \in Key : Matches(j, k) => opened[j] = None /\ j \notin Taken
           \/ /\ UNCHANGED <<book, fresh>>
              /\ Taken' = Taken
              /\ Silenced(k, Taken)
    BY <1>a, TryAddAnswers DEF Taken
  <1>1. Untouched' /\ Collected' /\ EventsStay'
    BY <1>a DEF Untouched, Collected, EventsStay, Collecting
  <1>2. RecordsTaken'
    BY <1>b DEF RecordsTaken, FreshBook, Recorded
  <1>3. NoneAlike'
    <2> SUFFICES ASSUME DedupDuration > 0, NEW l \in Taken', NEW j \in Key, Matches(j, l)
                 PROVE  opened[j] = None /\ (j \in Taken' => j = l)
      BY DEF NoneAlike
    <2>1. Taken \subseteq Key
      BY <1>a DEF TakenWereOffered, Counted, TypeOK
    <2>2. CASE Taken' = Taken
      BY <2>2 DEF NoneAlike
    <2>3. CASE Taken' = Taken \cup {k} /\ l = k
      BY <1>b, <2>3 DEF NoneAlike
    <2>4. CASE Taken' = Taken \cup {k} /\ Taken' # Taken /\ l # k
      <3>1. l \in Taken /\ l \in Key
        BY <2>1, <2>4
      <3>2. opened[j] = None /\ (j \in Taken => j = l)
        BY <3>1 DEF NoneAlike
      <3>3. l \notin Taken \/ ~ Matches(l, k)
        BY <1>b, <2>4, <3>1
      <3>4. j # k
        BY <1>a, <3>1, <3>3, MatchesBothWays
      <3> QED  BY <2>4, <3>2, <3>4
    <2> QED  BY <1>b, <2>2, <2>3, <2>4
  <1>4. TakenWereOffered'
    BY <1>a, <1>b DEF TakenWereOffered, OfferedEvents
  <1>5. TakenAreOwned'
    BY <1>a, <1>b DEF TakenAreOwned, EventsOf
  <1> QED  BY <1>a, <1>b, <1>1, <1>2, <1>3, <1>4, <1>5

LEMMA TryAddMessageStep ==
  ASSUME TypeInv, PromiseInv, TryAddMessage
  PROVE  PromiseInv'
  <1>1. PICK k \in pending : TryAdd(k)
    BY DEF TryAddMessage
  <1> USE DEF PromiseInv, collecting
  <1>a. /\ pc = "messages" /\ UNCHANGED <<pc, collecting, entity, alerts, opened>>
        /\ entity \in statesByName /\ EntityOf[k] = entity /\ k \in Key \ Event /\ k \in messages
        /\ pending \subseteq messages \cap MessagesOf({entity})
        /\ fresh \subseteq MessagesOf({entity})
    BY <1>1 DEF TryAddMessage, Working, MessagesOf, TypeInv, TypeOK
  <1>b. k \in Counted
    BY <1>a, DiagnosisAssumption DEF Counted, Collected
  <1>2. /\ Untouched' /\ Collected' /\ RecordsTaken' /\ NoneAlike'
        /\ TakenWereOffered' /\ TakenAreOwned' /\ EventsStay'
        /\ pending' = pending \ {k} /\ Told' = Told
        /\ \/ Taken' = Taken \cup {k} /\ fresh' = fresh \cup {k}
           \/ Taken' = Taken /\ fresh' = fresh /\ Silenced(k, Taken)
    BY <1>1, <1>a, <1>b, TryAddTakes
  <1>3. Working'
    BY <1>a, <1>2, DiagnosisAssumption DEF Working, MessagesOf, TypeInv, TypeOK
  <1>4. MessagesSettled'
    <2>1. ASSUME Silenced(k, Taken) PROVE Silenced(k, Taken \ Event)
      <3>1. PICK j \in Key : Matches(j, k) /\ (opened[j] # None \/ j \in Taken)
        BY <2>1 DEF Silenced
      <3>2. j \notin Event \/ j \notin Taken
        BY <1>a, <3>1, MatchesBothWays DEF TakenAreOwned, Taken, MessagesOf
      <3> QED  BY <2>1, <3>1, <3>2 DEF Silenced
    <2>2. \A l \in messages : Silenced(l, Taken \ Event) => Silenced(l, Taken \ Event)'
      BY <1>a, <1>2 DEF Silenced
    <2> QED  BY <1>a, <1>2, <2>1, <2>2 DEF MessagesSettled
  <1>5. EventsAnswered'
    <2>1. \A l \in seen : Silenced(l, Taken) => Silenced(l, Taken)'
      BY <1>a, <1>2 DEF Silenced
    <2>2. \A l \in seen \cap Event : EntityOf[l] = entity => l \in eventsByName
      BY <1>a DEF EventsStay
    <2> QED  BY <1>a, <1>2, <2>1, <2>2 DEF EventsAnswered
  <1> QED  BY <1>2, <1>3, <1>4, <1>5

LEMMA TryAddEventStep ==
  ASSUME TypeInv, PromiseInv, TryAddEvent
  PROVE  PromiseInv'
  <1>1. PICK k \in pending : TryAdd(k)
    BY DEF TryAddEvent
  <1> USE DEF PromiseInv, collecting
  <1>a. /\ pc \in {"events", "standalone"}
        /\ UNCHANGED <<pc, collecting, entity, alerts, opened>>
        /\ EntityOf[k] = entity /\ k \in Key /\ k \in seen \cap Event
        /\ pc = "events" => k \notin Early
        /\ pc = "standalone" => entity \notin Inspected
    BY <1>1 DEF TryAddEvent, Working, unhealthyEvents, EventsOf, Collected, TypeInv, TypeOK
  <1>b. k \in Counted
    BY <1>a DEF Counted
  <1>c. k \in OfferedEvents(Counted, Taken \ Event)
    BY <1>a, <1>b DEF OfferedEvents, Working, Taken
  <1>2. /\ Untouched' /\ Collected' /\ RecordsTaken' /\ NoneAlike'
        /\ TakenWereOffered' /\ TakenAreOwned' /\ EventsStay'
        /\ pending' = pending \ {k} /\ Told' = Told
        /\ \/ Taken' = Taken \cup {k} /\ fresh' = fresh \cup {k}
           \/ Taken' = Taken /\ fresh' = fresh /\ Silenced(k, Taken)
    BY <1>1, <1>a, <1>b, <1>c, TryAddTakes
  <1>3. Working'
    <2>1. entity # None
      BY <1>1 DEF Working
    <2> QED  BY <1>a, <1>2, <2>1 DEF Working, unhealthyEvents, EventsOf
  <1>d. Taken' \ Event = Taken \ Event
    BY <1>a, <1>2
  <1>4. MessagesSettled'
    <2>1. \A l \in messages : l \notin Event
      BY DEF Collected
    <2> QED  BY <1>a, <1>2, <1>d, <2>1 DEF MessagesSettled, Silenced
  <1>5. EventsAnswered'
    <2>1. \A l \in seen : Silenced(l, Taken) => Silenced(l, Taken)'
      BY <1>a, <1>2 DEF Silenced
    <2>2. k \in Taken' \/ Silenced(k, Taken)'
      BY <1>a, <1>2, <2>1
    <2> QED  BY <1>a, <1>2, <1>d, <2>1, <2>2 DEF EventsAnswered
  <1> QED  BY <1>2, <1>3, <1>4, <1>5

\* The steps that move on without a call of TryAdd.
LEMMA MoveOnStep ==
  ASSUME TypeInv, PromiseInv,
         HandleState \/ GoOnToEvents \/ StatesDone \/ HandleStandaloneEvents \/ Done
  PROVE  PromiseInv'
  <1> USE DEF PromiseInv, collecting, handling
  <1>a. /\ UNCHANGED <<collecting, fresh, book, alerts, opened>>
        /\ Told' = Told /\ Taken' = Taken /\ Counted' = Counted
        /\ pc \in {"states", "messages", "standalone"} /\ ~ failed /\ ~ Collecting
        /\ pc' \in {"messages", "events", "standalone", "done"}
    BY AlertTells, HandlingIsUnfailed
    DEF HandleState, GoOnToEvents, StatesDone, HandleStandaloneEvents, Done, Taken, Counted
  <1>1. Untouched' /\ Collected' /\ RecordsTaken' /\ NoneAlike' /\ TakenWereOffered' /\ EventsStay'
    BY <1>a DEF Untouched, Collected, RecordsTaken, FreshBook, NoneAlike,
                TakenWereOffered, EventsStay, Collecting
  <1>2. CASE HandleState
    <2>1. PICK e \in statesByName : entity' = e /\ pending' = messages \cap MessagesOf({e})
      BY <1>2 DEF HandleState
    <2>2. pc = "states" /\ pc' = "messages" /\ entity = None /\ fresh = {} /\ e # None
      BY <1>2, DiagnosisAssumption DEF HandleState, Working, TypeInv, TypeOK
    <2>3. Working' /\ TakenAreOwned'
      BY <1>a, <2>1, <2>2 DEF Working, TakenAreOwned, MessagesOf, EventsOf
    <2>4. MessagesSettled'
      BY <1>a, <2>1, <2>2, StoreAssumption, DiagnosisAssumption
      DEF MessagesSettled, MessagesOf, Silenced, TypeInv, TypeOK
    <2>5. EventsAnswered'
      BY <1>a, <2>2 DEF EventsAnswered, Silenced
    <2> QED  BY <1>1, <2>3, <2>4, <2>5
  <1>3. CASE GoOnToEvents
    <2>1. /\ pc = "messages" /\ pc' = "events" /\ pending = {} /\ fresh # {}
          /\ pending' = unhealthyEvents(entity) /\ entity' = entity
          /\ entity \in statesByName /\ entity \in Inspected
          /\ fresh \subseteq MessagesOf({entity})
      BY <1>3 DEF GoOnToEvents, Working, TypeInv, TypeOK
    <2>2. \E m \in fresh \ Event : EntityOf[m] = entity
      BY <2>1 DEF MessagesOf
    <2>3. Working' /\ TakenAreOwned'
      BY <1>a, <2>1, <2>2, DiagnosisAssumption
      DEF Working, TakenAreOwned, unhealthyEvents, EventsOf
    <2>4. MessagesSettled'
      <3>1. \A k \in messages : k \notin pending'
        BY <2>1 DEF Collected, unhealthyEvents, EventsOf, TypeInv, TypeOK
      <3> QED  BY <1>a, <2>1, <3>1 DEF MessagesSettled, Silenced
    <2>5. EventsAnswered'
      BY <1>a, <2>1 DEF EventsAnswered, unhealthyEvents, EventsOf, Silenced
    <2> QED  BY <1>1, <2>3, <2>4, <2>5
  <1>4. CASE StatesDone
    <2>1. /\ pc = "states" /\ pc' = "standalone" /\ statesByName = {} /\ entity = None
          /\ pending = {} /\ fresh = {} /\ UNCHANGED <<entity, pending>>
      BY <1>4 DEF StatesDone, Working
    <2>2. None \notin Inspected
      BY ObservationAssumption, DiagnosisAssumption
    <2>3. Working' /\ TakenAreOwned' /\ MessagesSettled'
      BY <1>a, <2>1, <2>2 DEF Working, TakenAreOwned, MessagesSettled, EventsOf, Silenced
    <2>4. EventsAnswered'
      <3>1. \A k \in seen \cap Event : EntityOf[k] # None
        BY StoreAssumption, ObservationAssumption, DiagnosisAssumption
      <3> QED  BY <1>a, <2>1, <3>1 DEF EventsAnswered, Silenced
    <2> QED  BY <1>1, <2>3, <2>4
  <1>5. CASE HandleStandaloneEvents
    <2>1. PICK e \in Entity \ Inspected :
            EventsOf(e) # {} /\ entity' = e /\ pending' = EventsOf(e)
      BY <1>5 DEF HandleStandaloneEvents
    <2>2. /\ pc = "standalone" /\ pc' = "standalone" /\ entity = None /\ fresh = {}
          /\ pending = {} /\ statesByName = {} /\ e # None
      BY <1>5, DiagnosisAssumption DEF HandleStandaloneEvents, Working
    <2>3. Working' /\ TakenAreOwned' /\ MessagesSettled'
      BY <1>a, <2>1, <2>2 DEF Working, TakenAreOwned, MessagesSettled, EventsOf, Silenced
    <2>4. EventsAnswered'
      BY <1>a, <2>1, <2>2 DEF EventsAnswered, EventsOf, Silenced
    <2> QED  BY <1>1, <2>3, <2>4
  <1>6. CASE Done
    <2>1. /\ pc = "standalone" /\ pc' = "done" /\ entity = None /\ eventsByName = {}
          /\ pending = {} /\ fresh = {} /\ statesByName = {}
          /\ UNCHANGED <<entity, pending>>
      BY <1>6 DEF Done, Working
    <2>2. Working' /\ TakenAreOwned' /\ MessagesSettled' /\ EventsAnswered'
      BY <1>a, <2>1
      DEF Working, TakenAreOwned, MessagesSettled, EventsAnswered, EventsOf, Silenced
    <2> QED  BY <1>1, <2>2
  <1> QED  BY <1>2, <1>3, <1>4, <1>5, <1>6

LEMMA PromiseInit == Init => PromiseInv
  <1> SUFFICES ASSUME Init PROVE PromiseInv
    OBVIOUS
  <1>1. Told = {} /\ Taken = {} /\ fresh = {} /\ book = opened
    BY DEF Init, Told, Taken
  <1>2. Untouched /\ Working /\ Collected
    BY DEF Init, Untouched, Working, Collected, Collecting
  <1>3. RecordsTaken
    <2>1. opened \in Book
      BY TypeInit DEF TypeInv, TypeOK
    <2> QED  BY <1>1, <2>1, OpenedIsFresh DEF RecordsTaken, Recorded, Book
  <1>4. NoneAlike /\ TakenWereOffered /\ TakenAreOwned
    BY <1>1 DEF NoneAlike, TakenWereOffered, TakenAreOwned
  <1>5. MessagesSettled /\ EventsAnswered /\ EventsStay
    BY DEF Init, MessagesSettled, EventsAnswered, EventsStay
  <1> QED  BY <1>2, <1>3, <1>4, <1>5 DEF PromiseInv

LEMMA PromiseStep == TypeInv /\ PromiseInv /\ [Next]_vars => PromiseInv'
  <1> SUFFICES ASSUME TypeInv, PromiseInv, [Next]_vars PROVE PromiseInv'
    OBVIOUS
  <1>1. CASE Collect
    BY <1>1, CollectStep
  <1>2. CASE Handle
    BY <1>2, SkipHealthyStep, DedupedStep, AlertStateStep, DropEventsStep,
       AlertStandaloneStep, TryAddMessageStep, TryAddEventStep, MoveOnStep DEF Handle
  <1>3. CASE UNCHANGED vars
    <2> USE <1>3 DEF vars, PromiseInv
    <2>1. Taken' = Taken /\ Told' = Told /\ Counted' = Counted
      BY DEF Taken, Told, Counted
    <2>2. Untouched' /\ Working' /\ Collected'
      BY DEF Untouched, Working, Collected, Collecting, EventsOf, unhealthyEvents
    <2>3. RecordsTaken' /\ NoneAlike' /\ TakenWereOffered' /\ TakenAreOwned'
      BY <2>1 DEF RecordsTaken, FreshBook, NoneAlike, TakenWereOffered, TakenAreOwned, EventsOf
    <2>4. MessagesSettled' /\ EventsAnswered' /\ EventsStay'
      BY <2>1 DEF MessagesSettled, EventsAnswered, EventsStay, Silenced
    <2> QED  BY <2>2, <2>3, <2>4
  <1> QED  BY <1>1, <1>2, <1>3 DEF Next

LEMMA PromiseHolds == Spec => [](TypeInv /\ PromiseInv)
  <1> QED  BY TypeInit, TypeStep, PromiseInit, PromiseStep, PTL DEF Spec

-----------------------------------------------------------------------------

\* What is silenced on the fresh book is skipped by TryAdd.
LEMMA SilencedIsSkipped ==
  ASSUME TypeOK, FreshBook(opened), NEW k \in Key, NEW told, Silenced(k, told)
  PROVE  Skips(opened, k, Now) \/ (DedupDuration > 0 /\ \E j \in told : Matches(j, k))
  <1>1. PICK j \in Key : Matches(j, k) /\ (opened[j] # None \/ j \in told)
    BY DEF Silenced
  <1> QED  BY <1>1, FreshDecides DEF Silenced, TypeOK

LEMMA InvKeepsPromise == TypeInv /\ PromiseInv => KeepsPromise
  <1> SUFFICES ASSUME TypeInv, PromiseInv, pc = "done", ~ failed
               PROVE  Accepted(opened, Counted, Told, Now) /\ book = Recorded(opened, Told, Now)
    BY DEF KeepsPromise
  <1> DEFINE told == Told \ Event
             toldEvents == Told \cap Event
             offered == OfferedEvents(Counted, told)
             withMessages == Recorded(opened, told, Now)
  <1> USE DEF PromiseInv
  <1>a. /\ TypeOK /\ opened \in Book /\ FreshBook(opened) /\ Counted \subseteq Key
        /\ Told \subseteq Counted
        /\ Taken = Told /\ fresh = {} /\ statesByName = {} /\ eventsByName = {}
    BY DEF TypeInv, TypeOK, Working, Taken, RecordsTaken, TakenWereOffered, Counted
  <1>1. book = Recorded(opened, Told, Now)
    BY <1>a DEF RecordsTaken
  <1>2. AcceptedOf(opened, Counted \ Event, told, Now)
    <2>1. ASSUME NEW k \in told
          PROVE  /\ Adds(opened, k, Now)
                 /\ DedupDuration > 0 => \A j \in told \ {k} : ~ Matches(j, k)
      <3>1. DedupDuration > 0 => \A j \in Key : Matches(j, k) =>
              opened[j] = None /\ (j \in Taken => j = k)
        BY <1>a DEF NoneAlike
      <3> QED  BY <1>a, <3>1, FreshDecides
    <2>2. ASSUME NEW k \in (Counted \ Event) \ told
          PROVE  \/ Skips(opened, k, Now)
                 \/ DedupDuration > 0 /\ \E j \in told : Matches(j, k)
      <3>1. k \in messages /\ k \in Key
        BY <1>a DEF Collected, Counted
      <3>2. Silenced(k, told)
        BY <1>a, <2>2, <3>1 DEF MessagesSettled
      <3> QED  BY <1>a, <3>1, <3>2, SilencedIsSkipped
    <2> QED  BY <1>a, <2>1, <2>2 DEF AcceptedOf
  <1>3. AcceptedOf(withMessages, offered, toldEvents, Now)
    <2>a. withMessages \in Book /\ FreshBook(withMessages)
      BY <1>a, BookType, RecordedIsFresh
    <2>b. \A j \in Key : withMessages[j] # None <=> opened[j] # None \/ j \in told
      BY StoreAssumption DEF Recorded, Now
    <2> HIDE DEF withMessages
    <2>1. ASSUME NEW k \in toldEvents
          PROVE  /\ Adds(withMessages, k, Now)
                 /\ DedupDuration > 0 => \A j \in toldEvents \ {k} : ~ Matches(j, k)
      <3>1. DedupDuration > 0 => \A j \in Key : Matches(j, k) =>
              opened[j] = None /\ (j \in Taken => j = k)
        BY <1>a DEF NoneAlike
      <3>2. DedupDuration > 0 => \A j \in Key : Matches(j, k) => withMessages[j] = None
        BY <1>a, <2>b, <3>1
      <3> QED  BY <1>a, <2>a, <3>1, <3>2, FreshDecides
    <2>2. ASSUME NEW k \in offered \ toldEvents
          PROVE  \/ Skips(withMessages, k, Now)
                 \/ DedupDuration > 0 /\ \E j \in toldEvents : Matches(j, k)
      <3>1. /\ k \in seen \cap Event /\ k \in Key
            /\ EntityOf[k] \in Inspected =>
                 k \notin Early /\ \E m \in told : EntityOf[m] = EntityOf[k]
        BY <1>a DEF OfferedEvents, Counted
      <3>2. Silenced(k, Told)
        BY <1>a, <2>2, <3>1 DEF EventsAnswered
      <3>3. PICK j \in Key : Matches(j, k) /\ (opened[j] # None \/ j \in Told)
        BY <3>2 DEF Silenced
      <3>4. CASE withMessages[j] # None
        BY <2>a, <3>1, <3>2, <3>3, <3>4, FreshDecides DEF Silenced
      <3>5. CASE withMessages[j] = None
        BY <2>b, <3>2, <3>3, <3>5 DEF Silenced
      <3> QED  BY <3>4, <3>5
    <2>3. toldEvents \subseteq offered
      BY <1>a DEF TakenWereOffered
    <2> QED  BY <2>1, <2>2, <2>3 DEF AcceptedOf
  <1> QED  BY <1>1, <1>2, <1>3 DEF Accepted

\* A diagnosis that succeeds alerts what is new among what it saw, and records
\* just what it alerts, although it records as it goes, entity by entity and
\* message by message, in the random order of its maps (diag.go:178-185).  This is
\* the step that Scout takes for the diagnosis of a cluster.
THEOREM DiagnosisKeepsPromise == Spec => []KeepsPromise
  <1> QED  BY PromiseHolds, InvKeepsPromise, PTL

\* A diagnosis one of whose calls fails, whichever it is and however late, has
\* recorded nothing and alerts nothing (diag.go:173-176).
THEOREM FailedDiagnosisLeavesNoTrace == Spec => []FailureLeavesNoTrace
  <1>1. PromiseInv => FailureLeavesNoTrace
    BY DEF PromiseInv, Untouched, FailureLeavesNoTrace
  <1> QED  BY <1>1, PromiseHolds, PTL

=============================================================================
