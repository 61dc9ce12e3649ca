------------------------------- MODULE Store -------------------------------
(***************************************************************************)
(* The deduplication store of internal/store: which alert messages were    *)
(* told, and when.  The code keeps, for each cluster, a map from entity to *)
(* a map from message to the instant of the run that recorded it, and      *)
(* saves all of it as one JSON file.                                       *)
(*                                                                         *)
(* A key stands for one normalised message of one entity of one cluster;   *)
(* the nested maps are one total function from keys to instants, None      *)
(* where a map has no entry.  An entity that is missing from its map and   *)
(* an entity with an empty map behave alike in every operation.            *)
(*                                                                         *)
(* The module has no variables: it holds the operations that Scout and     *)
(* Diagnosis apply to a store they own.                                    *)
(***************************************************************************)
EXTENDS Integers

CONSTANTS
    Cluster,        \* cluster (context) names
    Entity,         \* entities: kind, namespace and name
    Key,            \* messages, each of one entity
    ClusterOf,      \* the cluster of an entity
    EntityOf,       \* the entity of a key
    Similar,        \* pairs of messages that dedup.AreSimilar accepts
    DedupDuration,  \* config.MessagesDeduplicationDuration
    HasFilePath,    \* whether config.StoreFilePath is set
    MaxTime,        \* bound of the clock
    None            \* no entry

Time == 0..MaxTime

\* The similarity score is symmetric: insertions and deletions cost the same
\* (dedup.go:13-14) and the distance is scaled by the longer message.
ASSUME StoreAssumption ==
    /\ ClusterOf \in [Entity -> Cluster]
    /\ EntityOf \in [Key -> Entity]
    /\ Similar \subseteq Key \X Key
    /\ \A p \in Similar : <<p[2], p[1]>> \in Similar
    /\ DedupDuration \in Nat
    /\ HasFilePath \in BOOLEAN
    /\ MaxTime \in Nat
    /\ None \notin Int

-----------------------------------------------------------------------------
(* Message books *)

Book == [Key -> Time \cup {None}]

NoMessages == [k \in Key |-> None]

KeysOf(c) == {k \in Key : ClusterOf[EntityOf[k]] = c}

\* A stored message j answers for a candidate k: the same message, or one that
\* is similar enough, and always of the same entity.
Matches(j, k) == EntityOf[j] = EntityOf[k] /\ (j = k \/ <<j, k>> \in Similar)

\* The time for which a recorded message silences its likes (store.go:116).
\* A duration of zero switches deduplication off.
InGrace(t, now) == DedupDuration > 0 /\ now - t <= DedupDuration
\* Slip: an entry of exactly the deduplication age counts as expired.
SlipExpiredAtBoundary(t, now) == DedupDuration > 0 /\ now - t >= DedupDuration

\* What a run drops when it opens a cluster's store (store.go:71).
Expired(t, now) == DedupDuration > 0 /\ now - t > DedupDuration
\* Slip: opening a cluster's store does not prune it.
SlipOpenedUnpruned(book, c, now) == book

\* Slip: opening a cluster's store always creates it anew.
SlipOpenedAnew(book, c, now) ==
    [k \in Key |-> IF k \in KeysOf(c) THEN None ELSE book[k]]

\* Entries of other clusters are left alone.
GetClusterStore(book, c, now) ==
    [k \in Key |-> IF k \in KeysOf(c) /\ book[k] # None /\ Expired(book[k], now)
                   THEN None ELSE book[k]]

\* The entries the search may return: the message itself if it is stored, else
\* any similar one, whichever the iteration over the map meets first.
tryMatch(book, k) ==
    IF book[k] # None THEN {k}
    ELSE {j \in Key : book[j] # None /\ Matches(j, k)}
\* TryAdd may answer "already told" ...
Skips(book, k, now) == \E j \in tryMatch(book, k) : InGrace(book[j], now)

\* ... or "new", when nothing matches or the match it met has expired.
Adds(book, k, now) ==
    \/ tryMatch(book, k) = {}
    \/ \E j \in tryMatch(book, k) : ~ InGrace(book[j], now)

\* A message that is added gets the instant of the run; one that is skipped
\* does not refresh the entry it matched.
Recorded(book, added, now) ==
    [k \in Key |-> IF k \in added THEN now ELSE book[k]]

-----------------------------------------------------------------------------
(* The store file *)

FileKinds == {"absent", "empty", "json", "torn"}

File == [kind : FileKinds, book : Book]

FileOf(kind) == [kind |-> kind, book |-> NoMessages]

JsonFile(book) == [kind |-> "json", book |-> book]
\* Slip: a file that does not parse is taken for a fresh store.
SlipAlwaysLoadable(file) == TRUE

\* A file that is neither empty nor complete JSON stops the run.
Loadable(file) == ~ HasFilePath \/ file.kind # "torn"

\* No path, no file and an empty file all give a fresh store.
LoadOrCreate(file) ==
    IF HasFilePath /\ file.kind = "json" THEN file.book ELSE NoMessages

=============================================================================
