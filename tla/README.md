# Kubescout in TLA+

Kubescout is a short-lived program: a scheduler starts it every few minutes, it
looks at one or more Kubernetes clusters, tells of what is unhealthy and new,
and remembers in one JSON file what it told, so that the next execution keeps
silent about it. Each execution is sequential. What is hard about it lies
*between* executions and *between* the steps of one: when the file is written
with respect to the report, what a failed or killed execution leaves behind,
what executions that overlap do to each other, how grace periods that end at
different instants combine, and when a map that is searched in random order may
give two answers.

## Parts of the system

| Part | Source | State | Operations | Talks to |
|---|---|---|---|---|
| execution | `pkg/kubescout.go`, `main.go` | alerts, aggregated error, the instant `now` of the execution | `Scout` | all others |
| deduplication store | `internal/store` | cluster → entity → message → instant; one JSON file | `LoadOrCreate`, `GetClusterStore`, `TryAdd`, `Flush` | file system |
| similarity, temporal markers | `internal/dedup` | none | `AreSimilar`, `NormalizeTemporal` | – |
| cluster diagnosis | `internal/diag/diag.go` | states by entity, events by entity | `DiagnoseCluster`, `collectStates`, `handleEntityState`, `handleStandaloneEvents` | API client, cluster store |
| health rules | `internal/diag/state.go` | none | `podState`, `nodeState`, `replicaSetState`, `eventState` | – |
| API client | `internal/kubeclient` | none | `GetNamespaces`, `GetEvents`, `GetPods`, `GetReplicaSets`, `GetNodes`, `pagedGet` | API server |
| sinks | `sink` | none | `Report` of the printing, web and multi sinks | web hook |
| alerts | `alert` | alerts by cluster | `AddEntityAlerts`, `Empty`, `Less` | – |
| contexts | `internal/kubeconfig` | none | `LoadKubeconfig`, `ContextNames` | kubeconfig file |
| configuration | `config` | the flags | `ParseConfig`, `DefaultSink` | – |
| deployment | `chart` | the persistent volume | CronJob with `concurrencyPolicy: Forbid` and a deadline | starts executions |

`Scout` loads the store, reads the contexts, takes the time, and goes through
the contexts: it builds a client, opens and prunes the cluster's store,
diagnoses the cluster (which calls the API server and offers each message to
`TryAdd`), and collects the alerts. An error there is kept and the loop goes on.
If there is something to report it calls the sink, and only if that succeeds it
flushes the store.

What makes each part correct:

- *execution with store*: what is remembered was delivered; what is remembered
  and in grace is not delivered again; an execution that returns no error has
  lost nothing; a problem that lasts is told again and again.
- *diagnosis*: what it records is what it alerts on; a failure records nothing;
  events of every kind of entity are told.
- *health rules*: what is wrong with a pod, a node or an event is told once its
  periods of grace are over; time alone does not silence an alarm, and does not
  change the key under which the store remembers it; forgiven restarts stay
  forgiven.
- *sinks*: a report succeeds only if every sink got it; a sink that fails neither
  keeps the others from being told nor lets them silence what it missed.
- *API client*: a list is complete or an error; reading it ends.

## Modules

| Module | Models | Kind |
|---|---|---|
| `Store` | `store.go` and the relation that `dedup.go` decides | operators, no variables |
| `Similarity` | the edit distance and the threshold of `dedup.go` | operators, on which `MCScout` checks its relation |
| `Observation` | what a diagnosis promises its caller | operators, extends `Store` |
| `Scout` | the executions, the file, the world that is told | state machine, extends `Observation` |
| `AlertLog` | the abstract specification that `Scout` implements | state machine |
| `ScoutLog` | what of `Scout` is the memory of `AlertLog` | refinement mapping, extends `Scout` |
| `Diagnosis` | the steps of `DiagnoseCluster`, which keep the promise | state machine, extends `Observation` |
| `PodHealth` | `podState` and what it calls, for one pod as time passes | state machine over pure rules |
| `EntityHealth` | `nodeState`, `replicaSetState`, `eventState`, `unhealthyEvents` and the keys of their messages | state machine over pure rules, extends `PodHealth` |
| `Sinks` | `MultiSink`, the printing and the web sinks, composed with the execution | state machine, extends `Scout` |
| `AlertOrder` | `Less` of `alert.go`, with its proofs | operators |
| `Kubeconfig` | which contexts an execution goes through | operators, from which `MCScout` takes its contexts |
| `PagedGet` | `pagedGet` against an API server | state machine |
| `ScoutProofs` | theorems about `Scout` that hold whatever overlaps or fails | proofs |
| `RepeatProofs` | that nothing is repeated, when nothing overlaps | proofs |
| `SinkProofs` | that `Sinks` implements `Scout`, and what each sink is promised | proofs |
| `LogProofs` | that `Scout` and `Sinks` implement `AlertLog` | proofs |
| `DiagnosisProofs` | that `Diagnosis` keeps its promise | proofs |
| `PagedGetProofs` | that a list is complete, and each page a step to its end | proofs |
| `HealthProofs` | what pods, nodes and events are told of | proofs |
| `MC…` | constants for the model checker | instances |

`Scout` composes with `Diagnosis` by contract. `Observation!Accepted` says which
messages a diagnosis accepts and records, given what it saw and the store it was
handed; `Scout` takes any outcome it allows as one step, and the step-by-step
`Diagnosis` always ends in an outcome it allows: the run `diagnosis` checks that
on an instance, and `DiagnosisProofs` proves it.
That one step is sound because nothing that another execution can touch is read
or written between the opening of the cluster's store and the end of the loop.

### Store

A *key* is one normalised message of one entity of one cluster. The nested maps
are one function from keys to instants, `None` where there is no entry; a missing
entity and an entity with an empty map behave alike everywhere in the code, so
the deletion of empty maps (store.go:75-77) has no counterpart.

- `GetClusterStore` is the pruning of store.go:69-79, for the keys of one cluster.
- `tryMatch` is the *set* of entries the search may return: the message itself
  if it is stored, else any similar one, since Go iterates a map in random
  order. `Skips` and `Adds` are the two answers of `TryAdd`; both may be possible.
- `Similar` is any symmetric relation, and in the instances it is not transitive,
  as the relation of `AreSimilar` is not. `Similarity` computes the edit distance
  and the score, with whole per cents for the code's floating point; `MCScout`
  gives its messages texts of four letters and assumes, for the model checker to
  evaluate, that the relation of the instance is the one computed. The distance
  itself is the library's, which the code only gives its costs.
- `InGrace` (store.go:116, `<=`) and `Expired` (store.go:71, `>`) are separate
  definitions because they are separate lines that must agree at the boundary.
- The file is absent, empty, complete JSON or torn. `Flush` is two steps of
  `Scout`, since `ioutil.WriteFile` truncates and then writes.

### Scout

A member of `Run` is a slot in which one execution at a time is alive. One slot
is the chart's CronJob; two slots are a plain cron line, which starts an
execution whether or not the last one has ended. A step is a stretch of code
between two touches of the file, the API server, the clock or the sink.

| Action | Code |
|---|---|
| `Start` | the scheduler runs `main` |
| `LoadStore`, `LoadFails` | kubescout.go:24-27, store.go:30-56 |
| `Begin`, `ConfigFails` | kubescout.go:32-53 and kubeconfig.go; the instant is taken here, after the load |
| `OpenCluster`, `ClientFails` | kubescout.go:61-68 |
| `DiagnoseCluster`, `DiagnosisFails` | kubescout.go:72-80 |
| `NothingToReport`, `SomethingToReport` | kubescout.go:83-85; the early return does not flush |
| `Report`, `ReportFails`, `ReportUnacknowledged` | kubescout.go:87; the last is an alert that got out although `Report` returned an error (sink/http.go:51, or a `MultiSink` of which one sink failed) |
| `FlushNothing`, `FlushTruncates`, `FlushFails` | store.go:130-145 |
| `FlushWrites`, `WriteFails` | store.go:142; the content lands at offset zero, so when another execution wrote in between the tail of a longer content may remain |
| `Crash` | the process is killed at any step; in the middle of a write it leaves the file as it was, or torn |
| `Tick` | time passes |

`delivered` is the world's record: every alert that got out, with the instant of
its execution. It never influences an action.

### Kubeconfig

`KubeconfigSource` is the order in which ParseConfig and DefaultKubeconfigPath
look for a kubeconfig; `ContextNames` is the function of that name: the current
context, which is *not* looked up in the file (a wrong one fails later, as
`ClientFails`), the selected one, or all of them in sorted order but for the
excluded ones, and without the empty name. The variable KUBECONFIG counts as the flag
(config.go:67), so in a pod it wins over the token of the cluster, although
DefaultKubeconfigPath asks for the token first; only an empty flag hides it. There
is no state; `MCScout` derives the contexts of its instances from the kubeconfig of
the environment, with three named contexts of which one is excluded, and from a
pod's own cluster. `ChoiceFails` ends the program before `Scout` is called, or in `Begin`'s
failing twin `ConfigFails`; the assumption of `MCScout` says that its instances do
not fail so.

### Sinks

`Scout` takes the report as one step with three outcomes. `Sinks` extends it and
refines that step into the loop of `MultiSink.Report`: one step for each sink,
each of which acknowledges, fails before it posts, or fails after the hook may
have got the post; errors are collected and the loop goes on; `MultiSinkReturns`
then takes the step of `Scout` that the collected errors call for. `Killed` is
`Crash`, which between two sinks leaves the alert with those reached, and during a
post perhaps with the one that has not answered. All other steps are `Scout`'s own.
The program of the repository reports to one printing sink (main.go:37,
`DefaultSink`); a `MultiSink` and web sinks are for programs that call `pkg.Scout`,
and such a program is what `Sinks` models.

`heard` is the world's record sink by sink. `transport` is the state of the
process's one `http.DefaultClient`: a web sink with a transport getter sets it
(sink/http.go:32), to nothing if the getter fails, and whoever posts next without
a getter posts over what it finds. `Route` says so, and `SinkPostFails` lets a
post fail if the sink or its route is unreliable. `StartProcess` keeps the
transport when the program calls `Scout` again in the same process, and resets it
in a new one. An alert counts as delivered in the sense of `Scout` when at least
one sink heard it (`Out`). The client has no timeout (http.go:29): while an
execution is `Waiting` for a hook in `Silent`, or posts over the transport of one,
the answer may never come, and then only a kill ends the wait.

### AlertLog

The promise across executions, with no executions in it: alerts are delivered
at least once; what is remembered was delivered; nothing is announced that is
like something remembered and in grace; nothing remembered is forgotten, or
replaced by something older, before it has expired; and memory is lost only as a
whole, and only when the environment may kill or starve a writer. The refinement
mapping in `ScoutLog` takes the file for the memory, except while an execution
writes it, when the memory is what the writer holds.

### Diagnosis

Collection is one action per API call, with a failing twin, in the order of
`collectStates`: namespaces, then per namespace events, pods and replica sets,
then nodes. An error of a call is kept and the collection goes on, but the
diagnosis then returns before it handles anything (diag.go:173-176). The
`getOrAddState` entries without a message are states that are healthy. Each call
sees an arbitrary subset of what it can list, since the calls are made at
different instants. Handling is one action per call of `TryAdd`, over maps in
any order. `Leave` is what ends the work on an entity: state and events are
removed from their maps. `Early` are the events in the first seconds of an
entity with a known creation time (diag.go:53-67).

### PodHealth

The rules are functions of a pod's status and the time. The state machine lets
the clock pass over a pod whose status does not change, which is what makes the
grace periods end one after another. A message is named by what it is about.
There is at most one init container and one container; the rules treat several
of a sort by "any" and "all", which the sets in the module keep.

### EntityHealth

`EntityHealth` extends `PodHealth` and shares its clock: a behaviour is about the
pod, or, with a pod that has succeeded and says nothing, about one node, replica
set or event. Nodes and events change while the clock runs: a condition flips
(`Flips`) and an event recurs (`Recurs`), in the event itself, as older clients
report it, or in its series, as newer ones do.

A message is a sequence of tokens, with the markers `<t>` and `</t>` as tokens of
their own; words that the rules only copy from the object stand as one token.
`NormalizeTemporal` is the loop of temporal.go, and what it leaves is the key
that `TryAdd` looks up. So the module shows what the store relies on: that what
changes with time is marked.

- `nodeState` looks at the resources only if no condition is told, as state.go:337
  does with the flag that `collectStates` passes (diag.go:252). Usage is compared
  in whole per cent, with the code's floating point taken as exact.
- `desiredReplicas` falls back from the specification to the annotation and from
  an annotation that is not a number to one.
- `lastTimestamp` and `countOf` choose among the four fields, a series only with an
  instant (`seriesTells`); `forgiven` is the
  grace for events of a new entity (diag.go:53-67); a `harmless` event is one
  that `isEventHealthy` accepts.

### PagedGet

A continue token is the position in the snapshot of the first page up to which
it was read. The server, which is external, may cut pages as short as it
likes, a bounded number of them empty.

## Runs

| Run | Instance and bounds | Shows |
|---|---|---|
| `scout_forbid` | one slot, two clusters, five messages (chain of similarity `m1~m2~m3`, an event of the pod, an event of a job), grace of 1, clock to 4, any number of failures of configuration, client, API or sink | no alert is repeated in grace; the map order decides nothing; what is flushed is pruned; types |
| `scout_faults` | one slot, two clusters, three messages, clock to 3, any number of failures of client, API, sink, acknowledgement and disk, half-written files and kills | memory is delivered; success means told; a torn file is final; the executions implement `AlertLog` |
| `scout_overlap` | two slots, one pod with two similar messages, clock to 2, any number of failed reports and kills | memory is delivered and success means told even when executions overlap |
| `scout_no_path` | no store file, two clusters, clock to 4 | success means told without any memory |
| `scout_live` | two clusters, three messages, clock to 3, 2 failures of any kind, with fairness | a lasting problem is told again in each period of grace |
| `sinks` | one slot, one pod with one message; in this order a hook with its own transport that may fail for ever, the console, a reliable hook with its own transport, a reliable one that posts over what it finds, a hook that may never answer; kills in any number; clock to 3; with fairness | nothing is remembered that a sink did not hear; success answers for all sinks; a dependable sink is told again and again |
| `scout_overlap_repeats` | as `scout_overlap`, no failures | *violated*: overlapping executions repeat an alert |
| `diagnosis` | a pod with two messages and an event, a node with a message and an event, a job with an event; three namespaces of which one is excluded | the promise of `Observation`; a failed diagnosis leaves no trace |
| `diagnosis_nodes` | the same | *violated*: the events alone of a listed node are never told |
| `paged_get` | up to 5 items, pages up to 3 or without limit, up to 2 empty pages | complete or an error, no gap and no repeat, ends |
| `paged_get_limit` | the same | *violated*: the limit of events is the size of a page |
| `pod_health` | all pods with at most two containers of the listed statuses; nodes with two conditions and three resources, each absent, at or beyond the threshold; replica sets of up to two replicas; events that recur up to three times; unit of half a minute, clock to 8 | stuck is told, a node in trouble is told, a late event is told, alarms persist, forgiven stays forgiven, keys do not change with time or count |

Why the bounds are enough to meet the interesting cases. A grace of 1 on a clock
to 3 or 4 has ages below, at and above the boundary, a record that is told, expires
and is told again, and an execution that outlives the grace it started in. Two
failures allow a failure during the recovery from another. Three messages in a
chain are the least that tell a similarity that is not transitive from an
equality. Failures named in `Endless` are not counted at all; the others, in the
runs with fairness, draw on `MaxFaults`, since a program that is killed or cannot
load for ever is not obliged to tell anything. The
order of the five sinks puts the one that fails first, so that a loop that stopped
would show, and its transport before that of the hook which the fourth depends
on, so that a stale one would show; the one that hangs is last, since those behind
it may never be told. One message is enough there, since a report goes to each
sink as a whole. Two contexts are the least with one failing before or after one
that succeeds. Two slots are the least that overlap; with two messages the two can
hold different memories. In `pod_health` each grace period ends before and after
each other one in some behaviour, and the clock passes five times the troubled
time of a pod that started at 1. In `paged_get` five items in pages of up to
three have a full, a short, an empty and a last page.

The clock stops at `MaxTime`. In `scout_live` behaviours end up with a clock
that stands still: the property then asks that at that last instant a standing
problem is told, or has been told within the grace before it.

### Properties

- `RecordedWasDelivered`: the file never remembers what nobody got.
- `SuccessMeansTold`: an execution without an error has told of every message
  that persists in one of its contexts, or found it, or one like it, told and in
  grace. Messages that persist are what `Persisting` makes every diagnosis see.
- `NoRepeatInGrace`: no report contains a message like one delivered and in grace.
  It holds for one slot while reports are acknowledged and flushes work, and is
  refuted for two slots.
- `MapOrderIsIrrelevant`: `TryAdd` never has both answers.
- `TornStoreIsFinal`: a torn file stops every later execution before it delivers
  anything, and none repairs it. It describes a weakness: after a crash in the
  middle of the write the program stays silent, with an error in each execution,
  until somebody deletes the file.
- `StandingIsToldAgain`: liveness, for messages that persist.
- `FlushIsPruned`: what an execution without an error flushes for the contexts it
  went through is in grace. Records of contexts that are no longer scanned stay
  for ever, and with deduplication off nothing is pruned: the property says what
  is promised and no more.
- `RecordedWasHeardByAll`, `SuccessMeansAllToldTo`, `DependableIsToldAgain` of
  `Sinks`: memory, success and liveness sink by sink. A sink is `Dependable` if it
  prints, or if neither it nor the transport it posts over can fail or hang, and if
  no sink before it can hang. Over which transport a hook without a getter posts is
  decided by the last hook before it that has one; if that one may fail to set it,
  or there is none, it may be any that an earlier report left behind. Each part of
  this is needed: the property fails of a reliable hook without a getter right
  behind the one that fails, and of a console behind the one that hangs.
- `NodeTroubleIsTold`, `LateEventIsTold`: no rule of leaving out leaves out both of
  two. `TimeKeepsKeys`, `RecurringKeepsKey`: the keys that the store compares are
  those of the last execution, unless the object itself changed.
- `ImplementsLog`: the refinement of `AlertLog`.
- `KeepsPromise`, `FailureLeavesNoTrace`, `NodeEventsAreTold` of `Diagnosis`;
  `SuccessIsComplete`, `NoGapNoRepeat`, `Terminates`, `EventsLimitHonoured` of
  `PagedGet`; `StuckIsTold`, `AlarmPersists`, `ForgivenStaysForgiven` of
  `PodHealth`: stated above each definition.

The operators named `Slip…` are plausible slips of the pen in the code (a guard
dropped, a comparison turned, an error lost). No specification uses them; each
is there to be put in the place of the definition that follows it, and then
breaks the property it is paired with in `PROJECT.json`.

### Fairness

`scout_live` assumes that each slot keeps starting executions, and that an
execution that is alive goes on until it returns: calls of the API server and of
the sink return or fail, or the Job's `activeDeadlineSeconds` kills it. The
property is about the chart's deployment, whose sink prints. A cron line without a
deadline does not justify the latter, and a web hook, which has no timeout
(sink/http.go:29), may use up every deadline: that is what `sinks` looks at.
Nothing obliges time to pass or failures to happen or to stop, except that they
are bounded. `paged_get` assumes that each request returns.

`sinks` is about programs of one's own around `pkg.Scout`, and assumes of whatever
runs them:

- executions are started again and again, and go on while they do not wait for a
  silent hook; no sink owes an acknowledgement, and the unreliable ones may fail
  for ever;
- the hooks outside `Silent` answer, with whatever code. Nothing is assumed of
  those in it, so the step that ends a post to them is not fair;
- an execution that hangs is killed in the end. Nothing in the code does that; the
  caller needs a deadline such as the chart's. Without one the first hook that
  does not answer ends the reporting for ever, and the property fails;
- from some time on, executions are killed only while they wait for a silent hook
  (`OnlyDeadlinesKill`), since a program that is always killed before it reports
  tells nobody. How many kills come before is not bounded.

## Proofs

`ScoutProofs` proves, for any slots, contexts, messages, similarity, duration and
failures, from the assumptions `StoreAssumption`, `ObservationAssumption` and
`ScoutAssumption` (the types of the constants, and the symmetry of `Similar`):

- `TypeCorrect`: the type invariant, with `DiagnosesAContext`, which the type of
  the loop index needs: an execution that diagnoses is inside its loop.
- `NothingUntoldIsRecorded` (`RecordedWasDelivered`). The property is not
  inductive, since a flush writes whatever the execution has in memory.
  `DeliveryInv` adds that each entry in memory was delivered or is about to be
  reported under the execution's own instant (`MemoryIsJustified`), that a report
  is behind an execution that flushes (`ReportedIsDelivered`), and that the
  instant is taken before there is an alert (`NoAlertsBeforeBegin`).
- `MapOrderNeverDecides` (`MapOrderIsIrrelevant`). Inductive is `OpenedIsFresh`:
  whatever is stored for a cluster while it is diagnosed is in grace, because
  `GetClusterStore` has pruned it with the same instant. This is where `<=` and
  `>` of the two lines must fit. The theorem is about the store at the start of a
  diagnosis; entries added by the diagnosis itself carry its own instant and are
  in grace too, which is what `AcceptedOf` says.
- `SuccessTells` (`SuccessMeansTold`). Inductive is `Sound`, slot by slot: as
  long as no error is kept, every standing message of a context behind the
  execution is told, or like one it is going to report; reporting and flushing
  come after the loop. `DiagnosisCovers` is the step that uses `DeliveryInv`: a
  message that `TryAdd` skips is silenced by a record that was delivered, or by
  one of the same execution. Another slot cannot disturb it, since deliveries are
  never undone.
- `FlushesArePruned` (`FlushIsPruned`). Inductive is `PruneInv`, with `LoopPrunes`:
  the contexts behind an execution that has kept no error were each opened with
  its instant, and what was added since carries that instant.
- `BrokenForEver` (`TornStoreIsFinal`): an action property of `Broken`, which only
  `LoadStore` could leave, and `Loadable` keeps it from doing so.

- `DiagnosisIsLocal`: what a diagnosis may accept and what it records depends on,
  and changes, only its cluster's part of the store. Messages that are alike are of
  one entity, hence of one cluster (`AlikeInOneCluster`), so the search, the answers
  and the promise are the same in the part (`One`, an instance of `Observation` for
  the cluster `InWork`) and in the whole, and the part satisfies the assumptions
  (`PartIsAStore`). With `DiagnosisKeepsPromise` below, which is about one cluster,
  this justifies the single step that `DiagnoseCluster` takes in a store of many.

`RepeatProofs` proves `NothingIsRepeated` (`NoRepeatInGrace`) under `Undisturbed`:
one slot, a store file, and none of the failures that separate a delivery from
its record (`unacked`, `disk`, `torn`, `crash`). Clusters and reports may fail in
any number. Each hypothesis is needed: two slots, or any of these failures, repeat
alerts. `NewsInv` says that a book remembers each delivery, with a record at least
as recent, unless an execution has seen it expire; that the file is such a book
until it is truncated and the memory from the load to the write, so that no
execution starts from a book that forgot; and that what is going to be reported is
like nothing delivered in grace (`DiagnosisIsNew`, which rests on `OpenedIsFresh`:
a single expired match would let `TryAdd` accept).

`AlertOrder` proves that `Less` is a strict weak order, as `sort.Sort` requires, and
which alerts it leaves in any order: `LessIsStrictWeakOrder`, `OnlyNamesakesTie`,
by cases over the table of kinds.

`SinkProofs` proves about `Sinks`, from the assumptions above and
`SinkAssumption`:

- `SinksImplementScout`: `SinkSpec => Spec`. The loop's steps stutter in `Scout`,
  and `MultiSinkReturns` and `Killed` map to a report or a kill. So all theorems of
  `ScoutProofs` hold for the composition, and the next ones use two of them.
- `SinkTypeCorrect` (`SinkTypeOK`).
- `RecordedIsHeardByAll` (`RecordedWasHeardByAll`). Inductive is `HeardInv`: memory
  was heard by all sinks or is in what is about to be reported (`MemoryIsHeard`);
  an execution that flushes was heard by all (`FlushedIsHeard`); and in the loop,
  as long as no error is collected, the sinks before the turn have heard
  (`LoopHears`). That the loop asks *every* sink is `SinkAssumption`.
- `SuccessTellsAll` (`SuccessMeansAllToldTo`). Inductive is `AnswerInv`, the
  counterpart of `Sound` sink by sink.

`LogProofs` proves `ScoutImplementsLog` (`ImplementsLog`) under `OneSlot`, and for
every kind of failure in any number: initial states map to initial states, and
each step to one of `AlertLog` or to a stutter. With two slots there is no single
memory to map to. A report, acknowledged or not, and a kill in the middle of one
map to `Announce`; the truncation of the file, from which on the writer holds the
memory, to `Remember`; a write that is cut short to `Forget`; a write that
succeeds, and everything else but `Tick`, to a stutter. `LogInv` is what this
needs beside `DeliveryInv` and `OpenedIsFresh`:

- `MemoryFollowsFile`: from the load to the truncation, the memory of the execution
  differs from the file only in what it dropped as expired and in what it is
  going to report. This is what makes the truncation a `Remember`.
- `AlertsUnlikeFile`: what is going to be reported is like nothing that the *file*
  silences, although `TryAdd` looked in the memory; it makes a report an
  `Announce`, and rests on the pruning and the silencing fitting at the boundary.
- `TimeGoesOn`: no delivery is later than an execution that lives, so what is
  remembered is never replaced by something older.
- `NothingHalfRead`: a file without complete content remembers nothing, and only a
  truncated file is written to.

`SinksImplementLog` composes this with `SinksImplementScout`: reporting sink by sink
implements `AlertLog` too.

`DiagnosisProofs` closes the contract between `Scout` and `Diagnosis`, for any
entities, namespaces, messages and stores, from `StoreAssumption`,
`ObservationAssumption` and `DiagnosisAssumption`. The latter says that the store a
diagnosis is handed is that of one cluster (diag.go:161), so that there is one
member of `Cluster`.

- `DiagnosisIsTyped` (`TypeOK`).
- `DiagnosisKeepsPromise` (`KeepsPromise`). The promise speaks of the end, when all
  maps are empty. `PromiseInv` says key by key what holds on the way: everything
  collected is still to be offered, or was taken, or is silenced, or need not be
  offered (`MessagesSettled`, `EventsAnswered`); what was taken is what is recorded
  (`RecordsTaken`), and is like nothing else that is stored or taken (`NoneAlike`);
  an event is taken only with a new message of its inspected entity
  (`TakenWereOffered`); the keys taken for the entity in work are kept apart from
  those of entities done with (`TakenAreOwned`), which is what lets a later step
  decide that *no* message of an entity was taken; `Working`, `Collected` and
  `EventsStay` tie the maps to the place in the code. `FreshDecides` is the lemma
  about `TryAdd` it rests on: in a store that was just pruned, whichever similar
  entry the search meets gives the same answer.
- `FailedDiagnosisLeavesNoTrace` (`FailureLeavesNoTrace`), from `Untouched`: the
  store and the alerts are not touched before everything was collected.

`PagedGetProofs` proves `PagedSuccessIsComplete` (`SuccessIsComplete`) and
`PagesHaveNoGapNoRepeat` (`NoGapNoRepeat`) for snapshots, pages and numbers of empty
pages of any size. Inductive is `PagedInv`: what has been read is the snapshot up to
the token. `PagesAdvance` is the measure behind `Terminates`: a turn that does not
end the loop moves the token on or uses up an empty page.

`HealthProofs` proves, for any periods of grace, thresholds and container statuses:

- `StuckPodIsTold` (`StuckIsTold`), by what each container's trouble is told as
  (`TroubleIsTold`) and by the fallback to conditions and phase for a pod without
  such trouble (`FallbackTells`).
- `PodAlarmPersists` (`AlarmPersists`): the messages of status and containers stay, or
  are replaced by others of their sort; one told by its conditions stays told.
- `ForgivenRestartsStayForgiven` (`ForgivenStaysForgiven`).
- `TroubledNodeIsTold` (`NodeTroubleIsTold`) and `LateEventIsNotForgiven`
  (`LateEventIsTold`). The latter needs `TwoWays` as an invariant: an event, however
  often it recurs, is reported either by a count and a last instant or by a series,
  and the one that `lastTimestamp` picks is the latest of all.

The pods' theorems are about `Spec`; `EntitiesKeepTheClock` (`EntitySpec => Spec`) carries
them over to the specification of the run. `PodHealthAssumption` says that a
terminated container has an instant at which it finished, since `FinishedAt` is
not optional in the API; without it nothing could be said of how long ago it was.

Model-checked only:

- `StandingIsToldAgain`, `DependableIsToldAgain` and `Terminates`: liveness under
  fairness is out of the prover's reach.
- `TimeKeepsKeys` and `RecurringKeepsKey`: they are about the value of
  `NormalizeTemporal`, a recursion over sequences, and induction over data is out
  of reach too. So are the metric of `Similarity`, whose symmetry the proofs take
  from `StoreAssumption`, and the sorting in `Kubeconfig`.
- `NodeEventsAreTold` and `EventsLimitHonoured` do not hold.

## Where code and documents disagree

Shown by runs:

1. *Overlapping executions repeat alerts* (`scout_overlap_repeats`). Nothing locks
   the file between `LoadOrCreate` and `Flush`. The README's cron line, every
   three minutes over all contexts, allows it; the chart does not.
2. *A node's warning events alone are never told* (`diagnosis_nodes`).
   `handleEntityState` marks a listed node unhealthy by its events (diag.go:72-74)
   but returns at diag.go:99-101 because no *message* is new, before any event is
   offered. README.md:193 promises "Warning events on any entity". The property is
   about nodes that were listed; events of one that was not are dropped on purpose
   (diag.go:28).
3. *The events limit is a page size* (`paged_get_limit`). config.go:57 says
   "Maximum number of namespace events to fetch".

Seen while reading, without a run:

- config.go:95 describes the starting grace as "before alarming on non running
  states"; state.go:192 and 105-118 alarm on other waiting reasons and on untrue
  conditions at once.
- kubescout.go:18 says all parameters are optional; a nil configuration is
  dereferenced at kubescout.go:20-21.
- The flag is declared as `locale` (config.go:78) and read as `time-locale`
  (config.go:255), so it has no effect.
- `CreateWebSink` takes `tlsSkipVerify` and ignores it (webSink.go:18-24).
- `http.DefaultClient` is shared by all web sinks of the process, keeps the
  transport that one of them sets and has no timeout (http.go:29-32). `Sinks` has
  both, and `DependableIsToldAgain` says which sinks are safe from them.
- util.go:70-74 turns a size in Gi into bytes as if it were in Mi.
- An event that an older client has seen once has no last instant for
  state.go:429-437, so the grace of diag.go:53-67 does not cover it: it is told at
  once, and falls silent when it recurs within the grace.
- A replica set that is short of replicas and has no condition is silent.
- Alerts on objects of one name in two namespaces are reported in any order
  (alert.go:64-74, and the maps that `handleEntityState` is called over).
- A node condition that flips more often than once a minute is never told
  (state.go:325).
- sink.go:25 and 39 print the serialised alerts as a *format*: a percent sign in a
  message is mangled.

## Not modelled

- The wording of messages, and the printed form of alerts; flag parsing; pod
  logs (a failure to read them is logged and ignored, state.go:242-245); building
  a client (succeeds or fails).
- A kubeconfig that changes between executions, and a clock that is set back.
- Growth of the file over unbounded time.

## Plan

Done, in the order in which it matters: `Store`, `Observation`, `Scout`,
`AlertLog`, `Diagnosis`, `PagedGet`, `PodHealth`, `Sinks`, `EntityHealth`,
`Kubeconfig`, `Similarity`, `AlertOrder`, and the theorems above.

Next, models:

1. Contexts that change between executions, and the records they leave behind.

Next, proofs:

1. What `AlertLog` itself promises, as theorems about the abstract log that its
   implementations inherit.
2. The algebra of `Store`: pruning is idempotent and commutes with recording.
3. Repetition sink by sink, the counterpart of `NothingIsRepeated` for `Sinks`.
