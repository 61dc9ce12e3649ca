------------------------------- MODULE Scout -------------------------------
(***************************************************************************)
(* pkg.Scout: what one execution of kubescout does from loading the store  *)
(* to flushing it, for executions that a scheduler starts again and again  *)
(* on the same store file.                                                 *)
(*                                                                         *)
(* A member of Run is a slot in which one execution at a time can be       *)
(* alive.  One slot is what the chart's CronJob gives                      *)
(* (concurrencyPolicy: Forbid); two slots are what a plain cron line       *)
(* gives, where an execution may outlive its period.  Everything but the   *)
(* clock, the file and the outside world's record of delivered alerts is   *)
(* local to an execution, so a step of the model is a stretch of code      *)
(* between two touches of the file, of the API server or of the sink.      *)
(*                                                                         *)
(* The diagnosis of a cluster is one step here; module Diagnosis gives its *)
(* steps and is checked to keep the promise of Observation.                *)
(***************************************************************************)
EXTENDS Observation, Sequences

CONSTANTS
    Run,        \* slots for concurrent executions
    Contexts,   \* the contexts an execution goes through, in order
    Persisting, \* messages that every diagnosis of their cluster observes
    Faults,     \* the kinds of failure the environment may produce
    Endless,    \* those of them that may go on for ever
    MaxFaults   \* bound of the number of the others

FaultKinds ==
    {"config", "client", "api", "sink", "unacked", "disk", "torn", "crash"}

ASSUME ScoutAssumption ==
    /\ Contexts \in Seq(Cluster)
    /\ Persisting \subseteq Key
    /\ Faults \subseteq FaultKinds
    /\ MaxFaults \in Nat

VARIABLES
    clock,      \* the time of day
    file,       \* the store file
    delivered,  \* <<message, instant of its run>> of every alert that got out
    pc,         \* where each execution is
    at,         \* the index of the context in work
    now,        \* the instant an execution took for itself
    mem,        \* the execution's store in memory
    alerts,     \* the messages it is going to report
    err,        \* whether aggregatedErr is set
    result,     \* what the slot's latest execution returned
    faults      \* failures so far, of the kinds that end

vars == <<clock, file, delivered, pc, at, now, mem, alerts, err, result, faults>>

PCs == {"idle", "load", "config", "cluster", "diagnose", "report", "flush", "write"}

TypeOK ==
    /\ clock \in Time
    /\ file \in File
    /\ delivered \subseteq Key \X Time
    /\ pc \in [Run -> PCs]
    /\ at \in [Run -> 1..(Len(Contexts) + 1)]
    /\ now \in [Run -> Time]
    /\ mem \in [Run -> Book]
    /\ alerts \in [Run -> SUBSET Key]
    /\ err \in [Run -> BOOLEAN]
    /\ result \in [Run -> {"none", "ok", "error", "killed"}]
    /\ faults \in 0..MaxFaults

Init ==
    /\ clock = 0
    /\ file = FileOf("absent")
    /\ delivered = {}
    /\ pc = [r \in Run |-> "idle"]
    /\ at = [r \in Run |-> 1]
    /\ now = [r \in Run |-> 0]
    /\ mem = [r \in Run |-> NoMessages]
    /\ alerts = [r \in Run |-> {}]
    /\ err = [r \in Run |-> FALSE]
    /\ result = [r \in Run |-> "none"]
    /\ faults = 0

-----------------------------------------------------------------------------

NoFault == faults' = faults

Fault(f) ==
    /\ f \in Faults
    /\ \/ f \in Endless /\ NoFault
       \/ f \notin Endless /\ faults < MaxFaults /\ faults' = faults + 1

\* The context in work.  After the last one the loop is over.
Context(r) == Contexts[at[r]]
Looping(r) == at[r] <= Len(Contexts)

\* The end of an execution: its memory goes, its answer stays.
Return(r, answer) ==
    /\ pc' = [pc EXCEPT ![r] = "idle"]
    /\ at' = [at EXCEPT ![r] = 1]
    /\ mem' = [mem EXCEPT ![r] = NoMessages]
    /\ alerts' = [alerts EXCEPT ![r] = {}]
    /\ err' = [err EXCEPT ![r] = FALSE]
    /\ result' = [result EXCEPT ![r] = answer]
    /\ UNCHANGED now

Answer(failed) == IF failed THEN "error" ELSE "ok"

Tick ==
    /\ clock < MaxTime
    /\ clock' = clock + 1
    /\ UNCHANGED <<file, delivered, pc, at, now, mem, alerts, err, result, faults>>

Start(r) ==
    /\ pc[r] = "idle"
    /\ pc' = [pc EXCEPT ![r] = "load"]
    /\ result' = [result EXCEPT ![r] = "none"]
    /\ UNCHANGED <<clock, file, delivered, at, now, mem, alerts, err, faults>>

LoadStore(r) ==
    /\ pc[r] = "load"
    /\ Loadable(file)
    /\ mem' = [mem EXCEPT ![r] = LoadOrCreate(file)]
    /\ pc' = [pc EXCEPT ![r] = "config"]
    /\ UNCHANGED <<clock, file, delivered, at, now, alerts, err, result, faults>>

\* The file is broken, or cannot be read.
LoadFails(r) ==
    /\ pc[r] = "load"
    /\ \/ ~ Loadable(file) /\ NoFault
       \/ HasFilePath /\ Fault("disk")
    /\ Return(r, "error")
    /\ UNCHANGED <<clock, file, delivered>>

\* The contexts are read from the kubeconfig; only then is the time taken.
Begin(r) ==
    /\ pc[r] = "config"
    /\ now' = [now EXCEPT ![r] = clock]
    /\ pc' = [pc EXCEPT ![r] = "cluster"]
    /\ UNCHANGED <<clock, file, delivered, at, mem, alerts, err, result, faults>>

ConfigFails(r) ==
    /\ pc[r] = "config"
    /\ Fault("config")
    /\ Return(r, "error")
    /\ UNCHANGED <<clock, file, delivered>>

OpenCluster(r) ==
    /\ pc[r] = "cluster"
    /\ Looping(r)
    /\ mem' = [mem EXCEPT ![r] = GetClusterStore(mem[r], Context(r), now[r])]
    /\ pc' = [pc EXCEPT ![r] = "diagnose"]
    /\ UNCHANGED <<clock, file, delivered, at, now, alerts, err, result, faults>>
\* Slip: the loop index moves twice.
SlipSkipsTwo(r) ==
    /\ at' = [at EXCEPT ![r] = at[r] + 2]
    /\ err' = [err EXCEPT ![r] = TRUE]
    /\ pc' = [pc EXCEPT ![r] = "cluster"]
    /\ UNCHANGED <<clock, file, delivered, now, mem, alerts, result>>

\* Slip: the error of a skipped cluster is dropped.
SlipSkipsSilently(r) ==
    /\ at' = [at EXCEPT ![r] = at[r] + 1]
    /\ pc' = [pc EXCEPT ![r] = "cluster"]
    /\ UNCHANGED <<clock, file, delivered, now, mem, alerts, err, result>>

\* A cluster that cannot be reached or read is skipped, and the error is kept.
SkipCluster(r) ==
    /\ at' = [at EXCEPT ![r] = at[r] + 1]
    /\ err' = [err EXCEPT ![r] = TRUE]
    /\ pc' = [pc EXCEPT ![r] = "cluster"]
    /\ UNCHANGED <<clock, file, delivered, now, mem, alerts, result>>

ClientFails(r) ==
    /\ pc[r] = "cluster"
    /\ Looping(r)
    /\ Fault("client")
    /\ SkipCluster(r)

\* Any failed API call loses the whole cluster (diag.go:173-176).
DiagnosisFails(r) ==
    /\ pc[r] = "diagnose"
    /\ Fault("api")
    /\ SkipCluster(r)
\* Slip: a message that is skipped refreshes its record.
SlipRefreshesSkipped(r) ==
    /\ pc[r] = "diagnose"
    /\ \E seen \in Sightings(Context(r), Persisting) :
        \E added \in SUBSET seen :
            /\ Accepted(mem[r], seen, added, now[r])
            /\ mem' = [mem EXCEPT ![r] = Recorded(mem[r], seen, now[r])]
            /\ alerts' = [alerts EXCEPT ![r] = alerts[r] \cup added]
    /\ at' = [at EXCEPT ![r] = at[r] + 1]
    /\ pc' = [pc EXCEPT ![r] = "cluster"]
    /\ UNCHANGED <<clock, file, delivered, now, err, result, faults>>

DiagnoseCluster(r) ==
    /\ pc[r] = "diagnose"
    /\ \E seen \in Sightings(Context(r), Persisting) :
        \E added \in SUBSET seen :
            /\ Accepted(mem[r], seen, added, now[r])
            /\ mem' = [mem EXCEPT ![r] = Recorded(mem[r], added, now[r])]
            /\ alerts' = [alerts EXCEPT ![r] = alerts[r] \cup added]
    /\ at' = [at EXCEPT ![r] = at[r] + 1]
    /\ pc' = [pc EXCEPT ![r] = "cluster"]
    /\ UNCHANGED <<clock, file, delivered, now, err, result, faults>>

\* Nothing new: the execution returns and leaves the file as it is.
NothingToReport(r) ==
    /\ pc[r] = "cluster"
    /\ ~ Looping(r)
    /\ alerts[r] = {}
    /\ Return(r, Answer(err[r]))
    /\ UNCHANGED <<clock, file, delivered, faults>>
\* Slip: the store is flushed and the alerts are never sent.
SlipFlushesUnreported(r) ==
    /\ pc[r] = "cluster"
    /\ ~ Looping(r)
    /\ alerts[r] # {}
    /\ pc' = [pc EXCEPT ![r] = "flush"]
    /\ UNCHANGED <<clock, file, delivered, at, now, mem, alerts, err, result, faults>>

SomethingToReport(r) ==
    /\ pc[r] = "cluster"
    /\ ~ Looping(r)
    /\ alerts[r] # {}
    /\ pc' = [pc EXCEPT ![r] = "report"]
    /\ UNCHANGED <<clock, file, delivered, at, now, mem, alerts, err, result, faults>>

Deliver(r) == delivered' = delivered \cup (alerts[r] \X {now[r]})

Report(r) ==
    /\ pc[r] = "report"
    /\ Deliver(r)
    /\ pc' = [pc EXCEPT ![r] = "flush"]
    /\ UNCHANGED <<clock, file, at, now, mem, alerts, err, result, faults>>
\* Slip: the store is flushed although the report failed.
SlipFlushesAfterFailure(r) ==
    /\ pc[r] = "report"
    /\ Fault("sink")
    /\ err' = [err EXCEPT ![r] = TRUE]
    /\ pc' = [pc EXCEPT ![r] = "flush"]
    /\ UNCHANGED <<clock, file, delivered, at, now, mem, alerts, result>>

\* Slip: the error of the report does not reach the answer.
SlipReportErrorLost(r) ==
    /\ pc[r] = "report"
    /\ Fault("sink")
    /\ Return(r, Answer(err[r]))
    /\ UNCHANGED <<clock, file, delivered>>

\* The sink returns an error: nothing is flushed.
ReportFails(r) ==
    /\ pc[r] = "report"
    /\ Fault("sink")
    /\ Return(r, "error")
    /\ UNCHANGED <<clock, file, delivered>>

\* The sink returns an error although the alert got out: the answer of the web
\* hook was lost or refused, or one sink of a MultiSink failed after another.
ReportUnacknowledged(r) ==
    /\ pc[r] = "report"
    /\ Fault("unacked")
    /\ Deliver(r)
    /\ Return(r, "error")
    /\ UNCHANGED <<clock, file>>

\* Without a path there is nothing to write.
FlushNothing(r) ==
    /\ pc[r] = "flush"
    /\ ~ HasFilePath
    /\ Return(r, Answer(err[r]))
    /\ UNCHANGED <<clock, file, delivered, faults>>

\* ioutil.WriteFile truncates the file and then writes to it.
FlushTruncates(r) ==
    /\ pc[r] = "flush"
    /\ HasFilePath
    /\ file' = FileOf("empty")
    /\ pc' = [pc EXCEPT ![r] = "write"]
    /\ UNCHANGED <<clock, delivered, at, now, mem, alerts, err, result, faults>>

FlushFails(r) ==
    /\ pc[r] = "flush"
    /\ HasFilePath
    /\ Fault("disk")
    /\ Return(r, "error")
    /\ UNCHANGED <<clock, file, delivered>>

\* The content lands at offset zero.  If another execution wrote after this one
\* truncated, a longer content of the other leaves its tail behind.
FlushWrites(r) ==
    /\ pc[r] = "write"
    /\ \/ file' = JsonFile(mem[r])
       \/ file.kind # "empty" /\ file' = FileOf("torn")
    /\ Return(r, Answer(err[r]))
    /\ UNCHANGED <<clock, delivered, faults>>

\* The disk is full: nothing or only a part gets written.
WriteFails(r) ==
    /\ pc[r] = "write"
    /\ Fault("torn")
    /\ file' \in {file, FileOf("torn")}
    /\ Return(r, "error")
    /\ UNCHANGED <<clock, delivered>>

\* The process is killed: by the deadline of the Job, by its node, by a panic.
\* A report that is under way may have got out.
Crash(r) ==
    /\ pc[r] # "idle"
    /\ Fault("crash")
    /\ file' \in {file} \cup (IF pc[r] = "write" THEN {FileOf("torn")} ELSE {})
    /\ \/ UNCHANGED delivered
       \/ pc[r] = "report" /\ Deliver(r)
    /\ Return(r, "killed")
    /\ UNCHANGED clock

\* What an execution does between two failures of its environment.
Step(r) ==
    \/ LoadStore(r) \/ LoadFails(r)
    \/ Begin(r) \/ ConfigFails(r)
    \/ OpenCluster(r) \/ ClientFails(r)
    \/ DiagnoseCluster(r) \/ DiagnosisFails(r)
    \/ NothingToReport(r) \/ SomethingToReport(r)
    \/ Report(r) \/ ReportFails(r) \/ ReportUnacknowledged(r)
    \/ FlushNothing(r) \/ FlushTruncates(r) \/ FlushFails(r)
    \/ FlushWrites(r) \/ WriteFails(r)

Next ==
    \/ Tick
    \/ \E r \in Run : Start(r) \/ Step(r) \/ Crash(r)

Spec == Init /\ [][Next]_vars

\* The scheduler starts executions for ever, and an execution comes to an end:
\* a call it makes returns or fails, or the Job's deadline kills it.
\* Nothing obliges time to pass or a failure to happen.
Fairness == \A r \in Run : WF_vars(Start(r)) /\ WF_vars(Step(r))

FairSpec == Spec /\ Fairness

-----------------------------------------------------------------------------
(* Properties *)

\* Somebody was told of message k, or of one like it, recently enough for an
\* execution of instant n to keep silent about it.
Told(k, n) ==
    \E d \in delivered : Matches(d[1], k) /\ (d[2] = n \/ InGrace(d[2], n))

\* The messages that no successful execution can have overlooked.
Standing == {k \in Persisting \ Event :
                \E i \in 1..Len(Contexts) : Contexts[i] = ClusterOf[EntityOf[k]]}

\* Whatever the store file remembers as told was delivered, at that very
\* instant: a failed report, a failed cluster or a crash never leaves a record
\* behind that would silence an alert nobody got.
RecordedWasDelivered ==
    file.kind = "json" =>
        \A k \in Key : file.book[k] # None => <<k, file.book[k]>> \in delivered

\* An execution that returns no error has told of every standing problem, or
\* found that it was told, in grace: neither deduplication by similarity, nor
\* a skipped cluster, nor the early return on nothing to report loses one.
SuccessMeansTold ==
    \A r \in Run : result[r] = "ok" => \A k \in Standing : Told(k, now[r])

\* The search through a map for a similar message meets its entries in random
\* order.  The answer of TryAdd never depends on it, because a run prunes what
\* has expired before it searches.
MapOrderIsIrrelevant ==
    \A r \in Run : pc[r] = "diagnose" =>
        \A k \in KeysOf(Context(r)) :
            ~ (Skips(mem[r], k, now[r]) /\ Adds(mem[r], k, now[r]))

\* What an execution without an error flushes has not expired: each context was
\* opened and pruned, so the file holds, beside the records of contexts it does
\* not go through, only what was told within one deduplication time.
FlushIsPruned ==
    \A r \in Run : pc[r] \in {"flush", "write"} /\ ~ err[r] /\ DedupDuration > 0 =>
        \A i \in 1..Len(Contexts) : \A k \in KeysOf(Contexts[i]) :
            mem[r][k] # None => InGrace(mem[r][k], now[r])

\* No report repeats an alert, or sends one like it, that was delivered and is
\* still in grace.  (config.go:139: the deduplication time is there "to
\* silence duplicate or already observed alerts".)
NoRepeatInGrace ==
    [][\A r \in Run : (pc[r] = "report" /\ pc'[r] = "flush") =>
        \A k \in alerts[r], d \in delivered :
            Matches(d[1], k) => ~ InGrace(d[2], now[r])]_vars

\* The file does not parse and no execution holds a good copy of it.
Broken ==
    /\ HasFilePath
    /\ file.kind = "torn"
    /\ \A r \in Run : pc[r] \in {"idle", "load"}

\* Once the store file is broken it stays so: no later execution gets past the
\* load (store.go:51-54), so none repairs the file and none delivers anything.
TornStoreIsFinal == [][Broken => Broken']_vars

\* A problem that stays is told again and again, at least once in each period
\* of grace, whatever failed before, unless the store file got broken.
StandingIsToldAgain ==
    \A k \in Standing : []<>(Told(k, clock) \/ file.kind = "torn")

=============================================================================
