----------------------------- MODULE SinkProofs -----------------------------
(***************************************************************************)
(* Theorems about reporting to any number of sinks, in any order: the loop *)
(* over the sinks implements the one report of Scout, so that what is      *)
(* proved of Scout holds of it too; and what the store file remembers was  *)
(* heard by every one of the sinks.                                        *)
(***************************************************************************)
EXTENDS ScoutProofs, Sinks

-----------------------------------------------------------------------------
(* Each step is one of Scout's or leaves Scout's variables alone. *)

LEMMA SinkStepIsScouts == [SinkNext]_<<vars, sinkVars>> => [Next]_vars
  <1> SUFFICES ASSUME [SinkNext]_<<vars, sinkVars>> PROVE Next \/ UNCHANGED vars
    OBVIOUS
  <1>1. CASE UNCHANGED <<vars, sinkVars>>
    BY <1>1
  <1>2. CASE Tick /\ UNCHANGED sinkVars
    BY <1>2 DEF Next
  <1>3. ASSUME NEW r \in Run, StartProcess(r) \/ Killed(r) PROVE Next
    BY <1>3 DEF StartProcess, Killed, Next
  <1>4. ASSUME NEW r \in Run, SinkStep(r) PROVE Next \/ UNCHANGED vars
    <2>1. CASE Step(r)
      BY <2>1 DEF Next
    <2>2. CASE SinkAcknowledges(r) \/ SinkFailsToPost(r) \/ SinkPostFails(r)
      BY <2>2 DEF SinkAcknowledges, SinkFailsToPost, SinkPostFails, Refuses, Reporting
    <2>3. CASE MultiSinkReturns(r)
      <3>1. Report(r) \/ ReportUnacknowledged(r) \/ ReportFails(r)
        BY <2>3 DEF MultiSinkReturns
      <3> QED  BY <3>1 DEF Step, Next
    <2> QED  BY <1>4, <2>1, <2>2, <2>3 DEF SinkStep
  <1> QED  BY <1>1, <1>2, <1>3, <1>4 DEF SinkNext

\* The loop of MultiSink (sink.go:49-57), sink by sink, implements the report
\* that Scout takes as one step with three outcomes.
THEOREM SinksImplementScout == SinkSpec => Spec
  <1>1. SinkInit => Init
    BY DEF SinkInit
  <1> QED  BY <1>1, SinkStepIsScouts, PTL DEF SinkSpec, Spec

-----------------------------------------------------------------------------
(* What the file remembers was heard by all.                               *)
(*                                                                         *)
(* Inductive is that what an execution has in memory was heard by every    *)
(* sink or is about to be reported at its own instant; that each sink      *)
(* before the turn of the loop heard the alerts or is among the refusers;  *)
(* and that at the flush all of them have heard.                           *)

HeardByAll(k, t) == \A s \in Sink : <<k, t>> \in heard[s]

MemoryIsHeard ==
    \A r \in Run : \A k \in Key : mem[r][k] # None =>
        HeardByAll(k, mem[r][k]) \/ (k \in alerts[r] /\ mem[r][k] = now[r])

FlushedIsHeard ==
    \A r \in Run : pc[r] \in {"flush", "write"} =>
        \A k \in alerts[r] : HeardByAll(k, now[r])

LoopHears ==
    \A r \in Run : pc[r] = "report" =>
        \A i \in 1..(turn[r] - 1) :
            \/ Order[i] \in refusers[r]
            \/ \A k \in alerts[r] : <<k, now[r]>> \in heard[Order[i]]

HeardInv ==
    /\ DeliveryInv
    /\ SinkTypeOK
    /\ MemoryIsHeard
    /\ FlushedIsHeard
    /\ LoopHears
    /\ RecordedWasHeardByAll

Kept ==
    /\ MemoryIsHeard
    /\ FlushedIsHeard
    /\ LoopHears
    /\ RecordedWasHeardByAll

\* Steps of the loop: the sinks hear more, and nothing else changes.
LEMMA SinkTurn ==
  ASSUME HeardInv, NEW r \in Run, pc[r] = "report", turn[r] <= Len(Order),
         turn' = [turn EXCEPT ![r] = turn[r] + 1], UNCHANGED vars,
         \/ Hears(Turn(r), r) /\ UNCHANGED refusers
         \/ /\ refusers' = [refusers EXCEPT ![r] = refusers[r] \cup {Turn(r)}]
            /\ Hears(Turn(r), r) \/ UNCHANGED heard,
         transport' \in [Run -> OwnGetter \cup {Default}]
  PROVE  SinkTypeOK' /\ Kept'
  <1> USE DEF HeardInv, SinkTypeOK
  <1>1. Len(Order) \in Nat /\ \A i \in 1..Len(Order) : Order[i] \in Sink
    BY SinkAssumption
  <1>2. turn[r] \in 1..Len(Order) /\ Turn(r) \in Sink
    BY <1>1 DEF Turn
  <1>3. alerts[r] \X {now[r]} \subseteq Key \X Time
    BY DEF DeliveryInv, TypeInv, TypeOK
  <1>4. /\ heard' \in [Sink -> SUBSET (Key \X Time)]
        /\ \A s \in Sink : heard[s] \subseteq heard'[s]
    BY <1>2, <1>3 DEF Hears
  <1>5. SinkTypeOK'
    <2>1. turn' \in [Run -> 1..(Len(Order) + 1)]
      BY <1>1, <1>2
    <2>2. refusers' \in [Run -> SUBSET Sink] /\ pc' = pc
      BY <1>2 DEF vars
    <2>3. \A s \in Run \ {r} : turn'[s] = turn[s] /\ refusers'[s] = refusers[s]
      OBVIOUS
    <2> QED  BY <1>4, <2>1, <2>2, <2>3
  <1>6. MemoryIsHeard' /\ FlushedIsHeard' /\ RecordedWasHeardByAll'
    BY <1>4 DEF MemoryIsHeard, FlushedIsHeard, RecordedWasHeardByAll, HeardByAll, vars
  <1>7. LoopHears'
    <2> SUFFICES ASSUME NEW s \in Run, pc[s] = "report", NEW i \in 1..(turn'[s] - 1)
                 PROVE  \/ Order[i] \in refusers'[s]
                        \/ \A k \in alerts[s] : <<k, now[s]>> \in heard'[Order[i]]
      BY DEF LoopHears, vars
    <2>1. Order[i] \in Sink
      BY <1>1, <1>5
    <2>2. CASE s = r /\ i = turn[r]
      <3>1. CASE Hears(Turn(r), r)
        BY <1>2, <2>2, <3>1 DEF Hears, Turn
      <3>2. CASE refusers' = [refusers EXCEPT ![r] = refusers[r] \cup {Turn(r)}]
        BY <2>2, <3>2 DEF Turn
      <3> QED  BY <3>1, <3>2
    <2>3. CASE ~ (s = r /\ i = turn[r])
      <3>1. i \in 1..(turn[s] - 1) /\ refusers[s] \subseteq refusers'[s]
        BY <1>2, <2>3
      <3> QED  BY <1>4, <2>1, <3>1 DEF LoopHears
    <2> QED  BY <2>2, <2>3
  <1> QED  BY <1>5, <1>6, <1>7 DEF Kept

\* A slot that returns keeps the invariant, if the file does.
LEMMA ReturnKeepsHeard ==
  ASSUME HeardInv, NEW r \in Run, NEW a, Return(r, a),
         \A s \in Sink : heard[s] \subseteq heard'[s],
         \A s \in Run \ {r} : turn'[s] = turn[s] /\ refusers'[s] = refusers[s],
         RecordedWasHeardByAll'
  PROVE  Kept'
  <1>1. \A s \in Run \ {r} : /\ pc'[s] = pc[s] /\ mem'[s] = mem[s] /\ now'[s] = now[s]
                             /\ alerts'[s] = alerts[s]
    BY DEF Return
  <1>2. pc'[r] = "idle" /\ \A k \in Key : mem'[r][k] = None
    BY DEF Return, NoMessages, HeardInv, DeliveryInv, TypeInv, TypeOK
  <1>3. MemoryIsHeard' /\ FlushedIsHeard'
    BY <1>1, <1>2 DEF HeardInv, MemoryIsHeard, FlushedIsHeard, HeardByAll
  <1>4. LoopHears'
    <2> SUFFICES ASSUME NEW s \in Run \ {r}, pc[s] = "report", NEW i \in 1..(turn[s] - 1)
                 PROVE  \/ Order[i] \in refusers[s]
                        \/ \A k \in alerts[s] : <<k, now[s]>> \in heard'[Order[i]]
      BY <1>1, <1>2 DEF LoopHears
    <2>1. Order[i] \in Sink
      BY SinkAssumption DEF HeardInv, SinkTypeOK
    <2> QED  BY <2>1 DEF HeardInv, LoopHears
  <1> QED  BY <1>3, <1>4 DEF Kept

\* A step of Scout outside the report leaves the sinks alone.
LEMMA StepKeepsHeard ==
  ASSUME HeardInv, NEW r \in Run, pc[r] # "report", Step(r), UNCHANGED sinkVars
  PROVE  Kept'
  <1> USE DEF HeardInv, DeliveryInv, TypeInv, TypeOK
  <1>a. heard' = heard /\ turn' = turn /\ refusers' = refusers
    BY DEF sinkVars
  <1>b. turn[r] = 1
    BY DEF SinkTypeOK
  <1>c. ASSUME file' = file PROVE RecordedWasHeardByAll'
    BY <1>a, <1>c DEF RecordedWasHeardByAll
  <1>1. CASE LoadStore(r)
    <2>1. \A k \in Key : LoadOrCreate(file)[k] # None =>
              HeardByAll(k, LoadOrCreate(file)[k])
      BY DEF LoadOrCreate, NoMessages, RecordedWasHeardByAll, HeardByAll
    <2>2. MemoryIsHeard'
      BY <1>1, <1>a, <2>1 DEF LoadStore, MemoryIsHeard, HeardByAll
    <2> QED  BY <1>1, <1>a, <1>c, <2>2
             DEF LoadStore, Kept, FlushedIsHeard, LoopHears, HeardByAll
  <1>2. CASE Begin(r)
    BY <1>2, <1>a, <1>c DEF Begin, Kept, MemoryIsHeard, FlushedIsHeard, LoopHears,
                            HeardByAll, NoAlertsBeforeBegin
  <1>3. CASE OpenCluster(r)
    <2>1. \A k \in Key : mem'[r][k] \in {None, mem[r][k]}
      BY <1>3, GetClusterStoreType DEF OpenCluster
    <2>2. MemoryIsHeard'
      BY <1>3, <1>a, <2>1 DEF OpenCluster, MemoryIsHeard, HeardByAll
    <2> QED  BY <1>3, <1>a, <1>c, <2>2
             DEF OpenCluster, Kept, FlushedIsHeard, LoopHears, HeardByAll
  <1>4. CASE ClientFails(r) \/ DiagnosisFails(r)
    <2>1. /\ UNCHANGED <<file, now, mem, alerts>>
          /\ \A s \in Run : pc'[s] = pc[s] \/ pc'[s] = "cluster"
      BY <1>4 DEF ClientFails, DiagnosisFails, SkipCluster
    <2> QED  BY <1>a, <1>c, <2>1
             DEF Kept, MemoryIsHeard, FlushedIsHeard, LoopHears, HeardByAll
  <1>5. CASE DiagnoseCluster(r)
    <2>1. PICK added \in SUBSET Key :
            /\ mem' = [mem EXCEPT ![r] = Recorded(mem[r], added, now[r])]
            /\ alerts' = [alerts EXCEPT ![r] = alerts[r] \cup added]
      BY <1>5 DEF DiagnoseCluster, Sightings, KeysOf
    <2>2. \A k \in Key : mem'[r][k] = IF k \in added THEN now[r] ELSE mem[r][k]
      BY <2>1 DEF Recorded
    <2>3. MemoryIsHeard'
      BY <1>5, <1>a, <2>1, <2>2 DEF DiagnoseCluster, MemoryIsHeard, HeardByAll
    <2> QED  BY <1>5, <1>a, <1>c, <2>1, <2>3
             DEF DiagnoseCluster, Kept, FlushedIsHeard, LoopHears, HeardByAll
  <1>6. CASE SomethingToReport(r)
    <2>1. /\ UNCHANGED <<file, now, mem, alerts>>
          /\ pc'[r] = "report" /\ \A s \in Run \ {r} : pc'[s] = pc[s]
      BY <1>6 DEF SomethingToReport
    <2>2. LoopHears'
      <3> SUFFICES ASSUME NEW s \in Run, pc'[s] = "report", NEW i \in 1..(turn[s] - 1)
                   PROVE  \/ Order[i] \in refusers[s]
                          \/ \A k \in alerts[s] : <<k, now[s]>> \in heard[Order[i]]
        BY <1>a, <2>1 DEF LoopHears
      <3>1. s # r
        BY <1>b
      <3> QED  BY <2>1, <3>1 DEF LoopHears
    <2> QED  BY <1>a, <1>c, <2>1, <2>2 DEF Kept, MemoryIsHeard, FlushedIsHeard, HeardByAll
  <1>7. CASE FlushTruncates(r)
    <2>1. /\ UNCHANGED <<now, mem, alerts>>
          /\ pc[r] = "flush" /\ pc'[r] = "write"
          /\ \A s \in Run \ {r} : pc'[s] = pc[s]
      BY <1>7 DEF FlushTruncates
    <2>2. RecordedWasHeardByAll'
      BY <1>7 DEF FlushTruncates, FileOf, RecordedWasHeardByAll
    <2>3. MemoryIsHeard' /\ FlushedIsHeard'
      BY <1>a, <2>1 DEF MemoryIsHeard, FlushedIsHeard, HeardByAll
    <2>4. LoopHears'
      BY <1>a, <2>1 DEF LoopHears
    <2> QED  BY <2>2, <2>3, <2>4 DEF Kept
  <1>8. CASE FlushWrites(r)
    <2>1. \A k \in Key : mem[r][k] # None => HeardByAll(k, mem[r][k])
      BY <1>8 DEF FlushWrites, MemoryIsHeard, FlushedIsHeard
    <2>2. RecordedWasHeardByAll'
      BY <1>8, <1>a, <2>1
      DEF FlushWrites, JsonFile, FileOf, RecordedWasHeardByAll, HeardByAll
    <2> QED  BY <1>8, <1>a, <2>2, ReturnKeepsHeard DEF FlushWrites
  <1>9. CASE WriteFails(r)
    <2>1. RecordedWasHeardByAll'
      BY <1>9, <1>a DEF WriteFails, FileOf, RecordedWasHeardByAll
    <2> QED  BY <1>9, <1>a, <2>1, ReturnKeepsHeard DEF WriteFails
  <1>10. CASE \/ LoadFails(r) \/ ConfigFails(r) \/ NothingToReport(r)
              \/ FlushNothing(r) \/ FlushFails(r)
    BY <1>10, <1>a, <1>c, ReturnKeepsHeard
    DEF LoadFails, ConfigFails, NothingToReport, FlushNothing, FlushFails
  <1> QED
    BY <1>1, <1>2, <1>3, <1>4, <1>5, <1>6, <1>7, <1>8, <1>9, <1>10
    DEF Step, Report, ReportFails, ReportUnacknowledged

\* Only MultiSink's return and a kill end a loop; they leave no index behind.
LEMMA LoopStep ==
  ASSUME HeardInv, NEW r \in Run,
         \/ StartProcess(r) \/ Killed(r) \/ MultiSinkReturns(r)
         \/ pc[r] # "report" /\ Step(r) /\ UNCHANGED sinkVars
  PROVE  SinkTypeOK'
  <1> USE DEF HeardInv, DeliveryInv, TypeInv, TypeOK, SinkTypeOK
  <1>0. 1 \in 1..(Len(Order) + 1)
    BY SinkAssumption
  <1>1. CASE StartProcess(r)
    BY <1>1 DEF StartProcess, SetTransport, Start
  <1>2. CASE Killed(r) \/ MultiSinkReturns(r)
    <2>1. /\ turn' = [turn EXCEPT ![r] = 1] /\ refusers' = [refusers EXCEPT ![r] = {}]
          /\ transport' \in [Run -> OwnGetter \cup {Default}]
      BY <1>2 DEF Killed, SetTransport, MultiSinkReturns
    <2>3. heard' \in [Sink -> SUBSET (Key \X Time)]
      <3>1. alerts[r] \X {now[r]} \subseteq Key \X Time
        OBVIOUS
      <3>2. heard' = heard \/ Hears(Turn(r), r)
        BY <1>2 DEF Killed, MultiSinkReturns
      <3> HIDE DEF HeardInv, DeliveryInv, TypeInv, TypeOK
      <3> QED  BY <3>1, <3>2 DEF Hears, HeardInv
    <2>2. \A s \in Run \ {r} : pc'[s] = pc[s]
      BY <1>2 DEF Killed, Crash, MultiSinkReturns, Report, ReportFails,
                  ReportUnacknowledged, Return
    <2> QED  BY <1>0, <2>1, <2>2, <2>3
  <1>3. CASE pc[r] # "report" /\ Step(r) /\ UNCHANGED sinkVars
    <2>1. \A s \in Run \ {r} : pc'[s] = pc[s]
      BY <1>3
      DEF Step, LoadStore, LoadFails, Begin, ConfigFails, OpenCluster, ClientFails,
          DiagnoseCluster, DiagnosisFails, SkipCluster, NothingToReport,
          SomethingToReport, Report, ReportFails, ReportUnacknowledged, FlushNothing,
          FlushTruncates, FlushFails, FlushWrites, WriteFails, Return
    <2> QED  BY <1>3, <2>1 DEF sinkVars
  <1> QED  BY <1>1, <1>2, <1>3

LEMMA HeardStep == HeardInv /\ [SinkNext]_<<vars, sinkVars>> => HeardInv'
  <1> SUFFICES ASSUME HeardInv, [SinkNext]_<<vars, sinkVars>>
               PROVE  SinkTypeOK' /\ Kept'
    BY SinkStepIsScouts, DeliveryStep DEF HeardInv, Kept
  <1>1. CASE UNCHANGED <<vars, sinkVars>> \/ (Tick /\ UNCHANGED sinkVars)
    BY <1>1 DEF vars, sinkVars, Tick, HeardInv, SinkTypeOK, Kept, MemoryIsHeard,
                FlushedIsHeard, LoopHears, HeardByAll, RecordedWasHeardByAll
  <1>2. ASSUME NEW r \in Run, StartProcess(r) PROVE SinkTypeOK' /\ Kept'
    <2>1. /\ UNCHANGED <<file, now, mem, alerts, heard, turn, refusers>>
          /\ pc'[r] = "load" /\ \A s \in Run \ {r} : pc'[s] = pc[s]
      BY <1>2 DEF StartProcess, Start, HeardInv, DeliveryInv, TypeInv, TypeOK
    <2>2. MemoryIsHeard' /\ FlushedIsHeard' /\ RecordedWasHeardByAll'
      BY <2>1 DEF HeardInv, MemoryIsHeard, FlushedIsHeard, RecordedWasHeardByAll,
                  HeardByAll
    <2>3. LoopHears'
      BY <2>1 DEF HeardInv, LoopHears
    <2> QED  BY <1>2, <2>2, <2>3, LoopStep DEF Kept
  <1>3. ASSUME NEW r \in Run, Killed(r) PROVE SinkTypeOK' /\ Kept'
    <2>1. \A s \in Sink : heard[s] \subseteq heard'[s]
      BY <1>3 DEF Killed, Hears, HeardInv, SinkTypeOK
    <2>2. RecordedWasHeardByAll'
      BY <1>3, <2>1 DEF Killed, Crash, FileOf, HeardInv, RecordedWasHeardByAll
    <2>3. \A s \in Run \ {r} : turn'[s] = turn[s] /\ refusers'[s] = refusers[s]
      BY <1>3 DEF Killed
    <2> QED  BY <1>3, <2>1, <2>2, <2>3, LoopStep, ReturnKeepsHeard DEF Killed, Crash
  <1>4. ASSUME NEW r \in Run, SinkStep(r) PROVE SinkTypeOK' /\ Kept'
    <2>1. CASE pc[r] # "report" /\ Step(r) /\ UNCHANGED sinkVars
      BY <2>1, LoopStep, StepKeepsHeard
    <2>2. CASE SinkAcknowledges(r) \/ SinkFailsToPost(r) \/ SinkPostFails(r)
      <3>1. transport' \in [Run -> OwnGetter \cup {Default}]
        BY <2>2 DEF SinkAcknowledges, SinkFailsToPost, SinkPostFails, SetTransport, Route,
                    HeardInv, SinkTypeOK
      <3> QED  BY <2>2, <3>1, SinkTurn
      DEF SinkAcknowledges, SinkFailsToPost, SinkPostFails, Refuses, Reporting
    <2>3. CASE MultiSinkReturns(r)
      <3>1. SinkTypeOK' /\ heard' = heard
        BY <2>3, LoopStep DEF MultiSinkReturns
      <3>2. \A s \in Run \ {r} : turn'[s] = turn[s] /\ refusers'[s] = refusers[s]
        BY <2>3 DEF MultiSinkReturns
      <3>3. CASE refusers[r] = {} /\ Report(r)
        <4>1. \A k \in alerts[r] : HeardByAll(k, now[r])
          <5> SUFFICES ASSUME NEW k \in alerts[r], NEW s \in Sink
                       PROVE  <<k, now[r]>> \in heard[s]
            BY DEF HeardByAll
          <5>1. PICK i \in 1..Len(Order) : Order[i] = s
            BY SinkAssumption
          <5>2. i \in 1..(turn[r] - 1)
            BY <2>3, SinkAssumption DEF MultiSinkReturns
          <5> QED  BY <3>3, <5>1, <5>2 DEF HeardInv, LoopHears, Report
        <4>2. /\ mem' = mem /\ now' = now /\ alerts' = alerts /\ file' = file
              /\ \A s \in Run \ {r} : pc'[s] = pc[s]
              /\ pc'[r] = "flush"
          BY <3>3 DEF Report, HeardInv, DeliveryInv, TypeInv, TypeOK
        <4> QED  BY <3>1, <3>2, <4>1, <4>2
                 DEF HeardInv, Kept, MemoryIsHeard, FlushedIsHeard, LoopHears,
                     HeardByAll, RecordedWasHeardByAll
      <3>4. CASE ReportUnacknowledged(r) \/ ReportFails(r)
        <4>1. RecordedWasHeardByAll'
          BY <3>1, <3>4
          DEF ReportUnacknowledged, ReportFails, HeardInv, RecordedWasHeardByAll
        <4> QED  BY <3>1, <3>2, <3>4, <4>1, ReturnKeepsHeard
                 DEF ReportUnacknowledged, ReportFails
      <3> QED  BY <2>3, <3>3, <3>4 DEF MultiSinkReturns
    <2> QED  BY <1>4, <2>1, <2>2, <2>3 DEF SinkStep
  <1> QED  BY <1>1, <1>2, <1>3, <1>4 DEF SinkNext

LEMMA HeardInit == SinkInit => HeardInv
  <1> SUFFICES ASSUME SinkInit PROVE HeardInv
    OBVIOUS
  <1>1. DeliveryInv /\ 1 \in 1..(Len(Order) + 1)
    BY DeliveryInit, SinkAssumption DEF SinkInit
  <1> QED  BY <1>1 DEF SinkInit, Init, HeardInv, SinkTypeOK, MemoryIsHeard,
                       FlushedIsHeard, LoopHears, RecordedWasHeardByAll, NoMessages,
                       FileOf

\* The index of the loop stays in its range and starts anew with each report, the
\* errors of one report never reach the next, and the shared client has the
\* transport of a sink with a getter, or none (http.go:29-32).
THEOREM SinkTypeCorrect == SinkSpec => []SinkTypeOK
  <1>1. HeardInv => SinkTypeOK
    BY DEF HeardInv
  <1> QED  BY <1>1, HeardInit, HeardStep, PTL DEF SinkSpec

\* Whichever sinks fail, in whatever order, and wherever an execution is killed
\* between two of them, the store file remembers only what every sink heard at
\* the remembered instant, because MultiSink aggregates all errors
\* (sink.go:51-55) and Scout flushes after a report without an error only.
THEOREM RecordedIsHeardByAll == SinkSpec => []RecordedWasHeardByAll
  <1>1. HeardInv => RecordedWasHeardByAll
    BY DEF HeardInv
  <1> QED  BY <1>1, HeardInit, HeardStep, PTL DEF SinkSpec

-----------------------------------------------------------------------------
(* An execution that succeeds answers for every sink.                      *)
(*                                                                         *)
(* The argument is that of SuccessTells, sink by sink: what an execution   *)
(* keeps silent about is a record, which all sinks heard; what it reports, *)
(* all sinks have heard when the flush begins.                             *)

ToldToAll(k, n) == \A s \in Sink : ToldTo(s, k, n)

CoveredForAll(r, k) == ToldToAll(k, now[r]) \/ \E j \in alerts[r] : Matches(j, k)

Answers(r) ==
    /\ pc[r] # "idle" /\ ~ err[r] =>
         \A k \in Standing : Behind(r, k) => CoveredForAll(r, k)
    /\ result[r] = "ok" => \A k \in Standing : ToldToAll(k, now[r])

AnswerInv ==
    /\ SuccessInv
    /\ HeardInv
    /\ \A r \in Run : Answers(r)

SinksHearMore == \A s \in Sink : heard[s] \subseteq heard'[s]

\* What was told stays told, so the other slots still answer for all sinks.
LEMMA OthersStillAnswer ==
  ASSUME NEW r \in Run, Alone(r), SinksHearMore, NEW s \in Run \ {r}, Answers(s)
  PROVE  Answers(s)'
  BY DEF Alone, Answers, CoveredForAll, ToldToAll, ToldTo, Behind, SinksHearMore

\* After the loop over the contexts an execution has covered everything.
LEMMA LoopCoversForAll ==
  ASSUME AnswerInv, NEW r \in Run, pc[r] # "idle", ~ Looping(r), ~ err[r]
  PROVE  \A k \in Standing : CoveredForAll(r, k)
  <1> SUFFICES ASSUME NEW k \in Standing PROVE Behind(r, k)
    BY DEF AnswerInv, Answers
  <1>1. PICK i \in 1..Len(Contexts) : Contexts[i] = ClusterOf[EntityOf[k]]
    BY DEF Standing
  <1>2. at[r] \in 1..(Len(Contexts) + 1) /\ ~ at[r] <= Len(Contexts)
    BY DEF AnswerInv, SuccessInv, DeliveryInv, TypeInv, TypeOK, Looping
  <1>3. Len(Contexts) \in Nat
    BY ScoutAssumption
  <1>4. at[r] = Len(Contexts) + 1
    BY <1>2, <1>3
  <1> QED  BY <1>1, <1>3, <1>4 DEF Behind

\* A slot that returns answers for all sinks if it returns its kept error after
\* telling all, or any error.
LEMMA ReturnAnswers ==
  ASSUME AnswerInv, NEW r \in Run, NEW a, Return(r, a), SinksHearMore,
         a = "ok" => \A k \in Standing : ToldToAll(k, now[r])
  PROVE  Answers(r)' /\ Alone(r)
  <1>1. Alone(r) /\ now' = now /\ pc'[r] = "idle" /\ result'[r] = a
    BY DEF Return, Alone, AnswerInv, SuccessInv, DeliveryInv, TypeInv, TypeOK
  <1> QED  BY <1>1 DEF Answers, ToldToAll, ToldTo, SinksHearMore

\* A flush comes after all sinks have heard of what is reported.
LEMMA FlushedIsToldToAll ==
  ASSUME AnswerInv, NEW r \in Run, pc[r] \in {"flush", "write"}, ~ err[r]
  PROVE  \A k \in Standing : ToldToAll(k, now[r])
  <1>1. \A k \in Standing : CoveredForAll(r, k)
    BY LoopCoversForAll DEF AnswerInv, SuccessInv, Sound
  <1>2. \A j \in alerts[r], s \in Sink : <<j, now[r]>> \in heard[s]
    BY DEF AnswerInv, HeardInv, FlushedIsHeard, HeardByAll
  <1> QED  BY <1>1, <1>2 DEF CoveredForAll, ToldToAll, ToldTo

\* A diagnosis covers the standing messages of its cluster for every sink.
LEMMA DiagnosisCoversForAll ==
  ASSUME AnswerInv, NEW r \in Run,
         NEW seen \in Sightings(Context(r), Persisting), NEW added \in SUBSET seen,
         Accepted(mem[r], seen, added, now[r]),
         NEW k \in Standing, ClusterOf[EntityOf[k]] = Context(r)
  PROVE  ToldToAll(k, now[r]) \/ \E j \in alerts[r] \cup added : Matches(j, k)
  <1>1. k \in seen \ Event /\ k \in Key
    BY ScoutAssumption DEF Standing, Sightings, KeysOf
  <1>2. \/ k \in added
        \/ Skips(mem[r], k, now[r])
        \/ \E j \in added : Matches(j, k)
    BY <1>1 DEF Accepted, AcceptedOf
  <1>3. CASE k \in added
    BY <1>3 DEF Matches
  <1>4. CASE Skips(mem[r], k, now[r])
    <2>1. PICK j \in Key : /\ mem[r][j] # None
                           /\ Matches(j, k)
                           /\ InGrace(mem[r][j], now[r])
      BY <1>1, <1>4 DEF Skips, tryMatch, Matches
    <2>2. HeardByAll(j, mem[r][j]) \/ j \in alerts[r]
      BY <2>1 DEF AnswerInv, HeardInv, MemoryIsHeard
    <2> QED  BY <2>1, <2>2 DEF HeardByAll, ToldToAll, ToldTo
  <1> QED  BY <1>2, <1>3, <1>4

\* The steps of Scout outside the report, with the sinks left alone.
LEMMA StepAnswers ==
  ASSUME AnswerInv, NEW r \in Run, pc[r] # "report", Step(r), UNCHANGED heard
  PROVE  Answers(r)' /\ Alone(r)
  <1>a. TypeOK /\ Answers(r) /\ Sound(r)
    BY DEF AnswerInv, SuccessInv, DeliveryInv, TypeInv
  <1>b. SinksHearMore
    BY DEF SinksHearMore
  <1>1. CASE LoadStore(r)
    BY <1>1, <1>a
    DEF LoadStore, TypeOK, Sound, Answers, CoveredForAll, ToldToAll, ToldTo, Behind, Alone
  <1>2. CASE Begin(r)
    BY <1>2, <1>a DEF Begin, TypeOK, Sound, Answers, Behind, Alone
  <1>3. CASE OpenCluster(r) \/ SomethingToReport(r) \/ FlushTruncates(r)
    <2>1. /\ pc[r] # "idle" /\ UNCHANGED <<at, now, alerts, err, result>>
          /\ \A s \in Run \ {r} : pc'[s] = pc[s]
      BY <1>3, <1>a DEF OpenCluster, SomethingToReport, FlushTruncates, TypeOK
    <2>2. Alone(r)
      BY <2>1 DEF Alone
    <2>3. \A k \in Standing : (CoveredForAll(r, k)' <=> CoveredForAll(r, k))
                             /\ (ToldToAll(k, now[r])' <=> ToldToAll(k, now[r]))
                             /\ (Behind(r, k)' <=> Behind(r, k))
      BY <2>1 DEF CoveredForAll, ToldToAll, ToldTo, Behind
    <2> QED  BY <2>1, <2>2, <2>3, <1>a DEF Answers
  <1>4. CASE ClientFails(r) \/ DiagnosisFails(r)
    BY <1>4, <1>a
    DEF ClientFails, DiagnosisFails, SkipCluster, TypeOK, Sound, Answers, Alone
  <1>5. CASE DiagnoseCluster(r)
    <2>0. PICK seen \in Sightings(Context(r), Persisting) :
            \E added \in SUBSET seen :
              /\ Accepted(mem[r], seen, added, now[r])
              /\ alerts' = [alerts EXCEPT ![r] = alerts[r] \cup added]
      BY <1>5 DEF DiagnoseCluster
    <2>1. PICK added \in SUBSET seen :
            /\ Accepted(mem[r], seen, added, now[r])
            /\ alerts' = [alerts EXCEPT ![r] = alerts[r] \cup added]
      BY <2>0
    <2>2. Alone(r)
      BY <1>5, <2>1 DEF DiagnoseCluster, Alone
    <2>3. /\ pc[r] = "diagnose" /\ at'[r] = at[r] + 1
          /\ now' = now /\ err' = err /\ result' = result
          /\ alerts'[r] = alerts[r] \cup added
      BY <1>5, <1>a, <2>1 DEF DiagnoseCluster, TypeOK
    <2>4. ASSUME NEW k \in Standing, Behind(r, k)', ~ err[r] PROVE CoveredForAll(r, k)'
      <3>1. at[r] \in Nat /\ (Behind(r, k) \/ Context(r) = ClusterOf[EntityOf[k]])
        BY <1>a, <2>3, <2>4, ScoutAssumption DEF TypeOK, Behind, Context
      <3>2. ToldToAll(k, now[r]) \/ \E j \in alerts[r] \cup added : Matches(j, k)
        BY <1>a, <2>1, <2>3, <2>4, <3>1, DiagnosisCoversForAll DEF Answers, CoveredForAll
      <3> QED  BY <2>3, <3>2 DEF CoveredForAll, ToldToAll, ToldTo
    <2>5. result[r] # "ok"
      BY <1>a, <2>3 DEF Sound
    <2> QED  BY <1>a, <2>2, <2>3, <2>4, <2>5 DEF Answers
  <1>6. CASE NothingToReport(r)
    <2>1. ~ err[r] => \A k \in Standing : ToldToAll(k, now[r])
      BY <1>6, LoopCoversForAll DEF NothingToReport, CoveredForAll
    <2> QED  BY <1>6, <1>b, <2>1, ReturnAnswers DEF NothingToReport, Answer
  <1>7. CASE FlushNothing(r) \/ FlushWrites(r)
    BY <1>7, <1>b, FlushedIsToldToAll, ReturnAnswers DEF FlushNothing, FlushWrites, Answer
  <1>8. CASE LoadFails(r) \/ ConfigFails(r) \/ FlushFails(r) \/ WriteFails(r)
    BY <1>8, <1>b, ReturnAnswers DEF LoadFails, ConfigFails, FlushFails, WriteFails
  <1> QED
    BY <1>1, <1>2, <1>3, <1>4, <1>5, <1>6, <1>7, <1>8
    DEF Step, Report, ReportFails, ReportUnacknowledged

LEMMA AnswerStep == AnswerInv /\ [SinkNext]_<<vars, sinkVars>> => AnswerInv'
  <1> SUFFICES ASSUME AnswerInv, [SinkNext]_<<vars, sinkVars>>
               PROVE  \A s \in Run : Answers(s)'
    BY SinkStepIsScouts, SuccessStep, HeardStep DEF AnswerInv
  <1> DEFINE Goal(r) == Answers(r)' /\ Alone(r) /\ SinksHearMore
  <1>a. ASSUME NEW r \in Run, Goal(r) PROVE \A s \in Run : Answers(s)'
    BY <1>a, OthersStillAnswer DEF AnswerInv
  <1>b. ASSUME UNCHANGED <<pc, at, now, alerts, err, result>>, SinksHearMore
        PROVE  \A s \in Run : Answers(s)'
    BY <1>b DEF AnswerInv, Answers, CoveredForAll, ToldToAll, ToldTo, Behind, SinksHearMore
  <1>1. CASE UNCHANGED <<vars, sinkVars>> \/ (Tick /\ UNCHANGED sinkVars)
    BY <1>1, <1>b DEF vars, sinkVars, Tick, SinksHearMore
  <1>2. ASSUME NEW r \in Run, StartProcess(r) PROVE Goal(r)
    BY <1>2, ScoutAssumption
    DEF StartProcess, Start, AnswerInv, SuccessInv, DeliveryInv, TypeInv, TypeOK, Sound,
        Answers, Behind, Alone, SinksHearMore
  <1>3. ASSUME NEW r \in Run, Killed(r) PROVE Goal(r)
    <2>1. SinksHearMore
      BY <1>3 DEF Killed, Hears, SinksHearMore, AnswerInv, HeardInv, SinkTypeOK
    <2> QED  BY <1>3, <2>1, ReturnAnswers DEF Killed, Crash
  <1>4. ASSUME NEW r \in Run, pc[r] # "report", Step(r), UNCHANGED sinkVars PROVE Goal(r)
    BY <1>4, StepAnswers DEF sinkVars, SinksHearMore
  <1>5. ASSUME NEW r \in Run,
               SinkAcknowledges(r) \/ SinkFailsToPost(r) \/ SinkPostFails(r)
        PROVE  \A s \in Run : Answers(s)'
    <2>1. UNCHANGED vars /\ (Hears(Turn(r), r) \/ UNCHANGED heard)
      BY <1>5 DEF SinkAcknowledges, SinkFailsToPost, SinkPostFails, Refuses, Reporting
    <2>2. SinksHearMore
      BY <2>1 DEF Hears, SinksHearMore, AnswerInv, HeardInv, SinkTypeOK
    <2> QED  BY <1>b, <2>1, <2>2 DEF vars
  <1>6. ASSUME NEW r \in Run, MultiSinkReturns(r) PROVE Goal(r)
    <2>1. heard' = heard /\ SinksHearMore
      BY <1>6 DEF MultiSinkReturns, SinksHearMore
    <2>2. CASE Report(r)
      BY <2>1, <2>2 DEF Report, AnswerInv, SuccessInv, DeliveryInv, TypeInv, TypeOK, Sound,
                        Answers, CoveredForAll, ToldToAll, ToldTo, Behind, Alone
    <2>3. CASE ReportUnacknowledged(r) \/ ReportFails(r)
      BY <2>1, <2>3, ReturnAnswers DEF ReportUnacknowledged, ReportFails
    <2> QED  BY <1>6, <2>2, <2>3 DEF MultiSinkReturns
  <1> QED  BY <1>a, <1>1, <1>2, <1>3, <1>4, <1>5, <1>6 DEF SinkNext, SinkStep

\* An execution that returns no error has told every sink of every problem that
\* was there all the time, or relies on an alert in grace that every sink heard:
\* the one store of kubescout.go:24 never mixes up what different sinks know.
THEOREM SuccessTellsAll == SinkSpec => []SuccessMeansAllToldTo
  <1>1. AnswerInv => SuccessMeansAllToldTo
    BY DEF AnswerInv, Answers, ToldToAll, SuccessMeansAllToldTo
  <1>2. SinkInit => AnswerInv
    <2> SUFFICES ASSUME SinkInit, NEW r \in Run PROVE Answers(r)
      BY HeardInit, SuccessInit DEF SinkInit, AnswerInv
    <2> QED  BY DEF SinkInit, Init, Answers
  <1> QED  BY <1>1, <1>2, AnswerStep, PTL DEF SinkSpec

=============================================================================
