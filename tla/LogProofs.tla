------------------------------ MODULE LogProofs ------------------------------
(***************************************************************************)
(* That the executions of one slot implement AlertLog, whatever fails, for *)
(* any clusters, messages and contexts.                                    *)
(***************************************************************************)
EXTENDS SinkProofs, ScoutLog

\* One execution at a time (the chart's concurrencyPolicy: Forbid).
OneSlot == \E r \in Run : Run = {r}

-----------------------------------------------------------------------------
(* The inductive invariant.                                                *)
(*                                                                         *)
(* The log's memory changes when the file is truncated, from what the file *)
(* holds to what the execution has in memory.  Between the load and that   *)
(* moment the two drift apart, and what the mapping needs is that they do  *)
(* so only by what the log allows: the execution has dropped what expired  *)
(* and recorded what it is about to report.                                *)

\* A file without complete content remembers nothing, only a file that was
\* truncated is written to, and none without a path.
NothingHalfRead ==
    /\ file.kind # "json" => file.book = NoMessages
    /\ ~ HasFilePath =>
         file.kind # "json" /\ \A r \in Run : pc[r] # "write"
    /\ \A r \in Run : pc[r] = "write" => file.kind = "empty"

\* No execution is before a delivery or after the time of day.
TimeGoesOn ==
    \A r \in Run : now[r] <= clock /\ \A d \in delivered : d[2] <= now[r]

MemoryFollowsFile ==
    \A r \in Run :
        /\ pc[r] = "config" => mem[r] = file.book
        /\ pc[r] \in {"cluster", "diagnose", "report", "flush"} =>
             \A k \in Key :
                \/ mem[r][k] = file.book[k]
                \/ /\ mem[r][k] = None
                   /\ file.book[k] # None
                   /\ Expired(file.book[k], now[r])
                \/ k \in alerts[r] /\ mem[r][k] = now[r]

\* What is going to be reported is like nothing that the file silences.
AlertsUnlikeFile ==
    \A r \in Run :
        /\ pc[r] = "report" => alerts[r] # {}
        /\ pc[r] \in {"cluster", "diagnose", "report"} =>
             \A k \in alerts[r], j \in Key :
                file.book[j] # None /\ Matches(j, k) => ~ InGrace(file.book[j], now[r])

LogInv ==
    /\ DeliveryInv
    /\ FreshInv
    /\ NothingHalfRead
    /\ TimeGoesOn
    /\ MemoryFollowsFile
    /\ AlertsUnlikeFile

-----------------------------------------------------------------------------
(* The invariant is inductive. *)

Parts == NothingHalfRead /\ TimeGoesOn /\ MemoryFollowsFile /\ AlertsUnlikeFile

\* An execution that returns leaves the invariant to the file and the log.
LEMMA ReturnKeepsParts ==
  ASSUME TypeOK, NEW r \in Run, Run = {r}, NEW a, Return(r, a), Parts, clock' = clock,
         delivered' \subseteq delivered \cup (alerts[r] \X {now[r]}),
         file'.kind # "json" => file'.book = NoMessages,
         ~ HasFilePath => file'.kind # "json"
  PROVE  Parts'
  <1>1. pc'[r] = "idle" /\ now' = now /\ now[r] \in Int
    BY DEF Return, TypeOK, Time
  <1>2. \A d \in delivered' : d[2] <= now[r]
    BY <1>1 DEF Parts, TimeGoesOn
  <1> QED  BY <1>1, <1>2 DEF Parts, NothingHalfRead, TimeGoesOn, MemoryFollowsFile,
                             AlertsUnlikeFile

\* A cluster that is skipped changes neither memory, alerts, file nor log.
LEMMA SkipKeepsParts ==
  ASSUME TypeOK, NEW r \in Run, Run = {r}, SkipCluster(r), Parts,
         pc[r] \in {"cluster", "diagnose"}
  PROVE  Parts'
  <1>1. pc'[r] = "cluster"
    BY DEF SkipCluster, TypeOK
  <1> QED  BY <1>1 DEF SkipCluster, Parts, NothingHalfRead, TimeGoesOn, MemoryFollowsFile,
                       AlertsUnlikeFile

\* What TryAdd accepts on a fresh book is like no record of it.
LEMMA AddsUnlike ==
  ASSUME NEW book \in Book, NEW n, NEW k \in Key, Adds(book, k, n),
         DedupDuration > 0,
         \A j \in Key : EntityOf[j] = EntityOf[k] /\ book[j] # None => InGrace(book[j], n)
  PROVE  \A j \in Key : Matches(j, k) => book[j] = None
  <1>1. \A j \in tryMatch(book, k) : j \in Key /\ EntityOf[j] = EntityOf[k] /\ book[j] # None
    BY DEF tryMatch, Matches
  <1>2. tryMatch(book, k) = {}
    BY <1>1 DEF Adds
  <1> QED  BY <1>2 DEF tryMatch

\* What a diagnosis accepts is like nothing in memory that is in grace; events
\* are offered when the messages of the same diagnosis are recorded.
LEMMA DiagnosedUnlike ==
  ASSUME FreshInv, NEW r \in Run, pc[r] = "diagnose",
         NEW seen \in Sightings(Context(r), Persisting), NEW added \in SUBSET seen,
         Accepted(mem[r], seen, added, now[r]), DedupDuration > 0,
         NEW k \in added, NEW j \in Key, Matches(j, k)
  PROVE  mem[r][j] = None
  <1> DEFINE told == added \ Event
             book == Recorded(mem[r], told, now[r])
  <1>1. now[r] \in Time /\ now[r] \in Int /\ mem[r] \in Book
    BY DEF FreshInv, TypeInv, TypeOK, Time
  <1>2. k \in Key /\ k \in KeysOf(Context(r))
    BY DEF Sightings, KeysOf
  <1>3. \A i \in Key : EntityOf[i] = EntityOf[k] /\ mem[r][i] # None
                        => InGrace(mem[r][i], now[r])
    BY <1>2 DEF FreshInv, OpenedIsFresh, KeysOf
  <1>4. CASE k \notin Event
    <2>1. Adds(mem[r], k, now[r])
      BY <1>4 DEF Accepted, AcceptedOf
    <2> QED  BY <1>1, <1>2, <1>3, <2>1, AddsUnlike
  <1>5. CASE k \in Event
    <2>1. Adds(book, k, now[r])
      BY <1>5 DEF Accepted, AcceptedOf
    <2>2. book \in Book
      BY <1>1, RecordedType
    <2>3. InGrace(now[r], now[r])
      BY <1>1, StoreAssumption DEF InGrace
    <2>4. \A i \in Key : book[i] \in {mem[r][i], now[r]} /\ (book[i] = None => mem[r][i] = None)
      BY <1>1, StoreAssumption DEF Recorded
    <2> HIDE DEF book
    <2>5. \A i \in Key : EntityOf[i] = EntityOf[k] /\ book[i] # None
                          => InGrace(book[i], now[r])
      BY <1>3, <2>3, <2>4
    <2> QED  BY <1>2, <2>1, <2>2, <2>4, <2>5, AddsUnlike
  <1> QED  BY <1>4, <1>5

LEMMA DiagnosisKeepsParts ==
  ASSUME LogInv, NEW r \in Run, Run = {r}, DiagnoseCluster(r)
  PROVE  Parts'
  <1>0. PICK seen \in Sightings(Context(r), Persisting) :
          \E added \in SUBSET seen :
            /\ Accepted(mem[r], seen, added, now[r])
            /\ mem' = [mem EXCEPT ![r] = Recorded(mem[r], added, now[r])]
            /\ alerts' = [alerts EXCEPT ![r] = alerts[r] \cup added]
    BY DEF DiagnoseCluster
  <1>1. PICK added \in SUBSET seen :
          /\ Accepted(mem[r], seen, added, now[r])
          /\ mem' = [mem EXCEPT ![r] = Recorded(mem[r], added, now[r])]
          /\ alerts' = [alerts EXCEPT ![r] = alerts[r] \cup added]
    BY <1>0
  <1>a. TypeOK /\ FreshInv /\ Parts /\ now[r] \in Int /\ mem[r] \in Book
        /\ added \subseteq Key
    BY DEF LogInv, Parts, DeliveryInv, TypeInv, TypeOK, Time, Sightings, KeysOf
  <1>2. /\ pc[r] = "diagnose" /\ pc'[r] = "cluster"
        /\ mem'[r] = Recorded(mem[r], added, now[r])
        /\ alerts'[r] = alerts[r] \cup added
        /\ UNCHANGED <<clock, file, delivered, now>>
    BY <1>1, <1>a DEF DiagnoseCluster, TypeOK
  <1>3. MemoryFollowsFile'
    BY <1>a, <1>2 DEF Parts, MemoryFollowsFile, Recorded
  <1>4. ASSUME NEW k \in added, NEW j \in Key, file.book[j] # None, Matches(j, k),
               InGrace(file.book[j], now[r])
        PROVE  FALSE
    <2>1. file.book[j] \in Int /\ DedupDuration > 0 /\ ~ Expired(file.book[j], now[r])
      BY <1>a, <1>4, StoreAssumption DEF TypeOK, File, Book, Time, InGrace, Expired
    <2>2. mem[r][j] # None
      BY <1>a, <1>2, <1>4, <2>1, StoreAssumption DEF Parts, MemoryFollowsFile
    <2> QED  BY <1>1, <1>2, <1>4, <1>a, <2>1, <2>2, DiagnosedUnlike
  <1>5. AlertsUnlikeFile'
    BY <1>a, <1>2, <1>4 DEF Parts, AlertsUnlikeFile
  <1> QED  BY <1>a, <1>2, <1>3, <1>5 DEF Parts, NothingHalfRead, TimeGoesOn

\* Where nothing was delivered and the file is as it was, a return keeps all.
LEMMA QuietReturnKeepsParts ==
  ASSUME LogInv, NEW r \in Run, Run = {r}, NEW a, Return(r, a),
         UNCHANGED <<clock, file, delivered>>
  PROVE  Parts'
  BY ReturnKeepsParts DEF LogInv, Parts, DeliveryInv, TypeInv, NothingHalfRead

\* Opening a cluster's store drops from memory what has expired only.
LEMMA OpeningKeepsParts ==
  ASSUME LogInv, NEW r \in Run, Run = {r}, OpenCluster(r)
  PROVE  Parts'
  <1>a. TypeOK /\ Parts /\ now[r] \in Int /\ mem[r] \in Book /\ file.book \in Book
        /\ ~ Expired(now[r], now[r])
    BY StoreAssumption
    DEF LogInv, Parts, DeliveryInv, TypeInv, TypeOK, Time, File, Expired
  <1>1. /\ pc[r] = "cluster" /\ pc'[r] = "diagnose"
        /\ mem'[r] = GetClusterStore(mem[r], Context(r), now[r])
        /\ UNCHANGED <<clock, file, delivered, now, alerts>>
    BY <1>a DEF OpenCluster, TypeOK
  <1>2. MemoryFollowsFile'
    <2> SUFFICES ASSUME NEW k \in Key
                 PROVE  \/ mem'[r][k] = file.book[k]
                        \/ /\ mem'[r][k] = None
                           /\ file.book[k] # None
                           /\ Expired(file.book[k], now[r])
                        \/ k \in alerts[r] /\ mem'[r][k] = now[r]
      BY <1>1 DEF MemoryFollowsFile
    <2>1. mem'[r][k] = mem[r][k] \/ (mem'[r][k] = None /\ mem[r][k] # None
                                       /\ Expired(mem[r][k], now[r]))
      BY <1>1 DEF GetClusterStore
    <2>2. \/ mem[r][k] = file.book[k]
          \/ /\ mem[r][k] = None
             /\ file.book[k] # None
             /\ Expired(file.book[k], now[r])
          \/ k \in alerts[r] /\ mem[r][k] = now[r]
      BY <1>a, <1>1 DEF Parts, MemoryFollowsFile
    <2> QED  BY <1>a, <2>1, <2>2
  <1> QED  BY <1>a, <1>1, <1>2
           DEF Parts, NothingHalfRead, TimeGoesOn, AlertsUnlikeFile

LEMMA PartsStep ==
  ASSUME OneSlot, LogInv, [Next]_vars
  PROVE  Parts'
  <1> PICK r \in Run : Run = {r}
    BY DEF OneSlot
  <1>a. /\ TypeOK /\ Parts /\ now[r] \in Int /\ clock \in Int
        /\ ReportedIsDelivered /\ NoAlertsBeforeBegin
    BY DEF LogInv, Parts, DeliveryInv, TypeInv, TypeOK, Time
  <1> USE DEF Parts
  <1>1. CASE Tick \/ UNCHANGED vars
    BY <1>1, <1>a DEF Tick, vars, NothingHalfRead, TimeGoesOn, MemoryFollowsFile,
                      AlertsUnlikeFile
  <1>2. CASE Start(r)
    <2>1. pc'[r] = "load"
      BY <1>2, <1>a DEF Start, TypeOK
    <2> QED  BY <1>2, <1>a, <2>1
             DEF Start, NothingHalfRead, TimeGoesOn, MemoryFollowsFile, AlertsUnlikeFile
  <1>3. CASE LoadStore(r)
    <2>1. pc'[r] = "config" /\ mem'[r] = LoadOrCreate(file)
      BY <1>3, <1>a DEF LoadStore, TypeOK
    <2>2. LoadOrCreate(file) = file.book
      BY <1>a DEF LoadOrCreate, NothingHalfRead
    <2> QED  BY <1>3, <1>a, <2>1, <2>2
             DEF LoadStore, NothingHalfRead, TimeGoesOn, MemoryFollowsFile, AlertsUnlikeFile
  <1>4. CASE Begin(r)
    <2>1. /\ pc[r] = "config" /\ pc'[r] = "cluster" /\ now'[r] = clock /\ alerts[r] = {}
          /\ UNCHANGED <<clock, file, delivered, mem, alerts>>
      BY <1>4, <1>a DEF Begin, TypeOK, NoAlertsBeforeBegin
    <2>2. \A d \in delivered : d[2] <= clock
      BY <1>a DEF TypeOK, Time, TimeGoesOn
    <2> QED  BY <1>a, <2>1, <2>2
             DEF NothingHalfRead, TimeGoesOn, MemoryFollowsFile, AlertsUnlikeFile
  <1>5. CASE OpenCluster(r)
    BY <1>5, OpeningKeepsParts
  <1>6. CASE ClientFails(r) \/ DiagnosisFails(r)
    BY <1>6, <1>a, SkipKeepsParts DEF ClientFails, DiagnosisFails
  <1>7. CASE DiagnoseCluster(r)
    BY <1>7, DiagnosisKeepsParts
  <1>8. CASE SomethingToReport(r)
    <2>1. pc[r] = "cluster" /\ pc'[r] = "report" /\ alerts[r] # {}
      BY <1>8, <1>a DEF SomethingToReport, TypeOK
    <2> QED  BY <1>8, <1>a, <2>1
             DEF SomethingToReport, NothingHalfRead, TimeGoesOn, MemoryFollowsFile,
                 AlertsUnlikeFile
  <1>9. CASE Report(r)
    <2>1. /\ pc[r] = "report" /\ pc'[r] = "flush"
          /\ delivered' = delivered \cup (alerts[r] \X {now[r]})
          /\ UNCHANGED <<clock, file, now, mem, alerts>>
      BY <1>9, <1>a DEF Report, Deliver, TypeOK
    <2> QED  BY <1>a, <2>1
             DEF NothingHalfRead, TimeGoesOn, MemoryFollowsFile, AlertsUnlikeFile
  <1>10. CASE FlushTruncates(r)
    <2>1. /\ pc'[r] = "write" /\ file'.kind = "empty" /\ file'.book = NoMessages
          /\ HasFilePath
          /\ UNCHANGED <<clock, delivered, now, mem, alerts>>
      BY <1>10, <1>a DEF FlushTruncates, FileOf, TypeOK
    <2> QED  BY <1>a, <2>1
             DEF NothingHalfRead, TimeGoesOn, MemoryFollowsFile, AlertsUnlikeFile
  <1>11. CASE \/ LoadFails(r) \/ ConfigFails(r) \/ NothingToReport(r) \/ ReportFails(r)
              \/ FlushNothing(r) \/ FlushFails(r)
    BY <1>11, QuietReturnKeepsParts
    DEF LoadFails, ConfigFails, NothingToReport, ReportFails, FlushNothing, FlushFails
  <1>12. CASE ReportUnacknowledged(r)
    BY <1>12, <1>a, ReturnKeepsParts DEF ReportUnacknowledged, Deliver, NothingHalfRead
  <1>13. CASE FlushWrites(r)
    <2>1. /\ file'.kind # "json" => file'.book = NoMessages
          /\ HasFilePath
      BY <1>13, <1>a DEF FlushWrites, JsonFile, FileOf, NothingHalfRead
    <2>2. Return(r, Answer(err[r])) /\ UNCHANGED <<clock, delivered>>
      BY <1>13 DEF FlushWrites
    <2> QED  BY <1>a, <2>1, <2>2, ReturnKeepsParts
  <1>14. CASE WriteFails(r)
    <2>1. /\ file'.kind # "json" => file'.book = NoMessages
          /\ ~ HasFilePath => file'.kind # "json"
      BY <1>14, <1>a DEF WriteFails, FileOf, NothingHalfRead
    <2> QED  BY <1>14, <1>a, <2>1, ReturnKeepsParts DEF WriteFails
  <1>15. CASE Crash(r)
    <2>1. /\ file'.kind # "json" => file'.book = NoMessages
          /\ ~ HasFilePath => file'.kind # "json"
      BY <1>15, <1>a DEF Crash, FileOf, NothingHalfRead
    <2>2. delivered' \subseteq delivered \cup (alerts[r] \X {now[r]})
      BY <1>15 DEF Crash, Deliver
    <2> QED  BY <1>15, <1>a, <2>1, <2>2, ReturnKeepsParts DEF Crash
  <1> QED
    BY <1>1, <1>2, <1>3, <1>4, <1>5, <1>6, <1>7, <1>8, <1>9, <1>10, <1>11, <1>12,
       <1>13, <1>14, <1>15 DEF Next, Step

LEMMA LogInit == Init => LogInv
  <1> SUFFICES ASSUME Init PROVE LogInv
    OBVIOUS
  <1>1. DeliveryInv /\ FreshInv
    BY DeliveryInit, TypeInit DEF Init, FreshInv, OpenedIsFresh
  <1>2. NothingHalfRead /\ TimeGoesOn /\ MemoryFollowsFile /\ AlertsUnlikeFile
    BY StoreAssumption
    DEF Init, NothingHalfRead, TimeGoesOn, MemoryFollowsFile, AlertsUnlikeFile, FileOf
  <1> QED  BY <1>1, <1>2 DEF LogInv

LEMMA LogStep ==
  ASSUME OneSlot, LogInv, [Next]_vars
  PROVE  LogInv'
  BY PartsStep, DeliveryStep, FreshStep DEF LogInv, Parts

-----------------------------------------------------------------------------
(* Each step of an execution is a step of the log, or none. *)

\* With one slot, the log's memory is the writer's, or else the file's.
LEMMA Mapped ==
  ASSUME NEW r \in Run, Run = {r}
  PROVE  /\ pc[r] = "write" => LogMemory = mem[r] /\ LogLost = FALSE
         /\ pc[r] # "write" => /\ LogMemory = file.book
                               /\ LogLost = (file.kind \in {"empty", "torn"})
         /\ pc'[r] = "write" => LogMemory' = mem'[r] /\ LogLost' = FALSE
         /\ pc'[r] # "write" => /\ LogMemory' = file'.book
                                /\ LogLost' = (file'.kind \in {"empty", "torn"})
         /\ file.kind \notin {"empty", "torn"} => LogLost = FALSE
         /\ file'.kind \notin {"empty", "torn"} => LogLost' = FALSE
  <1>1. (CHOOSE s \in {r} : TRUE) = r
    OBVIOUS
  <1>2. Writers = IF pc[r] = "write" THEN {r} ELSE {}
    BY DEF Writers
  <1>3. Writers' = IF pc'[r] = "write" THEN {r} ELSE {}
    BY DEF Writers
  <1> QED  BY <1>1, <1>2, <1>3 DEF LogMemory, LogLost

\* The operators of the log's store are those of the executions'.
LEMMA SameStore ==
  /\ Log!NoMessages = NoMessages /\ Log!Book = Book
  /\ \A j, k \in Key : Log!Matches(j, k) <=> Matches(j, k)
  /\ \A t, n : Log!InGrace(t, n) <=> InGrace(t, n)
  /\ \A t, n : Log!Expired(t, n) <=> Expired(t, n)
  BY DEF Log!NoMessages, NoMessages, Log!Book, Book, Log!Time, Time, Log!Matches, Matches,
         Log!InGrace, InGrace, Log!Expired, Expired

\* A step that changes nothing the log speaks of.
LEMMA Stutters ==
  ASSUME NEW r \in Run, Run = {r}, pc[r] # "write", pc'[r] # "write",
         UNCHANGED <<clock, file, delivered>>
  PROVE  UNCHANGED Log!vars
  BY Mapped DEF Log!vars

\* Alerts get out: with the acknowledgement, without it, or in a crash.
LEMMA DeliverAnnounces ==
  ASSUME LogInv, NEW r \in Run, Run = {r}, pc[r] = "report", pc'[r] # "write",
         Deliver(r), UNCHANGED <<clock, file>>
  PROVE  Log!Announce
  <1>a. /\ alerts[r] \in (SUBSET Key) \ {{}}
        /\ \A k \in alerts[r], j \in Key :
              file.book[j] # None /\ Matches(j, k) => ~ InGrace(file.book[j], now[r])
    BY DEF LogInv, DeliveryInv, TypeInv, TypeOK, AlertsUnlikeFile
  <1>b. now[r] \in 0..clock
    BY DEF LogInv, DeliveryInv, TypeInv, TypeOK, Time, TimeGoesOn
  <1>1. LogMemory = file.book /\ LogMemory' = LogMemory /\ LogLost' = LogLost
    BY Mapped
  <1>2. \A k \in alerts[r] : ~ \E j \in Key :
          LogMemory[j] # None /\ Log!Matches(j, k) /\ Log!InGrace(LogMemory[j], now[r])
    BY <1>a, <1>1, SameStore
  <1>3. delivered' = delivered \cup (alerts[r] \X {now[r]})
    BY DEF Deliver
  <1> QED  BY <1>a, <1>b, <1>1, <1>2, <1>3 DEF Log!Announce

\* The truncated file is the moment at which the log remembers.
LEMMA TruncateRemembers ==
  ASSUME LogInv, NEW r \in Run, Run = {r}, FlushTruncates(r)
  PROVE  Log!Remember
  <1>a. /\ TypeOK /\ now[r] \in Int /\ clock \in Int /\ now[r] <= clock
        /\ mem[r] \in Book /\ file.book \in Book
    BY DEF LogInv, DeliveryInv, TypeInv, TypeOK, Time, TimeGoesOn, File
  <1>1. pc[r] = "flush" /\ pc'[r] = "write" /\ mem' = mem /\ UNCHANGED <<clock, delivered>>
    BY <1>a DEF FlushTruncates, TypeOK
  <1>2. LogMemory = file.book /\ LogMemory' = mem[r] /\ LogLost' = FALSE
    <2>1. LogLost' \in BOOLEAN
      BY DEF LogLost
    <2> QED  BY <1>1, <2>1, Mapped
  <1>3. ASSUME NEW k \in Key
        PROVE  \/ mem[r][k] = file.book[k]
               \/ mem[r][k] = None /\ file.book[k] # None /\ Expired(file.book[k], clock)
               \/ /\ <<k, mem[r][k]>> \in delivered
                  /\ file.book[k] # None => file.book[k] <= mem[r][k]
    <2>1. CASE mem[r][k] = file.book[k]
      BY <2>1
    <2>2. CASE /\ mem[r][k] = None
               /\ file.book[k] # None
               /\ Expired(file.book[k], now[r])
      <3>1. file.book[k] \in Int
        BY <1>a, <2>2 DEF Book, Time
      <3> QED  BY <1>a, <2>2, <3>1, StoreAssumption DEF Expired
    <2>3. CASE k \in alerts[r] /\ mem[r][k] = now[r]
      <3>1. <<k, mem[r][k]>> \in delivered
        BY <1>1, <2>3 DEF LogInv, DeliveryInv, ReportedIsDelivered
      <3>2. file.book[k] # None => file.kind = "json" /\ <<k, file.book[k]>> \in delivered
        BY DEF LogInv, DeliveryInv, RecordedWasDelivered, NothingHalfRead, NoMessages
      <3>3. file.book[k] # None => file.book[k] <= now[r]
        BY <3>2 DEF LogInv, TimeGoesOn
      <3> QED  BY <2>3, <3>1, <3>3
    <2> QED  BY <1>1, <2>1, <2>2, <2>3 DEF LogInv, MemoryFollowsFile
  <1> QED  BY <1>a, <1>1, <1>2, <1>3, SameStore DEF Log!Remember

\* A write that is cut short loses the memory.
LEMMA CutWriteForgets ==
  ASSUME LogInv, NEW r \in Run, Run = {r}, pc[r] = "write", pc'[r] # "write",
         file' \in {file, FileOf("torn")}, UNCHANGED <<clock, delivered>>,
         Faults \cap {"crash", "torn"} # {}
  PROVE  Log!Forget
  <1>1. file.kind = "empty" /\ file.book = NoMessages
    BY DEF LogInv, NothingHalfRead
  <1>2. file'.kind \in {"empty", "torn"} /\ file'.book = NoMessages
    BY <1>1 DEF FileOf
  <1>3. LogMemory' = NoMessages /\ LogLost' = TRUE
    BY <1>2, Mapped
  <1> QED  BY <1>3, SameStore DEF Log!Forget

LEMMA LogImplements ==
  ASSUME OneSlot, LogInv, [Next]_vars
  PROVE  [Log!Next]_(Log!vars)
  <1> PICK r \in Run : Run = {r}
    BY DEF OneSlot
  <1>a. TypeOK
    BY DEF LogInv, DeliveryInv, TypeInv
  <1>1. CASE Tick
    <2>1. LogMemory' = LogMemory /\ LogLost' = LogLost
      <3>1. file' = file /\ mem' = mem /\ pc' = pc
        BY <1>1 DEF Tick
      <3> QED  BY <3>1, Mapped
    <2> QED  BY <1>1, <2>1 DEF Tick, Log!Tick, Log!Next
  <1>2. CASE UNCHANGED vars
    BY <1>2 DEF vars, Log!vars, LogMemory, LogLost, Writers
  <1>3. CASE Report(r) \/ ReportUnacknowledged(r)
    <2>1. pc[r] = "report" /\ pc'[r] # "write" /\ Deliver(r) /\ UNCHANGED <<clock, file>>
      BY <1>3, <1>a DEF Report, ReportUnacknowledged, Return, TypeOK
    <2> QED  BY <2>1, DeliverAnnounces DEF Log!Next
  <1>4. CASE FlushTruncates(r)
    BY <1>4, TruncateRemembers DEF Log!Next
  <1>5. CASE FlushWrites(r)
    <2>1. pc[r] = "write" /\ pc'[r] = "idle" /\ file.kind = "empty"
          /\ UNCHANGED <<clock, delivered>>
      BY <1>5, <1>a DEF FlushWrites, Return, TypeOK, LogInv, NothingHalfRead
    <2>2. file'.kind = "json" /\ file'.book = mem[r]
      BY <1>5, <2>1 DEF FlushWrites, JsonFile
    <2>3. LogMemory' = mem[r] /\ LogMemory = mem[r]
      BY <2>1, <2>2, Mapped
    <2>4. LogLost = FALSE
      BY <2>1, Mapped
    <2>5. LogLost' = FALSE
      BY <2>1, <2>2, Mapped
    <2> QED  BY <2>1, <2>3, <2>4, <2>5 DEF Log!vars
  <1>6. CASE WriteFails(r)
    <2>1. pc[r] = "write" /\ pc'[r] # "write" /\ "torn" \in Faults
          /\ file' \in {file, FileOf("torn")} /\ UNCHANGED <<clock, delivered>>
      BY <1>6, <1>a DEF WriteFails, Fault, Return, TypeOK
    <2> QED  BY <2>1, CutWriteForgets DEF Log!Next
  <1>7. CASE Crash(r)
    <2>1. pc'[r] = "idle" /\ "crash" \in Faults /\ UNCHANGED clock
      BY <1>7, <1>a DEF Crash, Fault, Return, TypeOK
    <2>2. CASE pc[r] = "write"
      BY <1>7, <2>1, <2>2, CutWriteForgets DEF Crash, Log!Next
    <2>3. CASE pc[r] = "report" /\ Deliver(r)
      BY <1>7, <2>1, <2>3, DeliverAnnounces DEF Crash, Log!Next
    <2>4. CASE pc[r] # "write" /\ UNCHANGED delivered
      BY <1>7, <2>1, <2>4, Stutters DEF Crash
    <2> QED  BY <1>7, <2>2, <2>3, <2>4 DEF Crash
  <1>8. CASE \/ Start(r) \/ LoadStore(r) \/ LoadFails(r) \/ Begin(r) \/ ConfigFails(r)
             \/ OpenCluster(r) \/ ClientFails(r) \/ DiagnoseCluster(r) \/ DiagnosisFails(r)
             \/ NothingToReport(r) \/ SomethingToReport(r) \/ ReportFails(r)
             \/ FlushNothing(r) \/ FlushFails(r)
    <2>1. pc[r] # "write" /\ pc'[r] # "write" /\ UNCHANGED <<clock, file, delivered>>
      BY <1>8, <1>a
      DEF Start, LoadStore, LoadFails, Begin, ConfigFails, OpenCluster, ClientFails,
          DiagnoseCluster, DiagnosisFails, SkipCluster, NothingToReport,
          SomethingToReport, ReportFails, FlushNothing, FlushFails, Return, TypeOK
    <2> QED  BY <2>1, Stutters
  <1> QED  BY <1>1, <1>2, <1>3, <1>4, <1>5, <1>6, <1>7, <1>8 DEF Next, Step

\* The initial states map to the log's.
LEMMA LogImplementsInit ==
  ASSUME OneSlot, Init
  PROVE  Log!Init
  <1> PICK r \in Run : Run = {r}
    BY DEF OneSlot
  <1>1. pc[r] # "write" /\ file.book = NoMessages /\ file.kind = "absent"
    BY DEF Init, FileOf
  <1>2. LogMemory = NoMessages
    BY <1>1, Mapped
  <1>3. LogLost = FALSE
    BY <1>1, Mapped
  <1> QED  BY <1>2, <1>3, SameStore DEF Init, Log!Init

\* Executions that do not overlap implement the log, whichever kinds of failure
\* the environment produces and however often: an alert gets out only if nothing
\* remembered silences it, what is remembered was delivered, and nothing is
\* forgotten before it expired but by a write that was cut short
\* (kubescout.go:82-92, store.go:58-80, 96-146).
THEOREM ScoutImplementsLog ==
  ASSUME OneSlot
  PROVE  Spec => ImplementsLog
  <1>1. Init => Log!Init
    BY LogImplementsInit
  <1>2. LogInv /\ [Next]_vars => LogInv'
    BY LogStep
  <1>3. LogInv /\ [Next]_vars => [Log!Next]_(Log!vars)
    BY LogImplements
  <1> QED  BY <1>1, <1>2, <1>3, LogInit, PTL DEF Spec, ImplementsLog, Log!Spec

\* So does reporting to several sinks one by one: a report that some of them
\* refuse, or that a kill cuts between two of them, is to the log an alert that
\* got out and is not remembered (sink.go, MultiSink.Report).
THEOREM SinksImplementLog ==
  ASSUME OneSlot
  PROVE  SinkSpec => ImplementsLog
  BY SinksImplementScout, ScoutImplementsLog, PTL

=============================================================================
