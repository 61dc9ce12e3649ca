---------------------------- MODULE RepeatProofs ----------------------------
(***************************************************************************)
(* That no alert is repeated in grace, for executions that do not overlap  *)
(* and an environment in which a sink that fails has delivered nothing,    *)
(* the store file is there, its flush works and nobody kills the process.  *)
(* Two slots, or any of the other failures, do repeat alerts.              *)
(***************************************************************************)
EXTENDS ScoutProofs

\* One execution at a time, and no failure that makes the store forget.
Undisturbed ==
    /\ \E r \in Run : Run = {r}
    /\ Faults \cap {"unacked", "disk", "torn", "crash"} = {}
    /\ HasFilePath

-----------------------------------------------------------------------------
(* A book remembers what was delivered if it has a record at least as      *)
(* recent of it, or an execution has seen it expire.  The file remembers   *)
(* until it is truncated, and the memory from the load to the write: the   *)
(* two overlap, so an execution always starts from a book that remembers.  *)

Remembers(book, n) ==
    \A d \in delivered :
        \/ book[d[1]] # None /\ d[2] <= book[d[1]]
        \/ Expired(d[2], n)

FileRemembers ==
    \A r \in Run : pc[r] \notin {"flush", "write"} => Remembers(file.book, now[r])

MemoryRemembers ==
    \A r \in Run : pc[r] \notin {"idle", "load"} => Remembers(mem[r], now[r])

\* What is going to be reported is recorded, and like nothing told in grace.
AlertsAreNew ==
    \A r \in Run : pc[r] \in {"cluster", "diagnose", "report"} =>
        \A k \in alerts[r] :
            /\ mem[r][k] = now[r]
            /\ \A d \in delivered : Matches(d[1], k) => ~ InGrace(d[2], now[r])

InstantsAreOrdered ==
    \A r \in Run : now[r] <= clock /\ \A d \in delivered : d[2] <= now[r]

FileIsWhole ==
    /\ file.kind # "json" => file.book = NoMessages
    /\ \A r \in Run : pc[r] = "write" => file.kind = "empty"

NewsInv ==
    /\ FileRemembers
    /\ MemoryRemembers
    /\ AlertsAreNew
    /\ InstantsAreOrdered
    /\ FileIsWhole

RepeatInv == DeliveryInv /\ FreshInv /\ NewsInv

-----------------------------------------------------------------------------
(* Time and the operations of the store. *)

\* What has expired stays so.
LEMMA ExpiredForGood ==
  ASSUME NEW t \in Int, NEW n \in Int, NEW m \in Int, n <= m, Expired(t, n)
  PROVE  Expired(t, m)
  BY StoreAssumption DEF Expired

\* Opening a cluster's store drops only what has expired.
LEMMA OpeningRemembers ==
  ASSUME TypeOK, NEW book \in Book, NEW c, NEW n \in Time, Remembers(book, n)
  PROVE  Remembers(GetClusterStore(book, c, n), n)
  <1> SUFFICES ASSUME NEW d \in delivered, ~ Expired(d[2], n)
               PROVE  /\ GetClusterStore(book, c, n)[d[1]] # None
                      /\ d[2] <= GetClusterStore(book, c, n)[d[1]]
    BY DEF Remembers
  <1>1. d[1] \in Key /\ d[2] \in Int /\ n \in Int
    BY DEF TypeOK, Time
  <1>2. book[d[1]] # None /\ d[2] <= book[d[1]] /\ book[d[1]] \in Int
    BY <1>1 DEF Remembers, Book, Time
  <1>3. ~ Expired(book[d[1]], n)
    BY <1>1, <1>2, StoreAssumption DEF Expired
  <1>4. GetClusterStore(book, c, n)[d[1]] = book[d[1]]
    BY <1>1, <1>3 DEF GetClusterStore
  <1> QED  BY <1>2, <1>4

\* Recording at an instant that is not before any delivery only adds memory.
LEMMA RecordingRemembers ==
  ASSUME TypeOK, NEW book \in Book, NEW added, NEW n \in Time,
         Remembers(book, n), \A d \in delivered : d[2] <= n
  PROVE  Remembers(Recorded(book, added, n), n)
  BY StoreAssumption DEF Remembers, Recorded, TypeOK, Time

\* What a fresh book that remembers lets TryAdd accept is like nothing that was
\* told in grace.
LEMMA AcceptedIsNew ==
  ASSUME TypeOK, NEW book \in Book, NEW n \in Time, Remembers(book, n),
         NEW k \in Key, Adds(book, k, n),
         DedupDuration > 0 =>
            \A j \in Key : EntityOf[j] = EntityOf[k] /\ book[j] # None
                => InGrace(book[j], n)
  PROVE  \A d \in delivered : Matches(d[1], k) => ~ InGrace(d[2], n)
  <1> SUFFICES ASSUME NEW d \in delivered, Matches(d[1], k), InGrace(d[2], n)
               PROVE  FALSE
    OBVIOUS
  <1>1. d[1] \in Key /\ d[2] \in Int /\ n \in Int
    BY DEF TypeOK, Time
  <1>2. DedupDuration > 0 /\ ~ Expired(d[2], n)
    BY <1>1, StoreAssumption DEF InGrace, Expired
  <1>3. book[d[1]] # None
    BY <1>2 DEF Remembers
  <1>4. tryMatch(book, k) # {}
    BY <1>1, <1>3 DEF tryMatch
  <1>5. \A j \in tryMatch(book, k) : j \in Key /\ EntityOf[j] = EntityOf[k] /\ book[j] # None
    BY DEF tryMatch, Matches
  <1> QED  BY <1>2, <1>4, <1>5 DEF Adds

\* The events are offered to a book with the messages of the same execution,
\* which is as fresh.
LEMMA DiagnosisIsNew ==
  ASSUME DeliveryInv, FreshInv, NEW r \in Run, pc[r] = "diagnose",
         Remembers(mem[r], now[r]), \A d \in delivered : d[2] <= now[r],
         NEW seen \in Sightings(Context(r), Persisting), NEW added \in SUBSET seen,
         Accepted(mem[r], seen, added, now[r]),
         NEW k \in added
  PROVE  \A d \in delivered : Matches(d[1], k) => ~ InGrace(d[2], now[r])
  <1> DEFINE messages == added \ Event
             book == Recorded(mem[r], messages, now[r])
  <1>1. TypeOK /\ now[r] \in Time /\ now[r] \in Int /\ mem[r] \in Book
    BY DEF DeliveryInv, TypeInv, TypeOK, Time
  <1>2. k \in Key /\ k \in KeysOf(Context(r))
    BY DEF Sightings, KeysOf
  <1>3. ASSUME NEW j \in Key, EntityOf[j] = EntityOf[k], DedupDuration > 0, mem[r][j] # None
        PROVE  InGrace(mem[r][j], now[r])
    <2>1. j \in KeysOf(Context(r))
      BY <1>2, <1>3 DEF KeysOf
    <2> QED  BY <1>3, <2>1 DEF FreshInv, OpenedIsFresh
  <1>4. CASE k \notin Event
    <2>1. Adds(mem[r], k, now[r])
      BY <1>4 DEF Accepted, AcceptedOf
    <2> QED  BY <1>1, <1>2, <1>3, <2>1, AcceptedIsNew
  <1>5. CASE k \in Event
    <2>1. Adds(book, k, now[r])
      BY <1>5 DEF Accepted, AcceptedOf
    <2>2. book \in Book /\ Remembers(book, now[r])
      BY <1>1, RecordedType, RecordingRemembers
    <2>3. DedupDuration > 0 => InGrace(now[r], now[r])
      BY <1>1, StoreAssumption DEF InGrace
    <2>4. DedupDuration > 0 =>
            \A j \in Key : EntityOf[j] = EntityOf[k] /\ book[j] # None
                => InGrace(book[j], now[r])
      BY <1>3, <2>3 DEF Recorded
    <2> HIDE DEF book
    <2> QED  BY <1>1, <1>2, <2>1, <2>2, <2>4, AcceptedIsNew
  <1> QED  BY <1>4, <1>5

-----------------------------------------------------------------------------

\* A slot that returns without touching the file or the log keeps the news.
LEMMA ReturnKeepsNews ==
  ASSUME TypeOK, NEW r \in Run, Run = {r}, NEW a, Return(r, a), NewsInv,
         pc[r] \notin {"flush", "write"}, UNCHANGED <<clock, file, delivered>>
  PROVE  NewsInv'
  <1>1. pc'[r] = "idle" /\ now' = now
    BY DEF Return, TypeOK
  <1> QED  BY <1>1 DEF NewsInv, FileRemembers, MemoryRemembers, AlertsAreNew,
                       InstantsAreOrdered, FileIsWhole, Remembers

\* So does a cluster that is skipped.
LEMMA SkipKeepsNews ==
  ASSUME TypeOK, NEW r \in Run, Run = {r}, SkipCluster(r), NewsInv,
         pc[r] \in {"cluster", "diagnose"}
  PROVE  NewsInv'
  <1>1. pc'[r] = "cluster"
    BY DEF SkipCluster, TypeOK
  <1> QED  BY <1>1 DEF SkipCluster, NewsInv, FileRemembers, MemoryRemembers,
                       AlertsAreNew, InstantsAreOrdered, FileIsWhole, Remembers

LEMMA NewsStep ==
  ASSUME Undisturbed, RepeatInv, [Next]_vars
  PROVE  NewsInv'
  <1> PICK r \in Run : Run = {r}
    BY DEF Undisturbed
  <1> USE DEF NewsInv
  <1>a. /\ TypeOK /\ DeliveryInv /\ FreshInv /\ NewsInv
        /\ now[r] \in Time /\ now[r] \in Int /\ mem[r] \in Book /\ clock \in Int
    BY DEF RepeatInv, DeliveryInv, TypeInv, TypeOK, Time
  <1>b. ~ Fault("unacked") /\ ~ Fault("disk") /\ ~ Fault("torn") /\ ~ Fault("crash")
    BY DEF Undisturbed, Fault
  <1>1. CASE Tick
    BY <1>1, <1>a DEF Tick, FileRemembers, MemoryRemembers, AlertsAreNew,
                      InstantsAreOrdered, FileIsWhole, Remembers
  <1>2. CASE Start(r)
    <2>1. pc[r] = "idle" /\ pc'[r] = "load"
      BY <1>2, <1>a DEF Start, TypeOK
    <2> QED  BY <1>2, <1>a, <2>1
             DEF Start, FileRemembers, MemoryRemembers, AlertsAreNew,
                 InstantsAreOrdered, FileIsWhole, Remembers
  <1>3. CASE LoadStore(r)
    <2>1. LoadOrCreate(file) = file.book
      BY <1>a DEF LoadOrCreate, FileIsWhole, Undisturbed
    <2>2. pc[r] = "load" /\ pc'[r] = "config" /\ mem'[r] = file.book
      BY <1>3, <1>a, <2>1 DEF LoadStore, TypeOK
    <2> QED  BY <1>3, <1>a, <2>2
             DEF LoadStore, FileRemembers, MemoryRemembers, AlertsAreNew,
                 InstantsAreOrdered, FileIsWhole, Remembers
  <1>4. CASE LoadFails(r)
    BY <1>4, <1>a, ReturnKeepsNews DEF LoadFails
  <1>5. CASE Begin(r)
    <2>1. pc[r] = "config" /\ pc'[r] = "cluster" /\ now'[r] = clock /\ alerts'[r] = {}
      BY <1>5, <1>a DEF Begin, TypeOK, DeliveryInv, NoAlertsBeforeBegin
    <2>2. \A d \in delivered : Expired(d[2], now[r]) => Expired(d[2], clock)
      BY <1>a, ExpiredForGood DEF TypeOK, Time, InstantsAreOrdered
    <2>3. \A d \in delivered : d[2] <= clock
      BY <1>a DEF TypeOK, Time, InstantsAreOrdered
    <2>4. FileRemembers' /\ MemoryRemembers'
      BY <1>5, <1>a, <2>1, <2>2 DEF Begin, FileRemembers, MemoryRemembers, Remembers
    <2> QED  BY <1>5, <1>a, <2>1, <2>3, <2>4
             DEF Begin, AlertsAreNew, InstantsAreOrdered, FileIsWhole
  <1>6. CASE ConfigFails(r)
    BY <1>6, <1>a, ReturnKeepsNews DEF ConfigFails
  <1>7. CASE OpenCluster(r)
    <2>1. /\ pc[r] = "cluster" /\ pc'[r] = "diagnose"
          /\ mem'[r] = GetClusterStore(mem[r], Context(r), now[r])
      BY <1>7, <1>a DEF OpenCluster, TypeOK
    <2>2. Remembers(mem'[r], now[r])
      BY <1>a, <2>1, OpeningRemembers DEF MemoryRemembers
    <2>3. \A k \in alerts[r] : mem'[r][k] = now[r]
      <3>1. ~ Expired(now[r], now[r])
        BY <1>a, StoreAssumption DEF Expired
      <3>2. \A k \in alerts[r] : k \in Key /\ mem[r][k] = now[r]
        BY <1>a, <2>1 DEF AlertsAreNew, TypeOK
      <3> QED  BY <2>1, <3>1, <3>2 DEF GetClusterStore
    <2>4. AlertsAreNew'
      BY <1>7, <1>a, <2>1, <2>3 DEF OpenCluster, AlertsAreNew
    <2> QED  BY <1>7, <1>a, <2>1, <2>2, <2>4
             DEF OpenCluster, FileRemembers, MemoryRemembers,
                 InstantsAreOrdered, FileIsWhole, Remembers
  <1>8. CASE ClientFails(r) \/ DiagnosisFails(r)
    BY <1>8, <1>a, SkipKeepsNews DEF ClientFails, DiagnosisFails
  <1>9. CASE DiagnoseCluster(r)
    <2>0. PICK seen \in Sightings(Context(r), Persisting) :
            \E added \in SUBSET seen :
              /\ Accepted(mem[r], seen, added, now[r])
              /\ mem' = [mem EXCEPT ![r] = Recorded(mem[r], added, now[r])]
              /\ alerts' = [alerts EXCEPT ![r] = alerts[r] \cup added]
      BY <1>9 DEF DiagnoseCluster
    <2>1. PICK added \in SUBSET seen :
            /\ Accepted(mem[r], seen, added, now[r])
            /\ mem' = [mem EXCEPT ![r] = Recorded(mem[r], added, now[r])]
            /\ alerts' = [alerts EXCEPT ![r] = alerts[r] \cup added]
      BY <2>0
    <2>2. /\ pc[r] = "diagnose" /\ pc'[r] = "cluster"
          /\ mem'[r] = Recorded(mem[r], added, now[r])
          /\ alerts'[r] = alerts[r] \cup added
          /\ UNCHANGED <<clock, file, delivered, now>>
      BY <1>9, <1>a, <2>1 DEF DiagnoseCluster, TypeOK
    <2>3. /\ Remembers(mem[r], now[r])
          /\ \A d \in delivered : d[2] <= now[r]
      BY <1>a, <2>2 DEF MemoryRemembers, InstantsAreOrdered
    <2>4. Remembers(mem'[r], now[r])
      BY <1>a, <2>2, <2>3, RecordingRemembers
    <2>5. \A k \in alerts'[r] : k \in Key /\ mem'[r][k] = now[r]
      BY <1>a, <2>2 DEF Recorded, AlertsAreNew, TypeOK, Sightings, KeysOf
    <2>6. \A k \in alerts'[r] : \A d \in delivered :
            Matches(d[1], k) => ~ InGrace(d[2], now[r])
      BY <1>a, <2>1, <2>2, <2>3, DiagnosisIsNew DEF AlertsAreNew
    <2>7. AlertsAreNew'
      BY <2>2, <2>5, <2>6 DEF AlertsAreNew
    <2> QED  BY <1>a, <2>2, <2>4, <2>7
             DEF FileRemembers, MemoryRemembers, InstantsAreOrdered, FileIsWhole, Remembers
  <1>10. CASE NothingToReport(r)
    BY <1>10, <1>a, ReturnKeepsNews DEF NothingToReport
  <1>11. CASE SomethingToReport(r)
    <2>1. pc[r] = "cluster" /\ pc'[r] = "report"
      BY <1>11, <1>a DEF SomethingToReport, TypeOK
    <2> QED  BY <1>11, <1>a, <2>1
             DEF SomethingToReport, FileRemembers, MemoryRemembers, AlertsAreNew,
                 InstantsAreOrdered, FileIsWhole, Remembers
  <1>12. CASE Report(r)
    <2>1. /\ pc[r] = "report" /\ pc'[r] = "flush"
          /\ delivered' = delivered \cup (alerts[r] \X {now[r]})
          /\ UNCHANGED <<clock, file, now, mem, alerts>>
      BY <1>12, <1>a DEF Report, Deliver, TypeOK
    <2>2. \A d \in alerts[r] \X {now[r]} :
            mem[r][d[1]] # None /\ d[2] <= mem[r][d[1]] /\ d[2] <= now[r]
      BY <1>a, <2>1, StoreAssumption DEF AlertsAreNew
    <2>3. MemoryRemembers' /\ InstantsAreOrdered'
      BY <1>a, <2>1, <2>2 DEF MemoryRemembers, InstantsAreOrdered, Remembers
    <2> QED  BY <1>a, <2>1, <2>3 DEF FileRemembers, AlertsAreNew, FileIsWhole
  <1>13. CASE ReportFails(r)
    BY <1>13, <1>a, ReturnKeepsNews DEF ReportFails
  <1>14. CASE FlushTruncates(r)
    <2>1. /\ pc[r] = "flush" /\ pc'[r] = "write"
          /\ file'.kind = "empty" /\ file'.book = NoMessages
          /\ UNCHANGED <<clock, delivered, now, mem, alerts>>
      BY <1>14, <1>a DEF FlushTruncates, FileOf, TypeOK
    <2> QED  BY <1>a, <2>1
             DEF FileRemembers, MemoryRemembers, AlertsAreNew, InstantsAreOrdered,
                 FileIsWhole, Remembers
  <1>15. CASE FlushWrites(r)
    <2>1. /\ pc[r] = "write" /\ pc'[r] = "idle"
          /\ file'.kind = "json" /\ file'.book = mem[r]
          /\ UNCHANGED <<clock, delivered, now>>
      BY <1>15, <1>a DEF FlushWrites, JsonFile, FileIsWhole, Return, TypeOK
    <2> QED  BY <1>a, <2>1
             DEF FileRemembers, MemoryRemembers, AlertsAreNew, InstantsAreOrdered,
                 FileIsWhole, Remembers
  <1>16. ~ ReportUnacknowledged(r) /\ ~ FlushNothing(r) /\ ~ FlushFails(r)
         /\ ~ WriteFails(r) /\ ~ Crash(r)
    BY <1>b DEF ReportUnacknowledged, FlushNothing, FlushFails, WriteFails, Crash,
                Undisturbed
  <1>17. CASE UNCHANGED vars
    BY <1>17, <1>a DEF vars, FileRemembers, MemoryRemembers, AlertsAreNew,
                       InstantsAreOrdered, FileIsWhole, Remembers
  <1> QED
    BY <1>1, <1>2, <1>3, <1>4, <1>5, <1>6, <1>7, <1>8, <1>9, <1>10, <1>11, <1>12,
       <1>13, <1>14, <1>15, <1>16, <1>17 DEF Next, Step

LEMMA NewsInit == Init => NewsInv
  BY StoreAssumption
  DEF Init, NewsInv, FileRemembers, MemoryRemembers, AlertsAreNew,
      InstantsAreOrdered, FileIsWhole, Remembers, FileOf

\* Only Report leads from the report to the flush, and what it reports is new.
LEMMA ReportIsNews ==
  ASSUME RepeatInv, [Next]_vars, NEW r \in Run, pc[r] = "report", pc'[r] = "flush",
         NEW k \in alerts[r], NEW d \in delivered, Matches(d[1], k)
  PROVE  ~ InGrace(d[2], now[r])
  BY DEF RepeatInv, NewsInv, AlertsAreNew

\* Executions that do not overlap, and whose reports and flushes work or fail
\* cleanly, never repeat an alert in grace, or one like it, whichever clusters
\* fail in between (store.go:71, 116; kubescout.go:87-89).
THEOREM NothingIsRepeated ==
  ASSUME Undisturbed
  PROVE  Spec => NoRepeatInGrace
  <1>1. Init => RepeatInv
    BY DeliveryInit, TypeInit, NewsInit DEF RepeatInv, FreshInv, Init, OpenedIsFresh
  <1>2. RepeatInv /\ [Next]_vars => RepeatInv'
    BY DeliveryStep, FreshStep, NewsStep DEF RepeatInv
  <1>3. RepeatInv /\ [Next]_vars =>
          [\A r \in Run : (pc[r] = "report" /\ pc'[r] = "flush") =>
              \A k \in alerts[r], d \in delivered :
                  Matches(d[1], k) => ~ InGrace(d[2], now[r])]_vars
    BY ReportIsNews
  <1> QED  BY <1>1, <1>2, <1>3, PTL DEF Spec, NoRepeatInGrace

=============================================================================
