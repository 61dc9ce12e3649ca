---------------------------- MODULE ScoutProofs ----------------------------
(***************************************************************************)
(* Theorems about Scout, for any number of slots, clusters, messages and   *)
(* failures: its types; that the store file never remembers an alert that  *)
(* was not delivered; that the random order of a map decides nothing; that *)
(* an execution without an error has told of every standing problem; that  *)
(* a broken store file is final; and that a diagnosis is about no more     *)
(* than its cluster's part of the store.                                   *)
(***************************************************************************)
EXTENDS Scout, TLAPS

\* An execution that diagnoses a cluster is inside its loop.
DiagnosesAContext == \A r \in Run : pc[r] = "diagnose" => Looping(r)

TypeInv == TypeOK /\ DiagnosesAContext

-----------------------------------------------------------------------------
(* The operations of the store keep its type. *)

\* A fresh store is a book.
LEMMA NoMessagesType == NoMessages \in Book
  BY DEF NoMessages, Book

\* Opening a cluster's store yields a book and keeps what it does not drop.
LEMMA GetClusterStoreType ==
  ASSUME NEW book \in Book, NEW c, NEW n
  PROVE  /\ GetClusterStore(book, c, n) \in Book
         /\ \A k \in Key : GetClusterStore(book, c, n)[k] \in {None, book[k]}
  BY DEF GetClusterStore, Book

\* Recording a set of messages yields a book.
LEMMA RecordedType ==
  ASSUME NEW book \in Book, NEW added, NEW n \in Time
  PROVE  Recorded(book, added, n) \in Book
  BY DEF Recorded, Book

\* Every file is of the file type, whichever way it was written.
LEMMA FileType ==
  /\ \A kind \in FileKinds : FileOf(kind) \in File
  /\ \A book \in Book : JsonFile(book) \in File
  BY NoMessagesType DEF FileOf, JsonFile, File, FileKinds

\* Loading yields a book.
LEMMA LoadOrCreateType ==
  ASSUME NEW f \in File
  PROVE  LoadOrCreate(f) \in Book
  BY NoMessagesType DEF LoadOrCreate, File

\* An execution that returns leaves well-typed locals.
LEMMA ReturnType ==
  ASSUME TypeOK, NEW r \in Run, NEW a \in {"ok", "error", "killed"}, Return(r, a)
  PROVE  /\ pc' \in [Run -> PCs] /\ pc' = [pc EXCEPT ![r] = "idle"]
         /\ at' \in [Run -> 1..(Len(Contexts) + 1)]
         /\ now' \in [Run -> Time]
         /\ mem' \in [Run -> Book]
         /\ alerts' \in [Run -> SUBSET Key]
         /\ err' \in [Run -> BOOLEAN]
         /\ result' \in [Run -> {"none", "ok", "error", "killed"}]
  <1>1. 1 \in 1..(Len(Contexts) + 1)
    BY ScoutAssumption
  <1> QED  BY <1>1, NoMessagesType DEF Return, TypeOK, PCs

\* Failures stay within their bound.
LEMMA FaultType ==
  ASSUME TypeOK, NEW f, Fault(f)
  PROVE  faults' \in 0..MaxFaults
  BY ScoutAssumption DEF Fault, NoFault, TypeOK

-----------------------------------------------------------------------------

\* Every step keeps the types.
LEMMA TypeStep == TypeInv /\ [Next]_vars => TypeInv'
  <1> SUFFICES ASSUME TypeOK, DiagnosesAContext, [Next]_vars
               PROVE  TypeOK' /\ DiagnosesAContext'
    BY DEF TypeInv
  <1> USE StoreAssumption, ScoutAssumption
  <1>1. CASE Tick
    BY <1>1 DEF Tick, TypeOK, DiagnosesAContext, Looping, Time
  <1>2. ASSUME NEW r \in Run, Start(r) PROVE TypeOK' /\ DiagnosesAContext'
    BY <1>2 DEF Start, TypeOK, DiagnosesAContext, Looping, PCs
  <1>3. ASSUME NEW r \in Run, LoadStore(r) PROVE TypeOK' /\ DiagnosesAContext'
    BY <1>3, LoadOrCreateType DEF LoadStore, TypeOK, DiagnosesAContext, Looping, PCs
  <1>4. ASSUME NEW r \in Run, LoadFails(r) PROVE TypeOK' /\ DiagnosesAContext'
    BY <1>4, ReturnType, FaultType
    DEF LoadFails, NoFault, TypeOK, DiagnosesAContext, Looping, Return
  <1>5. ASSUME NEW r \in Run, Begin(r) PROVE TypeOK' /\ DiagnosesAContext'
    BY <1>5 DEF Begin, TypeOK, DiagnosesAContext, Looping, PCs
  <1>6. ASSUME NEW r \in Run, ConfigFails(r) PROVE TypeOK' /\ DiagnosesAContext'
    BY <1>6, ReturnType, FaultType
    DEF ConfigFails, TypeOK, DiagnosesAContext, Looping, Return
  <1>7. ASSUME NEW r \in Run, OpenCluster(r) PROVE TypeOK' /\ DiagnosesAContext'
    BY <1>7, GetClusterStoreType DEF OpenCluster, TypeOK, DiagnosesAContext, Looping, PCs
  <1>8. ASSUME NEW r \in Run, ClientFails(r) PROVE TypeOK' /\ DiagnosesAContext'
    BY <1>8, FaultType
    DEF ClientFails, SkipCluster, TypeOK, DiagnosesAContext, Looping, PCs
  <1>9. ASSUME NEW r \in Run, DiagnosisFails(r) PROVE TypeOK' /\ DiagnosesAContext'
    BY <1>9, FaultType
    DEF DiagnosisFails, SkipCluster, TypeOK, DiagnosesAContext, Looping, PCs
  <1>10. ASSUME NEW r \in Run, DiagnoseCluster(r) PROVE TypeOK' /\ DiagnosesAContext'
    <2>1. PICK added \in SUBSET Key :
            /\ mem' = [mem EXCEPT ![r] = Recorded(mem[r], added, now[r])]
            /\ alerts' = [alerts EXCEPT ![r] = alerts[r] \cup added]
      BY <1>10 DEF DiagnoseCluster, Sightings, KeysOf
    <2>2. mem' \in [Run -> Book] /\ alerts' \in [Run -> SUBSET Key]
      BY <2>1, RecordedType DEF TypeOK
    <2>3. Looping(r)
      BY <1>10 DEF DiagnoseCluster, DiagnosesAContext
    <2> QED  BY <1>10, <2>2, <2>3
             DEF DiagnoseCluster, TypeOK, DiagnosesAContext, Looping, PCs
  <1>11. ASSUME NEW r \in Run, NothingToReport(r) PROVE TypeOK' /\ DiagnosesAContext'
    BY <1>11, ReturnType
    DEF NothingToReport, Answer, TypeOK, DiagnosesAContext, Looping, Return
  <1>12. ASSUME NEW r \in Run, SomethingToReport(r) PROVE TypeOK' /\ DiagnosesAContext'
    BY <1>12 DEF SomethingToReport, TypeOK, DiagnosesAContext, Looping, PCs
  <1>13. ASSUME NEW r \in Run, Report(r) PROVE TypeOK' /\ DiagnosesAContext'
    BY <1>13 DEF Report, Deliver, TypeOK, DiagnosesAContext, Looping, PCs
  <1>14. ASSUME NEW r \in Run, ReportFails(r) PROVE TypeOK' /\ DiagnosesAContext'
    BY <1>14, ReturnType, FaultType
    DEF ReportFails, TypeOK, DiagnosesAContext, Looping, Return
  <1>15. ASSUME NEW r \in Run, ReportUnacknowledged(r)
         PROVE  TypeOK' /\ DiagnosesAContext'
    BY <1>15, ReturnType, FaultType
    DEF ReportUnacknowledged, Deliver, TypeOK, DiagnosesAContext, Looping, Return
  <1>16. ASSUME NEW r \in Run, FlushNothing(r) PROVE TypeOK' /\ DiagnosesAContext'
    BY <1>16, ReturnType
    DEF FlushNothing, Answer, TypeOK, DiagnosesAContext, Looping, Return
  <1>17. ASSUME NEW r \in Run, FlushTruncates(r) PROVE TypeOK' /\ DiagnosesAContext'
    BY <1>17, FileType
    DEF FlushTruncates, FileKinds, TypeOK, DiagnosesAContext, Looping, PCs
  <1>18. ASSUME NEW r \in Run, FlushFails(r) PROVE TypeOK' /\ DiagnosesAContext'
    BY <1>18, ReturnType, FaultType
    DEF FlushFails, TypeOK, DiagnosesAContext, Looping, Return
  <1>19. ASSUME NEW r \in Run, FlushWrites(r) PROVE TypeOK' /\ DiagnosesAContext'
    <2>1. file' \in File
      BY <1>19, FileType DEF FlushWrites, FileKinds, TypeOK
    <2> QED  BY <1>19, <2>1, ReturnType
             DEF FlushWrites, Answer, TypeOK, DiagnosesAContext, Looping, Return
  <1>20. ASSUME NEW r \in Run, WriteFails(r) PROVE TypeOK' /\ DiagnosesAContext'
    <2>1. file' \in File
      BY <1>20, FileType DEF WriteFails, FileKinds, TypeOK
    <2> QED  BY <1>20, <2>1, ReturnType, FaultType
             DEF WriteFails, TypeOK, DiagnosesAContext, Looping, Return
  <1>21. ASSUME NEW r \in Run, Crash(r) PROVE TypeOK' /\ DiagnosesAContext'
    <2>1. file' \in File
      BY <1>21, FileType DEF Crash, FileKinds, TypeOK
    <2> QED  BY <1>21, <2>1, ReturnType, FaultType
             DEF Crash, Deliver, TypeOK, DiagnosesAContext, Looping, Return
  <1>22. CASE UNCHANGED vars
    BY <1>22 DEF vars, TypeOK, DiagnosesAContext, Looping
  <1> QED
    BY <1>1, <1>2, <1>3, <1>4, <1>5, <1>6, <1>7, <1>8, <1>9, <1>10, <1>11, <1>12,
       <1>13, <1>14, <1>15, <1>16, <1>17, <1>18, <1>19, <1>20, <1>21, <1>22
    DEF Next, Step

\* The initial states have the types.
LEMMA TypeInit == Init => TypeInv
  <1> SUFFICES ASSUME Init PROVE TypeOK /\ DiagnosesAContext
    BY DEF TypeInv
  <1>1. 1 \in 1..(Len(Contexts) + 1) /\ 0 \in Time /\ 0 \in 0..MaxFaults
    BY StoreAssumption, ScoutAssumption DEF Time
  <1> QED
    BY <1>1, NoMessagesType, FileType
    DEF Init, TypeOK, DiagnosesAContext, FileKinds, PCs

\* Every variable keeps its type, and an execution never diagnoses past its
\* last context (the loop of kubescout.go:56-81).
THEOREM TypeCorrect == Spec => [](TypeOK /\ DiagnosesAContext)
  <1>1. TypeInv => TypeOK /\ DiagnosesAContext
    BY DEF TypeInv
  <1> QED  BY <1>1, TypeInit, TypeStep, PTL DEF Spec

-----------------------------------------------------------------------------
(* What the store remembers was delivered.                                 *)
(*                                                                         *)
(* RecordedWasDelivered is not inductive: an execution writes whatever it  *)
(* has in memory.  What it has there is either delivered already or about  *)
(* to be reported under its own instant, and once it reaches the file its  *)
(* report is behind it.                                                    *)

Justified(r, k) ==
    \/ <<k, mem[r][k]>> \in delivered
    \/ k \in alerts[r] /\ mem[r][k] = now[r]

MemoryIsJustified ==
    \A r \in Run : \A k \in Key : mem[r][k] # None => Justified(r, k)

ReportedIsDelivered ==
    \A r \in Run : pc[r] \in {"flush", "write"} =>
        \A k \in alerts[r] : <<k, now[r]>> \in delivered

\* The instant of an execution is taken before there is an alert to report.
NoAlertsBeforeBegin ==
    \A r \in Run : pc[r] \in {"idle", "load", "config"} => alerts[r] = {}

DeliveryInv ==
    /\ TypeInv
    /\ MemoryIsJustified
    /\ ReportedIsDelivered
    /\ NoAlertsBeforeBegin
    /\ RecordedWasDelivered

\* A step that leaves the file and the log of deliveries alone, and after which
\* one execution is idle with an empty memory, keeps the invariant.
LEMMA ReturnKeepsDelivery ==
  ASSUME DeliveryInv, NEW r \in Run, NEW a, Return(r, a),
         delivered \subseteq delivered', RecordedWasDelivered'
  PROVE  /\ MemoryIsJustified'
         /\ ReportedIsDelivered'
         /\ NoAlertsBeforeBegin'
  BY DEF DeliveryInv, TypeInv, TypeOK, Return, MemoryIsJustified, Justified,
         ReportedIsDelivered, NoAlertsBeforeBegin, NoMessages

\* A cluster that is skipped leaves memory, alerts, file and log alone.
LEMMA SkipKeepsDelivery ==
  ASSUME DeliveryInv, NEW r \in Run, SkipCluster(r)
  PROVE  /\ MemoryIsJustified'
         /\ ReportedIsDelivered'
         /\ NoAlertsBeforeBegin'
         /\ RecordedWasDelivered'
  BY DEF DeliveryInv, TypeInv, TypeOK, SkipCluster, MemoryIsJustified, Justified,
         ReportedIsDelivered, NoAlertsBeforeBegin, RecordedWasDelivered

LEMMA DeliveryStep == DeliveryInv /\ [Next]_vars => DeliveryInv'
  <1> SUFFICES ASSUME DeliveryInv, [Next]_vars
               PROVE  /\ MemoryIsJustified'
                      /\ ReportedIsDelivered'
                      /\ NoAlertsBeforeBegin'
                      /\ RecordedWasDelivered'
    BY TypeStep DEF DeliveryInv
  <1> DEFINE Goal == /\ MemoryIsJustified'
                     /\ ReportedIsDelivered'
                     /\ NoAlertsBeforeBegin'
                     /\ RecordedWasDelivered'
  <1> USE DEF DeliveryInv, TypeInv, TypeOK
  <1>a. ASSUME UNCHANGED <<file, delivered>> PROVE RecordedWasDelivered'
    BY <1>a DEF RecordedWasDelivered
  <1>1. CASE Tick
    BY <1>1, <1>a DEF Tick, MemoryIsJustified, Justified, ReportedIsDelivered,
                      NoAlertsBeforeBegin
  <1>2. ASSUME NEW r \in Run, Start(r) PROVE Goal
    BY <1>2, <1>a DEF Start, MemoryIsJustified, Justified, ReportedIsDelivered,
                      NoAlertsBeforeBegin
  <1>3. ASSUME NEW r \in Run, LoadStore(r) PROVE Goal
    <2>1. \A k \in Key : LoadOrCreate(file)[k] # None =>
              <<k, LoadOrCreate(file)[k]>> \in delivered
      BY DEF LoadOrCreate, NoMessages, RecordedWasDelivered
    <2>2. MemoryIsJustified'
      BY <1>3, <2>1 DEF LoadStore, MemoryIsJustified, Justified
    <2> QED  BY <1>3, <2>2, <1>a DEF LoadStore, ReportedIsDelivered, NoAlertsBeforeBegin
  <1>4. ASSUME NEW r \in Run, LoadFails(r) PROVE Goal
    BY <1>4, <1>a, ReturnKeepsDelivery DEF LoadFails
  <1>5. ASSUME NEW r \in Run, Begin(r) PROVE Goal
    BY <1>5, <1>a DEF Begin, MemoryIsJustified, Justified, ReportedIsDelivered,
                      NoAlertsBeforeBegin
  <1>6. ASSUME NEW r \in Run, ConfigFails(r) PROVE Goal
    BY <1>6, <1>a, ReturnKeepsDelivery DEF ConfigFails
  <1>7. ASSUME NEW r \in Run, OpenCluster(r) PROVE Goal
    <2>1. \A k \in Key : mem'[r][k] \in {None, mem[r][k]}
      BY <1>7, GetClusterStoreType DEF OpenCluster
    <2>2. MemoryIsJustified'
      BY <1>7, <2>1 DEF OpenCluster, MemoryIsJustified, Justified
    <2> QED  BY <1>7, <2>2, <1>a DEF OpenCluster, ReportedIsDelivered, NoAlertsBeforeBegin
  <1>8. ASSUME NEW r \in Run, ClientFails(r) PROVE Goal
    BY <1>8, SkipKeepsDelivery DEF ClientFails
  <1>9. ASSUME NEW r \in Run, DiagnosisFails(r) PROVE Goal
    BY <1>9, SkipKeepsDelivery DEF DiagnosisFails
  <1>10. ASSUME NEW r \in Run, DiagnoseCluster(r) PROVE Goal
    <2>1. PICK added \in SUBSET Key :
            /\ mem' = [mem EXCEPT ![r] = Recorded(mem[r], added, now[r])]
            /\ alerts' = [alerts EXCEPT ![r] = alerts[r] \cup added]
      BY <1>10 DEF DiagnoseCluster, Sightings, KeysOf
    <2>2. \A k \in Key : mem'[r][k] = IF k \in added THEN now[r] ELSE mem[r][k]
      BY <2>1 DEF Recorded
    <2>3. MemoryIsJustified'
      BY <1>10, <2>1, <2>2 DEF DiagnoseCluster, MemoryIsJustified, Justified
    <2>4. ReportedIsDelivered' /\ NoAlertsBeforeBegin'
      BY <1>10, <2>1 DEF DiagnoseCluster, ReportedIsDelivered, NoAlertsBeforeBegin
    <2> QED  BY <1>10, <2>3, <2>4, <1>a DEF DiagnoseCluster
  <1>11. ASSUME NEW r \in Run, NothingToReport(r) PROVE Goal
    BY <1>11, <1>a, ReturnKeepsDelivery DEF NothingToReport
  <1>12. ASSUME NEW r \in Run, SomethingToReport(r) PROVE Goal
    BY <1>12, <1>a DEF SomethingToReport, MemoryIsJustified, Justified,
                       ReportedIsDelivered, NoAlertsBeforeBegin
  <1>13. ASSUME NEW r \in Run, Report(r) PROVE Goal
    <2>1. delivered \subseteq delivered' /\ \A k \in alerts[r] : <<k, now[r]>> \in delivered'
      BY <1>13 DEF Report, Deliver
    <2>2. MemoryIsJustified'
      BY <1>13, <2>1 DEF Report, MemoryIsJustified, Justified
    <2>3. ReportedIsDelivered' /\ NoAlertsBeforeBegin'
      BY <1>13, <2>1 DEF Report, ReportedIsDelivered, NoAlertsBeforeBegin
    <2>4. RecordedWasDelivered'
      BY <1>13, <2>1 DEF Report, RecordedWasDelivered
    <2> QED  BY <2>2, <2>3, <2>4
  <1>14. ASSUME NEW r \in Run, ReportFails(r) PROVE Goal
    BY <1>14, <1>a, ReturnKeepsDelivery DEF ReportFails
  <1>15. ASSUME NEW r \in Run, ReportUnacknowledged(r) PROVE Goal
    <2>1. delivered \subseteq delivered' /\ RecordedWasDelivered'
      BY <1>15 DEF ReportUnacknowledged, Deliver, RecordedWasDelivered
    <2> QED  BY <1>15, <2>1, ReturnKeepsDelivery DEF ReportUnacknowledged
  <1>16. ASSUME NEW r \in Run, FlushNothing(r) PROVE Goal
    BY <1>16, <1>a, ReturnKeepsDelivery DEF FlushNothing
  <1>17. ASSUME NEW r \in Run, FlushTruncates(r) PROVE Goal
    BY <1>17 DEF FlushTruncates, FileOf, MemoryIsJustified, Justified,
                 ReportedIsDelivered, NoAlertsBeforeBegin, RecordedWasDelivered
  <1>18. ASSUME NEW r \in Run, FlushFails(r) PROVE Goal
    BY <1>18, <1>a, ReturnKeepsDelivery DEF FlushFails
  <1>19. ASSUME NEW r \in Run, FlushWrites(r) PROVE Goal
    <2>1. \A k \in Key : mem[r][k] # None => <<k, mem[r][k]>> \in delivered
      BY <1>19 DEF FlushWrites, MemoryIsJustified, Justified, ReportedIsDelivered
    <2>2. RecordedWasDelivered'
      BY <1>19, <2>1 DEF FlushWrites, JsonFile, FileOf, RecordedWasDelivered
    <2> QED  BY <1>19, <2>2, ReturnKeepsDelivery DEF FlushWrites
  <1>20. ASSUME NEW r \in Run, WriteFails(r) PROVE Goal
    <2>1. RecordedWasDelivered'
      BY <1>20 DEF WriteFails, FileOf, RecordedWasDelivered
    <2> QED  BY <1>20, <2>1, ReturnKeepsDelivery DEF WriteFails
  <1>21. ASSUME NEW r \in Run, Crash(r) PROVE Goal
    <2>1. delivered \subseteq delivered' /\ RecordedWasDelivered'
      BY <1>21 DEF Crash, Deliver, FileOf, RecordedWasDelivered
    <2> QED  BY <1>21, <2>1, ReturnKeepsDelivery DEF Crash
  <1>22. CASE UNCHANGED vars
    BY <1>22 DEF vars, MemoryIsJustified, Justified, ReportedIsDelivered,
                 NoAlertsBeforeBegin, RecordedWasDelivered
  <1> QED
    BY <1>1, <1>2, <1>3, <1>4, <1>5, <1>6, <1>7, <1>8, <1>9, <1>10, <1>11, <1>12,
       <1>13, <1>14, <1>15, <1>16, <1>17, <1>18, <1>19, <1>20, <1>21, <1>22
    DEF Next, Step

LEMMA DeliveryInit == Init => DeliveryInv
  <1> SUFFICES ASSUME Init
               PROVE  /\ MemoryIsJustified
                      /\ ReportedIsDelivered
                      /\ NoAlertsBeforeBegin
                      /\ RecordedWasDelivered
    BY TypeInit DEF DeliveryInv
  <1> QED  BY DEF Init, MemoryIsJustified, ReportedIsDelivered, NoAlertsBeforeBegin,
                  RecordedWasDelivered, NoMessages, FileOf

\* Whatever executions overlap, fail, die or are never acknowledged, the store
\* file remembers no alert that was not delivered at the remembered instant:
\* Flush comes after a successful Report only (kubescout.go:87-95).
THEOREM NothingUntoldIsRecorded == Spec => []RecordedWasDelivered
  <1>1. DeliveryInv => RecordedWasDelivered
    BY DEF DeliveryInv
  <1> QED  BY <1>1, DeliveryInit, DeliveryStep, PTL DEF Spec

-----------------------------------------------------------------------------
(* The order in which a map is searched is irrelevant.                     *)

\* What an execution finds in the store of the cluster it diagnoses is in
\* grace, whenever deduplication is on.
OpenedIsFresh ==
    \A r \in Run : pc[r] = "diagnose" /\ DedupDuration > 0 =>
        \A k \in KeysOf(Context(r)) :
            mem[r][k] # None => InGrace(mem[r][k], now[r])

FreshInv == TypeInv /\ OpenedIsFresh

\* Only OpenCluster leads to a diagnosis, and the other steps leave the memory
\* of an execution that diagnoses alone.
LEMMA FreshStep == FreshInv /\ [Next]_vars => FreshInv'
  <1> SUFFICES ASSUME FreshInv, [Next]_vars PROVE OpenedIsFresh'
    BY TypeStep DEF FreshInv
  <1> USE DEF FreshInv, TypeInv, TypeOK
  <1>1. ASSUME NEW r \in Run, OpenCluster(r) PROVE OpenedIsFresh'
    <2>1. \A k \in KeysOf(Context(r)) :
            DedupDuration > 0 /\ mem'[r][k] # None => InGrace(mem'[r][k], now[r])
      <3> SUFFICES ASSUME NEW k \in KeysOf(Context(r)), DedupDuration > 0,
                          mem'[r][k] # None
                   PROVE  InGrace(mem'[r][k], now[r])
        OBVIOUS
      <3>1. k \in Key /\ mem[r] \in Book /\ now[r] \in Int
        BY DEF KeysOf, Time
      <3>2. mem'[r][k] = mem[r][k] /\ mem[r][k] # None /\ ~ Expired(mem[r][k], now[r])
        BY <1>1, <3>1 DEF OpenCluster, GetClusterStore
      <3>3. mem[r][k] \in Int
        BY <3>1, <3>2 DEF Book, Time
      <3> QED  BY <3>1, <3>2, <3>3, StoreAssumption DEF Expired, InGrace
    <2>2. Context(r)' = Context(r)
      BY <1>1 DEF OpenCluster, Context
    <2> QED  BY <1>1, <2>1, <2>2 DEF OpenCluster, OpenedIsFresh, Context
  <1>2. ASSUME NEW r \in Run, Step(r), ~ OpenCluster(r) PROVE OpenedIsFresh'
    <2>1. pc'[r] # "diagnose" /\ \A s \in Run \ {r} :
            pc'[s] = pc[s] /\ at'[s] = at[s] /\ mem'[s] = mem[s] /\ now'[s] = now[s]
      BY <1>2 DEF Step, LoadStore, LoadFails, Begin, ConfigFails, ClientFails,
              DiagnoseCluster, DiagnosisFails, SkipCluster, NothingToReport,
              SomethingToReport, Report, ReportFails, ReportUnacknowledged,
              FlushNothing, FlushTruncates, FlushFails, FlushWrites, WriteFails, Return
    <2> QED  BY <2>1 DEF OpenedIsFresh, Context
  <1>3. ASSUME NEW r \in Run, Start(r) \/ Crash(r) PROVE OpenedIsFresh'
    <2>1. pc'[r] # "diagnose" /\ \A s \in Run \ {r} :
            pc'[s] = pc[s] /\ at'[s] = at[s] /\ mem'[s] = mem[s] /\ now'[s] = now[s]
      BY <1>3 DEF Start, Crash, Return
    <2> QED  BY <2>1 DEF OpenedIsFresh, Context
  <1>4. CASE Tick \/ UNCHANGED vars
    BY <1>4 DEF Tick, vars, OpenedIsFresh, Context
  <1> QED  BY <1>1, <1>2, <1>3, <1>4 DEF Next

\* Where everything is fresh, a match is never both in grace and out of it.
LEMMA FreshIsDecided == FreshInv => MapOrderIsIrrelevant
  <1> SUFFICES ASSUME FreshInv, NEW r \in Run, pc[r] = "diagnose",
                      NEW k \in KeysOf(Context(r)),
                      Skips(mem[r], k, now[r]), Adds(mem[r], k, now[r])
               PROVE  FALSE
    BY DEF MapOrderIsIrrelevant
  <1>1. DedupDuration > 0
    BY DEF Skips, InGrace
  <1>2. \A j \in tryMatch(mem[r], k) : j \in KeysOf(Context(r)) /\ mem[r][j] # None
    BY DEF tryMatch, KeysOf, Matches
  <1>3. PICK j \in tryMatch(mem[r], k) : ~ InGrace(mem[r][j], now[r])
    BY DEF Skips, Adds
  <1> QED  BY <1>1, <1>2, <1>3 DEF FreshInv, OpenedIsFresh

\* TryAdd gives the same answer whichever similar message its search through
\* the map meets first: GetClusterStore has pruned what has expired
\* (store.go:69-78), so all matches are in grace, or none counts.
THEOREM MapOrderNeverDecides == Spec => []MapOrderIsIrrelevant
  <1>1. Init => FreshInv
    BY TypeInit DEF Init, FreshInv, OpenedIsFresh
  <1> QED  BY <1>1, FreshStep, FreshIsDecided, PTL DEF Spec

-----------------------------------------------------------------------------
(* What is flushed has been pruned.                                        *)
(*                                                                         *)
(* FlushIsPruned speaks of the end of the loop.  Inductive is, turn by     *)
(* turn, that each context behind an execution without an error, and the   *)
(* one it diagnoses, holds nothing that has expired.                       *)

\* Context number i has been opened by execution r.
Opened(r, i) == i < at[r] \/ (i = at[r] /\ pc[r] = "diagnose")

\* Nothing that execution r has in memory of cluster c has expired.
PrunedFor(r, c) ==
    \A k \in KeysOf(c) : mem[r][k] # None => InGrace(mem[r][k], now[r])

LoopPrunes(r) ==
    /\ pc[r] \in {"idle", "load", "config"} => at[r] = 1
    /\ pc[r] \in {"report", "flush", "write"} => ~ Looping(r)
    /\ ~ err[r] /\ DedupDuration > 0 =>
         \A i \in 1..Len(Contexts) : Opened(r, i) => PrunedFor(r, Contexts[i])

PruneInv == TypeInv /\ \A r \in Run : LoopPrunes(r)

\* Opening a cluster prunes it, and keeps what was pruned so.
LEMMA OpeningPrunes ==
  ASSUME TypeOK, DedupDuration > 0, NEW r \in Run, OpenCluster(r)
  PROVE  /\ PrunedFor(r, Context(r))'
         /\ \A c \in Cluster : PrunedFor(r, c) => PrunedFor(r, c)'
  <1>1. mem'[r] = GetClusterStore(mem[r], Context(r), now[r]) /\ now' = now
        /\ Context(r)' = Context(r) /\ mem[r] \in Book /\ now[r] \in Int
    BY DEF OpenCluster, TypeOK, Context, Time
  <1>2. ASSUME NEW k \in KeysOf(Context(r)), mem'[r][k] # None
        PROVE  InGrace(mem'[r][k], now[r])
    <2>1. k \in Key
      BY DEF KeysOf
    <2>2. mem'[r][k] = mem[r][k] /\ ~ Expired(mem[r][k], now[r])
      BY <1>1, <1>2, <2>1 DEF GetClusterStore
    <2>3. mem[r][k] \in Int
      BY <1>1, <1>2, <2>1, <2>2 DEF Book, Time
    <2> QED  BY <1>1, <2>2, <2>3, StoreAssumption DEF Expired, InGrace
  <1>3. \A k \in Key : mem'[r][k] \in {None, mem[r][k]}
    BY <1>1, GetClusterStoreType
  <1> QED  BY <1>1, <1>2, <1>3 DEF PrunedFor, KeysOf

\* What a diagnosis records is of its own instant, so in grace.
LEMMA RecordingKeepsPruned ==
  ASSUME TypeOK, DedupDuration > 0, NEW r \in Run, NEW added \in SUBSET Key,
         mem' = [mem EXCEPT ![r] = Recorded(mem[r], added, now[r])], now' = now
  PROVE  \A c \in Cluster : PrunedFor(r, c) => PrunedFor(r, c)'
  <1>1. now[r] \in Int /\ InGrace(now[r], now[r])
    BY StoreAssumption DEF TypeOK, Time, InGrace
  <1>2. \A k \in Key : mem'[r][k] = IF k \in added THEN now[r] ELSE mem[r][k]
    BY DEF Recorded, TypeOK
  <1> QED  BY <1>1, <1>2 DEF PrunedFor, KeysOf

LEMMA PruneStep == PruneInv /\ [Next]_vars => PruneInv'
  <1> SUFFICES ASSUME PruneInv, [Next]_vars, NEW s \in Run PROVE LoopPrunes(s)'
    BY TypeStep DEF PruneInv
  <1> USE DEF PruneInv, TypeInv, TypeOK
  <1>a. LoopPrunes(s) /\ \A i \in 1..Len(Contexts) : Contexts[i] \in Cluster
    BY ScoutAssumption
  <1>b. ASSUME pc'[s] = pc[s], at'[s] = at[s], mem'[s] = mem[s], now'[s] = now[s],
               err'[s] = err[s]
        PROVE  LoopPrunes(s)'
    BY <1>a, <1>b DEF LoopPrunes, Opened, PrunedFor, Looping
  <1>c. ASSUME NEW a, Return(s, a) PROVE LoopPrunes(s)'
    BY <1>c DEF Return, LoopPrunes, Opened, Looping
  <1>1. CASE Tick \/ UNCHANGED vars
    BY <1>1, <1>b DEF Tick, vars
  <1>2. ASSUME NEW r \in Run, r # s, Start(r) \/ Step(r) \/ Crash(r) PROVE LoopPrunes(s)'
    BY <1>2, <1>b
    DEF Start, Crash, Step, LoadStore, LoadFails, Begin, ConfigFails, OpenCluster,
        ClientFails, DiagnoseCluster, DiagnosisFails, SkipCluster, NothingToReport,
        SomethingToReport, Report, ReportFails, ReportUnacknowledged,
        FlushNothing, FlushTruncates, FlushFails, FlushWrites, WriteFails, Return
  <1>3. CASE Start(s) \/ LoadStore(s) \/ Begin(s)
    BY <1>3, <1>a DEF Start, LoadStore, Begin, LoopPrunes, Opened, Looping
  <1>4. CASE OpenCluster(s)
    <2>1. /\ pc[s] = "cluster" /\ pc'[s] = "diagnose" /\ at'[s] = at[s]
          /\ err'[s] = err[s] /\ now' = now
      BY <1>4 DEF OpenCluster
    <2>2. ASSUME DedupDuration > 0, ~ err[s], NEW i \in 1..Len(Contexts), Opened(s, i)'
          PROVE  PrunedFor(s, Contexts[i])'
      <3>1. CASE i = at[s]
        BY <1>4, <2>1, <2>2, <3>1, OpeningPrunes DEF Context, PrunedFor
      <3>2. CASE i < at[s]
        BY <1>4, <1>a, <2>2, <3>2, OpeningPrunes DEF LoopPrunes, Opened
      <3> QED  BY <2>1, <2>2, <3>1, <3>2 DEF Opened
    <2> QED  BY <2>1, <2>2 DEF LoopPrunes
  <1>5. CASE ClientFails(s) \/ DiagnosisFails(s)
    BY <1>5, <1>a DEF ClientFails, DiagnosisFails, SkipCluster, LoopPrunes
  <1>6. CASE DiagnoseCluster(s)
    <2>1. PICK added \in SUBSET Key :
            mem' = [mem EXCEPT ![s] = Recorded(mem[s], added, now[s])]
      BY <1>6 DEF DiagnoseCluster, Sightings, KeysOf
    <2>2. /\ pc[s] = "diagnose" /\ pc'[s] = "cluster" /\ at'[s] = at[s] + 1
          /\ err'[s] = err[s] /\ now' = now
      BY <1>6 DEF DiagnoseCluster
    <2>3. ASSUME NEW i \in 1..Len(Contexts), Opened(s, i)' PROVE Opened(s, i)
      BY <2>2, <2>3, ScoutAssumption DEF Opened
    <2>4. ASSUME DedupDuration > 0, ~ err[s], NEW i \in 1..Len(Contexts), Opened(s, i)'
          PROVE  PrunedFor(s, Contexts[i])'
      BY <1>a, <2>1, <2>2, <2>3, <2>4, RecordingKeepsPruned DEF LoopPrunes
    <2> QED  BY <2>2, <2>4 DEF LoopPrunes
  <1>7. CASE SomethingToReport(s) \/ Report(s) \/ FlushTruncates(s)
    BY <1>7, <1>a
    DEF SomethingToReport, Report, FlushTruncates, LoopPrunes, Opened, PrunedFor, Looping
  <1>8. CASE \/ LoadFails(s) \/ ConfigFails(s) \/ NothingToReport(s) \/ ReportFails(s)
             \/ ReportUnacknowledged(s) \/ FlushNothing(s) \/ FlushFails(s)
             \/ FlushWrites(s) \/ WriteFails(s) \/ Crash(s)
    BY <1>8, <1>c
    DEF LoadFails, ConfigFails, NothingToReport, ReportFails, ReportUnacknowledged,
        FlushNothing, FlushFails, FlushWrites, WriteFails, Crash
  <1> QED  BY <1>1, <1>2, <1>3, <1>4, <1>5, <1>6, <1>7, <1>8 DEF Next, Step

\* At the end of the loop every context is behind the execution.
LEMMA LoopedIsPruned == PruneInv => FlushIsPruned
  <1> SUFFICES ASSUME PruneInv, NEW r \in Run, pc[r] \in {"flush", "write"}, ~ err[r],
                      DedupDuration > 0, NEW i \in 1..Len(Contexts)
               PROVE  PrunedFor(r, Contexts[i])
    BY DEF FlushIsPruned, PrunedFor
  <1>1. ~ Looping(r) /\ at[r] \in Nat /\ Len(Contexts) \in Nat
    BY ScoutAssumption DEF PruneInv, TypeInv, TypeOK, LoopPrunes
  <1> QED  BY <1>1 DEF PruneInv, LoopPrunes, Opened, Looping

\* The store does not grow with the number of executions: whatever failed before,
\* an execution without an error flushes no expired record of its contexts,
\* because GetClusterStore pruned each of them (store.go:69-79).
THEOREM FlushesArePruned == Spec => []FlushIsPruned
  <1>1. Init => PruneInv
    BY TypeInit, ScoutAssumption DEF Init, PruneInv, LoopPrunes, Opened
  <1> QED  BY <1>1, PruneStep, LoopedIsPruned, PTL DEF Spec

-----------------------------------------------------------------------------
(* An execution that succeeds has told of every standing problem.          *)
(*                                                                         *)
(* The loop of kubescout.go:56-81 makes it true context by context.  As    *)
(* long as no error is kept, each standing message of a context that is    *)
(* behind the execution is told, or is like one that is going to be        *)
(* reported; and an execution reports, and flushes, after its loop only.   *)

Covered(r, k) == Told(k, now[r]) \/ \E j \in alerts[r] : Matches(j, k)

Behind(r, k) == \E i \in 1..(at[r] - 1) : Contexts[i] = ClusterOf[EntityOf[k]]

Sound(r) ==
    /\ pc[r] # "idle" => result[r] = "none"
    /\ pc[r] \in {"idle", "load", "config"} => at[r] = 1
    /\ pc[r] \in {"report", "flush", "write"} => ~ Looping(r)
    /\ pc[r] # "idle" /\ ~ err[r] =>
         \A k \in Standing : Behind(r, k) => Covered(r, k)
    /\ result[r] = "ok" => \A k \in Standing : Told(k, now[r])

SuccessInv == DeliveryInv /\ \A r \in Run : Sound(r)

\* A step of one slot leaves the locals of the others alone.
Alone(r) ==
    \A s \in Run \ {r} :
        /\ pc'[s] = pc[s] /\ at'[s] = at[s] /\ now'[s] = now[s]
        /\ alerts'[s] = alerts[s] /\ err'[s] = err[s] /\ result'[s] = result[s]

\* What was told stays told, so the other slots stay sound.
LEMMA OthersStaySound ==
  ASSUME NEW r \in Run, Alone(r), delivered \subseteq delivered',
         NEW s \in Run \ {r}, Sound(s)
  PROVE  Sound(s)'
  BY DEF Alone, Sound, Covered, Behind, Told, Looping

\* A slot that returns with an error, or is killed, is sound.
LEMMA FailedIsSound ==
  ASSUME TypeOK, NEW r \in Run, NEW a, a # "ok", Return(r, a)
  PROVE  Sound(r)' /\ Alone(r)
  BY DEF TypeOK, Return, Sound, Looping, Alone

\* After the loop every standing message is covered, unless an error is kept.
LEMMA LoopCoversAll ==
  ASSUME TypeOK, NEW r \in Run, Sound(r), pc[r] # "idle", ~ Looping(r), ~ err[r]
  PROVE  \A k \in Standing : Covered(r, k)
  <1> SUFFICES ASSUME NEW k \in Standing PROVE Behind(r, k)
    BY DEF Sound
  <1>1. PICK i \in 1..Len(Contexts) : Contexts[i] = ClusterOf[EntityOf[k]]
    BY DEF Standing
  <1>2. Len(Contexts) \in Nat
    BY ScoutAssumption
  <1>3. at[r] \in 1..(Len(Contexts) + 1) /\ ~ at[r] <= Len(Contexts)
    BY DEF Looping, TypeOK
  <1>4. at[r] = Len(Contexts) + 1
    BY <1>2, <1>3
  <1> QED  BY <1>1, <1>2, <1>4 DEF Behind

\* A slot that returns its kept error is sound if, without one, all was told.
LEMMA AnsweredIsSound ==
  ASSUME TypeOK, NEW r \in Run, Return(r, Answer(err[r])),
         delivered \subseteq delivered',
         ~ err[r] => \A k \in Standing : Told(k, now[r])
  PROVE  Sound(r)' /\ Alone(r)
  <1>1. Alone(r) /\ now' = now /\ pc'[r] = "idle" /\ at'[r] = 1
    BY DEF TypeOK, Return, Alone
  <1>2. result'[r] = Answer(err[r])
    BY DEF TypeOK, Return
  <1>3. result'[r] = "ok" => \A k \in Standing : Told(k, now[r])'
    BY <1>1, <1>2 DEF Answer, Told
  <1> QED  BY <1>1, <1>3 DEF Sound

\* Flushing comes after the report, so whatever is covered is told.
LEMMA FlushedIsTold ==
  ASSUME DeliveryInv, NEW r \in Run, Sound(r), pc[r] \in {"flush", "write"}, ~ err[r]
  PROVE  \A k \in Standing : Told(k, now[r])
  <1>1. \A k \in Standing : Covered(r, k)
    BY LoopCoversAll DEF DeliveryInv, TypeInv, Sound
  <1>2. \A j \in alerts[r] : <<j, now[r]>> \in delivered
    BY DEF DeliveryInv, ReportedIsDelivered
  <1> QED  BY <1>1, <1>2 DEF Covered, Told

\* A diagnosis covers the standing messages of its cluster: what TryAdd does
\* not accept is silenced by a record that is justified, or by its like.
LEMMA DiagnosisCovers ==
  ASSUME DeliveryInv, NEW r \in Run,
         NEW seen \in Sightings(Context(r), Persisting), NEW added \in SUBSET seen,
         Accepted(mem[r], seen, added, now[r]),
         NEW k \in Standing, ClusterOf[EntityOf[k]] = Context(r)
  PROVE  Told(k, now[r]) \/ \E j \in alerts[r] \cup added : Matches(j, k)
  <1>1. k \in seen \ Event /\ k \in Key
    BY ScoutAssumption DEF Standing, Sightings, KeysOf
  <1>2. \/ k \in added
        \/ Skips(mem[r], k, now[r])
        \/ \E j \in added : Matches(j, k)
    BY <1>1 DEF Accepted, AcceptedOf
  <1>3. CASE k \in added
    BY <1>3 DEF Matches
  <1>4. CASE Skips(mem[r], k, now[r])
    <2>1. PICK j \in Key : /\ mem[r][j] # None
                           /\ Matches(j, k)
                           /\ InGrace(mem[r][j], now[r])
      BY <1>1, <1>4 DEF Skips, tryMatch, Matches
    <2>2. <<j, mem[r][j]>> \in delivered \/ j \in alerts[r]
      BY <2>1 DEF DeliveryInv, MemoryIsJustified, Justified
    <2> QED  BY <2>1, <2>2 DEF Told
  <1> QED  BY <1>2, <1>3, <1>4

LEMMA SuccessStep == SuccessInv /\ [Next]_vars => SuccessInv'
  <1> SUFFICES ASSUME SuccessInv, [Next]_vars PROVE \A s \in Run : Sound(s)'
    BY DeliveryStep DEF SuccessInv
  <1> DEFINE Goal(r) == Sound(r)' /\ Alone(r) /\ delivered \subseteq delivered'
  <1>a. TypeOK /\ DeliveryInv /\ \A s \in Run : Sound(s)
    BY DEF SuccessInv, DeliveryInv, TypeInv
  <1>1. CASE Tick \/ UNCHANGED vars
    BY <1>1, <1>a DEF Tick, vars, Sound, Covered, Behind, Told, Looping
  <1>2. ASSUME NEW r \in Run, Start(r) PROVE Goal(r)
    BY <1>2, <1>a, ScoutAssumption DEF Start, TypeOK, Sound, Behind, Looping, Alone
  <1>3. ASSUME NEW r \in Run, LoadStore(r) PROVE Goal(r)
    BY <1>3, <1>a DEF LoadStore, TypeOK, Sound, Covered, Behind, Told, Looping, Alone
  <1>4. ASSUME NEW r \in Run, Begin(r) PROVE Goal(r)
    BY <1>4, <1>a DEF Begin, TypeOK, Sound, Behind, Looping, Alone
  <1>5. ASSUME NEW r \in Run, OpenCluster(r) PROVE Goal(r)
    BY <1>5, <1>a DEF OpenCluster, TypeOK, Sound, Covered, Behind, Told, Looping, Alone
  <1>6. ASSUME NEW r \in Run, ClientFails(r) \/ DiagnosisFails(r) PROVE Goal(r)
    BY <1>6, <1>a
    DEF ClientFails, DiagnosisFails, SkipCluster, TypeOK, Sound, Looping, Alone
  <1>7. ASSUME NEW r \in Run, DiagnoseCluster(r) PROVE Goal(r)
    <2>0. PICK seen \in Sightings(Context(r), Persisting) :
            \E added \in SUBSET seen :
              /\ Accepted(mem[r], seen, added, now[r])
              /\ alerts' = [alerts EXCEPT ![r] = alerts[r] \cup added]
      BY <1>7 DEF DiagnoseCluster
    <2>1. PICK added \in SUBSET seen :
            /\ Accepted(mem[r], seen, added, now[r])
            /\ alerts' = [alerts EXCEPT ![r] = alerts[r] \cup added]
      BY <2>0
    <2>2. Alone(r) /\ delivered' = delivered
      BY <1>7, <2>1 DEF DiagnoseCluster, Alone
    <2>3. /\ pc[r] = "diagnose" /\ pc'[r] = "cluster" /\ at'[r] = at[r] + 1
          /\ now' = now /\ err' = err /\ result' = result
          /\ alerts'[r] = alerts[r] \cup added
      BY <1>7, <1>a, <2>1 DEF DiagnoseCluster, TypeOK
    <2>4. ASSUME NEW k \in Standing, Behind(r, k)', ~ err[r] PROVE Covered(r, k)'
      <3>1. at[r] \in Nat /\ (Behind(r, k) \/ Context(r) = ClusterOf[EntityOf[k]])
        BY <1>a, <2>3, <2>4, ScoutAssumption DEF TypeOK, Behind, Context
      <3>2. Told(k, now[r]) \/ \E j \in alerts[r] \cup added : Matches(j, k)
        BY <1>a, <2>1, <2>3, <2>4, <3>1, DiagnosisCovers DEF Sound, Covered
      <3> QED  BY <2>2, <2>3, <3>2 DEF Covered, Told
    <2> QED  BY <1>a, <2>2, <2>3, <2>4 DEF Sound
  <1>8. ASSUME NEW r \in Run, NothingToReport(r) PROVE Goal(r)
    <2>1. ~ err[r] => \A k \in Standing : Told(k, now[r])
      BY <1>8, <1>a, LoopCoversAll DEF NothingToReport, Covered
    <2> QED  BY <1>8, <1>a, <2>1, AnsweredIsSound DEF NothingToReport
  <1>9. ASSUME NEW r \in Run, SomethingToReport(r) PROVE Goal(r)
    BY <1>9, <1>a
    DEF SomethingToReport, TypeOK, Sound, Covered, Behind, Told, Looping, Alone
  <1>10. ASSUME NEW r \in Run, Report(r) PROVE Goal(r)
    BY <1>10, <1>a
    DEF Report, Deliver, TypeOK, Sound, Covered, Behind, Told, Looping, Alone
  <1>11. ASSUME NEW r \in Run, FlushTruncates(r) PROVE Goal(r)
    BY <1>11, <1>a
    DEF FlushTruncates, TypeOK, Sound, Covered, Behind, Told, Looping, Alone
  <1>12. ASSUME NEW r \in Run, FlushNothing(r) \/ FlushWrites(r) PROVE Goal(r)
    BY <1>12, <1>a, FlushedIsTold, AnsweredIsSound DEF FlushNothing, FlushWrites
  <1>13. ASSUME NEW r \in Run,
                LoadFails(r) \/ ConfigFails(r) \/ ReportFails(r)
                  \/ FlushFails(r) \/ WriteFails(r) \/ Crash(r)
         PROVE  Goal(r)
    BY <1>13, <1>a, FailedIsSound
    DEF LoadFails, ConfigFails, ReportFails, FlushFails, WriteFails, Crash, Deliver
  <1>14. ASSUME NEW r \in Run, ReportUnacknowledged(r) PROVE Goal(r)
    BY <1>14, <1>a, FailedIsSound DEF ReportUnacknowledged, Deliver
  <1>15. ASSUME NEW r \in Run, Goal(r) PROVE \A s \in Run : Sound(s)'
    BY <1>15, <1>a, OthersStaySound
  <1>16. ASSUME NEW r \in Run, Start(r) \/ Step(r) \/ Crash(r) PROVE Goal(r)
    BY <1>16, <1>2, <1>3, <1>4, <1>5, <1>6, <1>7, <1>8, <1>9, <1>10, <1>11, <1>12,
       <1>13, <1>14 DEF Step
  <1> QED  BY <1>1, <1>15, <1>16 DEF Next

LEMMA SuccessInit == Init => SuccessInv
  <1> SUFFICES ASSUME Init, NEW r \in Run PROVE Sound(r)
    BY DeliveryInit DEF SuccessInv
  <1> QED  BY DEF Init, Sound

\* An execution that returns no error has told of every problem that was there
\* all the time, or found it told and in grace, whatever else runs beside it or
\* failed before it (kubescout.go:56-97).
THEOREM SuccessTells == Spec => []SuccessMeansTold
  <1>1. SuccessInv => SuccessMeansTold
    BY DEF SuccessInv, Sound, SuccessMeansTold
  <1> QED  BY <1>1, SuccessInit, SuccessStep, PTL DEF Spec

-----------------------------------------------------------------------------
(* A broken file is final.                                                 *)

\* Of an execution that is idle or loads, only a complete or empty file leads on.
LEMMA BrokenStep == TypeOK /\ Broken /\ [Next]_vars => Broken'
  <1> SUFFICES ASSUME TypeOK, Broken, [Next]_vars PROVE Broken'
    OBVIOUS
  <1> USE DEF Broken
  <1>1. CASE Tick \/ UNCHANGED vars
    BY <1>1 DEF Tick, vars
  <1>2. ASSUME NEW r \in Run, Start(r) \/ LoadFails(r) PROVE Broken'
    BY <1>2 DEF TypeOK, Start, LoadFails, Return
  <1>3. ASSUME NEW r \in Run, Crash(r) PROVE Broken'
    BY <1>3 DEF TypeOK, Crash, Return
  <1>4. ASSUME NEW r \in Run, Step(r) PROVE LoadFails(r)
    BY <1>4 DEF Step, LoadStore, Loadable, Begin, ConfigFails, OpenCluster,
            ClientFails, DiagnoseCluster, DiagnosisFails, NothingToReport,
            SomethingToReport, Report, ReportFails, ReportUnacknowledged,
            FlushNothing, FlushTruncates, FlushFails, FlushWrites, WriteFails
  <1> QED  BY <1>1, <1>2, <1>3, <1>4 DEF Next

\* Once the store file does not parse and no execution holds a good copy of it,
\* no execution gets past the load again: kubescout is silent until somebody
\* removes the file (store.go:51-54).
THEOREM BrokenForEver == Spec => TornStoreIsFinal
  <1>1. TypeInv => TypeOK
    BY DEF TypeInv
  <1>2. TypeOK /\ [Next]_vars => [Broken => Broken']_vars
    BY BrokenStep
  <1> QED  BY <1>1, <1>2, TypeInit, TypeStep, PTL DEF Spec, TornStoreIsFinal

-----------------------------------------------------------------------------
(* The contract with Diagnosis.                                            *)
(*                                                                         *)
(* Diagnosis is about one cluster and its part of the store.  An execution *)
(* has the store of all clusters in memory, and DiagnoseCluster applies    *)
(* the promise to all of it.                                               *)

CONSTANT InWork     \* the cluster that is diagnosed

EntitiesInWork == {e \in Entity : ClusterOf[e] = InWork}

PartOf(book) == [k \in KeysOf(InWork) |-> book[k]]

One == INSTANCE Observation WITH
            Cluster <- {InWork},
            Entity <- EntitiesInWork,
            Key <- KeysOf(InWork),
            ClusterOf <- [e \in EntitiesInWork |-> InWork],
            EntityOf <- PartOf(EntityOf),
            Similar <- Similar \cap (KeysOf(InWork) \X KeysOf(InWork)),
            Event <- Event \cap KeysOf(InWork),
            Inspected <- Inspected \cap EntitiesInWork

\* The part is a store of one cluster by itself, which is what Diagnosis assumes
\* of the store that it is handed.
LEMMA PartIsAStore ==
  /\ One!StoreAssumption
  /\ One!ObservationAssumption
  /\ \A book \in Book : PartOf(book) \in One!Book
  BY StoreAssumption, ObservationAssumption
  DEF One!StoreAssumption, One!ObservationAssumption, EntitiesInWork, KeysOf, PartOf,
      Book, One!Book, Time, One!Time

\* Messages that are alike are of one entity, and so of one cluster.
LEMMA AlikeInOneCluster ==
  ASSUME NEW k \in KeysOf(InWork), NEW j \in Key
  PROVE  /\ Matches(j, k) => j \in KeysOf(InWork)
         /\ j \in KeysOf(InWork) => (One!Matches(j, k) <=> Matches(j, k))
  BY DEF Matches, KeysOf, One!Matches, PartOf

LEMMA SearchIsLocal ==
  ASSUME NEW book \in Book, NEW k \in KeysOf(InWork)
  PROVE  /\ One!tryMatch(PartOf(book), k) = tryMatch(book, k)
         /\ tryMatch(book, k) \subseteq KeysOf(InWork)
  <1>1. KeysOf(InWork) \subseteq Key
    BY DEF KeysOf
  <1>2. PartOf(book)[k] = book[k]
    BY DEF PartOf
  <1>3. {j \in KeysOf(InWork) : PartOf(book)[j] # None /\ One!Matches(j, k)}
          = {j \in Key : book[j] # None /\ Matches(j, k)}
    BY <1>1, AlikeInOneCluster DEF PartOf
  <1> QED  BY <1>1, <1>2, <1>3 DEF tryMatch, One!tryMatch

LEMMA AnswersAreLocal ==
  ASSUME NEW book \in Book, NEW k \in KeysOf(InWork), NEW n
  PROVE  /\ One!Skips(PartOf(book), k, n) <=> Skips(book, k, n)
         /\ One!Adds(PartOf(book), k, n) <=> Adds(book, k, n)
  <1>1. ASSUME NEW j \in tryMatch(book, k)
        PROVE  One!InGrace(PartOf(book)[j], n) <=> InGrace(book[j], n)
    BY SearchIsLocal DEF InGrace, One!InGrace, PartOf
  <1> QED  BY <1>1, SearchIsLocal DEF Skips, One!Skips, Adds, One!Adds

LEMMA AcceptedOfIsLocal ==
  ASSUME NEW book \in Book, NEW offered \in SUBSET KeysOf(InWork),
         NEW added \in SUBSET KeysOf(InWork), NEW n
  PROVE  One!AcceptedOf(PartOf(book), offered, added, n)
            <=> AcceptedOf(book, offered, added, n)
  <1>1. \A k \in KeysOf(InWork) : /\ One!Skips(PartOf(book), k, n) <=> Skips(book, k, n)
                                  /\ One!Adds(PartOf(book), k, n) <=> Adds(book, k, n)
    BY AnswersAreLocal
  <1>2. \A j, k \in KeysOf(InWork) : One!Matches(j, k) <=> Matches(j, k)
    BY AlikeInOneCluster DEF KeysOf
  <1> QED  BY <1>1, <1>2 DEF AcceptedOf, One!AcceptedOf

\* What a diagnosis may accept, and what it then records, depends on the part
\* of the store that is its cluster's, and changes no other (kubescout.go:68-72):
\* a diagnosis of the one cluster that keeps its promise keeps the promise that
\* DiagnoseCluster takes for a step.
THEOREM DiagnosisIsLocal ==
  ASSUME NEW book \in Book, NEW seen \in SUBSET KeysOf(InWork),
         NEW added \in SUBSET seen, NEW n \in Time
  PROVE  /\ One!Accepted(PartOf(book), seen, added, n) <=> Accepted(book, seen, added, n)
         /\ PartOf(Recorded(book, added, n)) = One!Recorded(PartOf(book), added, n)
         /\ \A k \in Key \ KeysOf(InWork) : Recorded(book, added, n)[k] = book[k]
  <1>1. KeysOf(InWork) \subseteq Key
    BY DEF KeysOf
  <1>2. PartOf(Recorded(book, added, n)) = One!Recorded(PartOf(book), added, n)
    BY <1>1 DEF PartOf, Recorded, One!Recorded
  <1>3. \A k \in Key \ KeysOf(InWork) : Recorded(book, added, n)[k] = book[k]
    BY DEF Recorded
  <1>4. One!Accepted(PartOf(book), seen, added, n) <=> Accepted(book, seen, added, n)
    <2> DEFINE addedMessages == added \ Event
    <2> DEFINE addedEvents == added \cap Event
    <2>1. /\ seen \ (Event \cap KeysOf(InWork)) = seen \ Event
          /\ added \ (Event \cap KeysOf(InWork)) = addedMessages
          /\ added \cap (Event \cap KeysOf(InWork)) = addedEvents
      OBVIOUS
    <2>2. One!OfferedEvents(seen, addedMessages) = OfferedEvents(seen, addedMessages)
      BY <1>1, StoreAssumption
      DEF OfferedEvents, One!OfferedEvents, PartOf, EntitiesInWork, KeysOf
    <2>3. /\ Recorded(book, addedMessages, n) \in Book
          /\ PartOf(Recorded(book, addedMessages, n))
                = One!Recorded(PartOf(book), addedMessages, n)
      BY <1>1, RecordedType DEF PartOf, Recorded, One!Recorded
    <2>4. One!AcceptedOf(PartOf(book), seen \ Event, addedMessages, n)
            <=> AcceptedOf(book, seen \ Event, addedMessages, n)
      BY AcceptedOfIsLocal
    <2>5. OfferedEvents(seen, addedMessages) \in SUBSET KeysOf(InWork)
      BY DEF OfferedEvents
    <2>6. One!AcceptedOf(One!Recorded(PartOf(book), addedMessages, n),
                         OfferedEvents(seen, addedMessages), addedEvents, n)
            <=> AcceptedOf(Recorded(book, addedMessages, n),
                           OfferedEvents(seen, addedMessages), addedEvents, n)
      BY <2>3, <2>5, AcceptedOfIsLocal
    <2> QED  BY <2>1, <2>2, <2>4, <2>6 DEF Accepted, One!Accepted
  <1> QED  BY <1>2, <1>3, <1>4

=============================================================================
