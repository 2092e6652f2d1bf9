---------------------------- MODULE MumuleProofs ----------------------------
(***************************************************************************)
(* Theorems about the thread pool, for any number of workers, any          *)
(* submission sizes and any bound on the number of items.                  *)
(***************************************************************************)
EXTENDS Mumule, FiniteSetTheorems, TLAPS

(***************************************************************************)
(* The calls the pool supports: no reset while it runs, and no submission  *)
(* while it runs unless there is a single worker.                          *)
(***************************************************************************)
SoundUse == ~LiveReset /\ (LiveSubmit => NumThreads = 1)

-----------------------------------------------------------------------------
(***************************************************************************)
(* The inductive invariant, in layers; each uses the ones before it.       *)
(***************************************************************************)

(* The mutex is held exactly by the thread that is inside a locked region. *)
MutexInv ==
  /\ \A w \in Workers : mutex = w <=> wpc[w] \in {"check", "block", "unlock"}
  /\ mutex = Dispatcher <=>
       cpc \in {"start_create", "sync_queued", "sync_processed", "sync_block",
                "sync_unlock", "aborted"}

(* Which threads exist, from where the dispatcher is. *)
ThreadInv ==
  /\ cpc \in {"start_create", "aborted"} => running = 1
  /\ cpc \in {"stop_bcast", "stop_join"} => running = 0
  /\ (running = 0 /\ cpc \notin {"stop_bcast", "stop_join"}) =>
       \A w \in Workers : wpc[w] = "none"
  /\ cpc = "start_create" => \A w \in Workers : w >= idx => wpc[w] = "none"
  /\ cpc = "stop_join" => \A w \in Workers : w < idx => wpc[w] = "none"

(* threads_running counts the workers between WorkerBegin and WorkerEnd. *)
Crew     == {w \in Workers : wpc[w] \notin {"none", "started", "exited"}}
CountInv == threads_running = Cardinality(Crew)

(* mule_reset runs on a pool that is not running. *)
Resetting == {"reset_queued", "reset_processing", "reset_processed",
              "reset_bcast"}
ResetInv ==
  /\ cpc \in Resetting => running = 0
  /\ (caller = "reset" /\ (InSync \/ cpc = "sync_unlock")) => running = 0

(* What a worker has read is still good enough when it acts on it. *)
LocalInv ==
  \A w \in Workers :
    /\ wpc[w] = "load_processing" => processing <= wq[w]
    /\ wpc[w] = "cas" => wp[w] < wq[w]
    /\ wpc[w] \in {"load_processing", "cas", "kernel", "bump"} =>
         wq[w] <= queued /\ (~LiveSubmit => wq[w] = queued)

(* Every number handed out belongs to one active or one finished item. *)
ItemInv ==
  /\ Clearing => queued = 0
  /\ cpc # "reset_processing" => processing <= queued
  /\ cpc # "reset_processed" =>
       \A i \in Nat : i \in 1..processing <=>
         i \in done \/ \E w \in Workers : Active(w) /\ Item(w) = i
  /\ \A w \in Workers : Active(w) => Item(w) \notin done
  /\ \A v, w \in Workers : Active(v) /\ Active(w) /\ Item(v) = Item(w) => v = w
  /\ IsFiniteSet(done) /\ processed = Cardinality(done)

(* What the dispatcher has seen in mule_sync. *)
SyncInv ==
  /\ cpc = "sync_processed" => cq = queued
  /\ cpc \in {"sync_unlock", "reset_queued"} => done = 1..queued

(* A worker that found the queue empty found it so for good. *)
FoundEmpty == {"lock", "check", "block", "waiting", "relock", "unlock",
               "exiting", "exited"}
DrainInv ==
  ~LiveSubmit =>
    /\ \A w \in Workers : wpc[w] \in FoundEmpty => processing = queued
    /\ (cpc = "stop_join" /\ idx > 0) => processing = queued

QueueInv == ResetInv /\ LocalInv /\ ItemInv /\ SyncInv /\ DrainInv

IInv == TypeOK /\ MutexInv /\ ThreadInv /\ CountInv /\ QueueInv

-----------------------------------------------------------------------------
USE DEF Free, Dispatcher, Workers

(* Facts about the constants that the steps below need. *)
LEMMA Constants ==
  /\ NumThreads \in Nat /\ NumThreads >= 1
  /\ Counts \subseteq Nat
  /\ Workers \subseteq Nat
  /\ \A w \in Workers : w < NumThreads /\ w # Free /\ w # Dispatcher
BY MumuleAssumption DEF MumuleAssumption, mumule_max_threads

(* One step of a worker keeps every variable in its type. *)
LEMMA WorkerType ==
  ASSUME TypeOK, NEW w \in Workers, WorkerStep(w) \/ WorkerTimeout(w)
  PROVE  TypeOK'
<1> USE Constants DEF TypeOK, WorkerPC, DispatcherPC, WGoto, counters, locals,
                      dvars
<1>1. CASE WorkerBegin(w) BY <1>1 DEF WorkerBegin
<1>2. CASE LoadQueued(w) BY <1>2 DEF LoadQueued
<1>3. CASE LoadProcessing(w) BY <1>3 DEF LoadProcessing
<1>4. CASE LockMutex(w) BY <1>4 DEF LockMutex
<1>5. CASE CheckRunning(w) BY <1>5 DEF CheckRunning
<1>6. CASE WorkerWait(w) BY <1>6 DEF WorkerWait
<1>7. CASE WorkerTimeout(w) BY <1>7 DEF WorkerTimeout
<1>8. CASE Relock(w) BY <1>8 DEF Relock
<1>9. CASE UnlockMutex(w) BY <1>9 DEF UnlockMutex
<1>10. CASE CasSucceeds(w) BY <1>10 DEF CasSucceeds, Item
<1>11. CASE CasFails(w) BY <1>11 DEF CasFails
<1>12. CASE RunKernel(w) BY <1>12 DEF RunKernel
<1>13. CASE BumpProcessed(w)
  <2>1. Item(w) \in Nat BY DEF Item
  <2>2. done' \in SUBSET Nat BY <1>13, <2>1 DEF BumpProcessed
  <2> QED BY <1>13, <2>2 DEF BumpProcessed
<1>14. CASE SignalComplete(w) BY <1>14 DEF SignalComplete, SignalDispatcher
<1>15. CASE WorkerEnd(w) BY <1>15 DEF WorkerEnd
<1> QED
  BY <1>1, <1>2, <1>3, <1>4, <1>5, <1>6, <1>7, <1>8, <1>9, <1>10, <1>11,
     <1>12, <1>13, <1>14, <1>15 DEF WorkerStep

(* So does one step of the dispatcher. *)
LEMMA DispatcherType ==
  ASSUME TypeOK, DispatcherStep \/ SyncTimeout \/ DispatcherCall
  PROVE  TypeOK'
<1> USE Constants DEF TypeOK, WorkerPC, DispatcherPC, CGoto, counters, locals
<1>1. CASE \E n \in Counts : Submit(n) BY <1>1 DEF Submit
<1>2. CASE SubmitBroadcast BY <1>2 DEF SubmitBroadcast, BroadcastWorkers
<1>3. CASE CallStart BY <1>3 DEF CallStart
<1>4. CASE StartLock BY <1>4 DEF StartLock
<1>5. CASE StartCreate BY <1>5 DEF StartCreate
<1>6. CASE StartAbort BY <1>6 DEF StartAbort
<1>7. CASE StartUnlock BY <1>7 DEF StartUnlock
<1>8. CASE CallSync BY <1>8 DEF CallSync
<1>9. CASE CallReset BY <1>9 DEF CallReset
<1>10. CASE SyncBroadcast BY <1>10 DEF SyncBroadcast, BroadcastWorkers
<1>11. CASE SyncLock BY <1>11 DEF SyncLock
<1>12. CASE SyncLoadQueued BY <1>12 DEF SyncLoadQueued
<1>13. CASE SyncLoadProcessed BY <1>13 DEF SyncLoadProcessed
<1>14. CASE SyncWait BY <1>14 DEF SyncWait
<1>15. CASE SyncTimeout BY <1>15 DEF SyncTimeout
<1>16. CASE SyncUnlock BY <1>16 DEF SyncUnlock
<1>17. CASE ResetQueued BY <1>17 DEF ResetQueued
<1>18. CASE ResetProcessing BY <1>18 DEF ResetProcessing
<1>19. CASE ResetProcessed BY <1>19 DEF ResetProcessed
<1>20. CASE ResetBroadcast BY <1>20 DEF ResetBroadcast, BroadcastWorkers
<1>21. CASE CallStop BY <1>21 DEF CallStop
<1>22. CASE CallDestroy BY <1>22 DEF CallDestroy
<1>23. CASE StopLock BY <1>23 DEF StopLock, StopReturn
<1>24. CASE StopBroadcast BY <1>24 DEF StopBroadcast, BroadcastWorkers
<1>25. CASE StopJoin BY <1>25 DEF StopJoin, WGoto
<1>26. CASE StopDone BY <1>26 DEF StopDone, StopReturn
<1> QED
  BY <1>1, <1>2, <1>3, <1>4, <1>5, <1>6, <1>7, <1>8, <1>9, <1>10, <1>11,
     <1>12, <1>13, <1>14, <1>15, <1>16, <1>17, <1>18, <1>19, <1>20, <1>21,
     <1>22, <1>23, <1>24, <1>25, <1>26 DEF DispatcherStep, DispatcherCall

(***************************************************************************)
(* Type correctness, whatever the calling discipline.                      *)
(***************************************************************************)
THEOREM TypeCorrect == Spec => []TypeOK
<1>1. Init => TypeOK
  BY Constants DEF Init, TypeOK, WorkerPC, DispatcherPC
<1>2. TypeOK /\ [Next]_vars => TypeOK'
  <2> SUFFICES ASSUME TypeOK, [Next]_vars PROVE TypeOK'
    OBVIOUS
  <2>1. CASE Terminated \/ UNCHANGED vars
    BY <2>1 DEF TypeOK, Terminated, vars
  <2> QED
    BY <2>1, WorkerType, DispatcherType DEF Next
<1> QED
  BY <1>1, <1>2, PTL DEF Spec

-----------------------------------------------------------------------------
(***************************************************************************)
(* The mutex excludes, and the dispatcher knows which threads exist.       *)
(***************************************************************************)
LEMMA WorkerControl ==
  ASSUME TypeOK, MutexInv, ThreadInv, NEW w \in Workers,
         WorkerStep(w) \/ WorkerTimeout(w)
  PROVE  MutexInv' /\ ThreadInv'
<1> USE Constants DEF TypeOK, MutexInv, ThreadInv, WorkerPC, DispatcherPC, WGoto,
                      counters, locals, dvars
<1>1. CASE LockMutex(w) BY <1>1 DEF LockMutex
<1>2. CASE CheckRunning(w) BY <1>2 DEF CheckRunning
<1>3. CASE WorkerWait(w) BY <1>3 DEF WorkerWait
<1>4. CASE Relock(w) BY <1>4 DEF Relock
<1>5. CASE UnlockMutex(w) BY <1>5 DEF UnlockMutex
<1>6. CASE SignalComplete(w) BY <1>6 DEF SignalComplete, SignalDispatcher
<1>7. CASE WorkerBegin(w) BY <1>7 DEF WorkerBegin
<1>8. CASE LoadQueued(w) BY <1>8 DEF LoadQueued
<1>9. CASE LoadProcessing(w) BY <1>9 DEF LoadProcessing
<1>10. CASE WorkerTimeout(w) BY <1>10 DEF WorkerTimeout
<1>11. CASE CasSucceeds(w) BY <1>11 DEF CasSucceeds
<1>12. CASE CasFails(w) BY <1>12 DEF CasFails
<1>13. CASE RunKernel(w) BY <1>13 DEF RunKernel
<1>14. CASE BumpProcessed(w) BY <1>14 DEF BumpProcessed
<1>15. CASE WorkerEnd(w) BY <1>15 DEF WorkerEnd
<1> QED
  BY <1>1, <1>2, <1>3, <1>4, <1>5, <1>6, <1>7, <1>8, <1>9, <1>10, <1>11,
     <1>12, <1>13, <1>14, <1>15 DEF WorkerStep

LEMMA DispatcherControl ==
  ASSUME TypeOK, MutexInv, ThreadInv,
         DispatcherStep \/ SyncTimeout \/ DispatcherCall
  PROVE  MutexInv' /\ ThreadInv'
<1> USE Constants DEF TypeOK, MutexInv, ThreadInv, WorkerPC, DispatcherPC, CGoto,
                      counters, locals
<1>1. CASE \E n \in Counts : Submit(n) BY <1>1 DEF Submit
<1>2. CASE SubmitBroadcast BY <1>2 DEF SubmitBroadcast, BroadcastWorkers
<1>3. CASE CallStart BY <1>3 DEF CallStart
<1>4. CASE StartLock BY <1>4 DEF StartLock
<1>5. CASE StartCreate BY <1>5 DEF StartCreate
<1>6. CASE StartAbort BY <1>6 DEF StartAbort
<1>7. CASE StartUnlock BY <1>7 DEF StartUnlock
<1>8. CASE CallSync BY <1>8 DEF CallSync
<1>9. CASE CallReset BY <1>9 DEF CallReset
<1>10. CASE SyncBroadcast BY <1>10 DEF SyncBroadcast, BroadcastWorkers
<1>11. CASE SyncLock BY <1>11 DEF SyncLock
<1>12. CASE SyncLoadQueued BY <1>12 DEF SyncLoadQueued
<1>13. CASE SyncLoadProcessed BY <1>13 DEF SyncLoadProcessed
<1>14. CASE SyncWait BY <1>14 DEF SyncWait
<1>15. CASE SyncTimeout BY <1>15 DEF SyncTimeout
<1>16. CASE SyncUnlock BY <1>16 DEF SyncUnlock
<1>17. CASE ResetQueued BY <1>17 DEF ResetQueued
<1>18. CASE ResetProcessing BY <1>18 DEF ResetProcessing
<1>19. CASE ResetProcessed BY <1>19 DEF ResetProcessed
<1>20. CASE ResetBroadcast BY <1>20 DEF ResetBroadcast, BroadcastWorkers
<1>21. CASE CallStop BY <1>21 DEF CallStop
<1>22. CASE CallDestroy BY <1>22 DEF CallDestroy
<1>23. CASE StopLock BY <1>23 DEF StopLock, StopReturn
<1>24. CASE StopBroadcast BY <1>24 DEF StopBroadcast, BroadcastWorkers
<1>25. CASE StopJoin BY <1>25 DEF StopJoin, WGoto
<1>26. CASE StopDone BY <1>26 DEF StopDone, StopReturn
<1> QED
  BY <1>1, <1>2, <1>3, <1>4, <1>5, <1>6, <1>7, <1>8, <1>9, <1>10, <1>11,
     <1>12, <1>13, <1>14, <1>15, <1>16, <1>17, <1>18, <1>19, <1>20, <1>21,
     <1>22, <1>23, <1>24, <1>25, <1>26 DEF DispatcherStep, DispatcherCall

(* The control layer holds in every reachable state, for every use. *)
THEOREM ControlCorrect == Spec => [](MutexInv /\ ThreadInv)
<1>1. Init => MutexInv /\ ThreadInv
  BY Constants DEF Init, MutexInv, ThreadInv
<1>2. TypeOK /\ MutexInv /\ ThreadInv /\ [Next]_vars => MutexInv' /\ ThreadInv'
  <2> SUFFICES ASSUME TypeOK, MutexInv, ThreadInv, [Next]_vars
               PROVE  MutexInv' /\ ThreadInv'
    OBVIOUS
  <2>1. CASE Terminated \/ UNCHANGED vars
    BY <2>1 DEF MutexInv, ThreadInv, Terminated, vars
  <2> QED
    BY <2>1, WorkerControl, DispatcherControl DEF Next
<1> QED
  BY <1>1, <1>2, TypeCorrect, PTL DEF Spec

-----------------------------------------------------------------------------
(***************************************************************************)
(* threads_running.                                                        *)
(***************************************************************************)
LEMMA CrewFinite == IsFiniteSet(Crew)
<1>1. IsFiniteSet(0..(NumThreads - 1))
  BY Constants, FS_Interval
<1>2. Crew \subseteq 0..(NumThreads - 1)
  BY DEF Crew
<1> QED
  BY <1>1, <1>2, FS_Subset

(* The steps that neither begin nor end a worker leave the crew alone. *)
LEMMA CountStep ==
  ASSUME TypeOK, ThreadInv, CountInv, Next
  PROVE  CountInv'
<1> USE Constants DEF TypeOK, WorkerPC, CountInv
<1>1. ASSUME NEW w \in Workers, WorkerBegin(w) PROVE CountInv'
  <2>1. Crew' = Crew \union {w} /\ w \notin Crew
    BY <1>1 DEF WorkerBegin, WGoto, Crew
  <2> QED
    BY <1>1, <2>1, CrewFinite, FS_AddElement DEF WorkerBegin
<1>2. ASSUME NEW w \in Workers, WorkerEnd(w) PROVE CountInv'
  <2>1. Crew' = Crew \ {w} /\ w \in Crew
    BY <1>2 DEF WorkerEnd, WGoto, Crew
  <2> QED
    BY <1>2, <2>1, CrewFinite, FS_RemoveElement DEF WorkerEnd
<1>3. ASSUME NEW w \in Workers,
             \/ LoadQueued(w) \/ LoadProcessing(w) \/ LockMutex(w)
             \/ WorkerWait(w) \/ WorkerTimeout(w) \/ Relock(w)
             \/ UnlockMutex(w) \/ CasSucceeds(w) \/ CasFails(w)
             \/ RunKernel(w) \/ SignalComplete(w) \/ CheckRunning(w)
             \/ BumpProcessed(w)
      PROVE  CountInv'
  <2>1. /\ threads_running' = threads_running
        /\ w \in Crew
        /\ \E pc \in WorkerPC \ {"none", "started", "exited"} :
             wpc' = [wpc EXCEPT ![w] = pc]
    BY <1>3 DEF LoadQueued, LoadProcessing, LockMutex, CheckRunning, WorkerWait,
       WorkerTimeout, Relock, UnlockMutex, CasSucceeds, CasFails, RunKernel,
       BumpProcessed, SignalComplete, WGoto, Crew
  <2>2. Crew' = Crew
    BY <2>1 DEF Crew
  <2> QED
    BY <2>1, <2>2
<1>4. CASE SubmitBroadcast \/ SyncBroadcast \/ ResetBroadcast \/ StopBroadcast
  <2>1. /\ threads_running' = threads_running
        /\ BroadcastWorkers
    BY <1>4 DEF SubmitBroadcast, SyncBroadcast, ResetBroadcast, StopBroadcast
  <2>2. Crew' = Crew
    BY <2>1 DEF BroadcastWorkers, Crew
  <2> QED
    BY <2>1, <2>2
<1>5. CASE StartCreate
  <2>1. idx \in Workers /\ wpc[idx] = "none"
    BY <1>5 DEF StartCreate, ThreadInv
  <2>2. Crew' = Crew
    BY <1>5, <2>1 DEF StartCreate, Crew
  <2> QED
    BY <1>5, <2>2 DEF StartCreate
<1>6. CASE StopJoin
  <2>1. Crew' = Crew
    BY <1>6 DEF StopJoin, WGoto, Crew
  <2> QED
    BY <1>6, <2>1 DEF StopJoin
<1>7. CASE wpc' = wpc /\ threads_running' = threads_running
  BY <1>7 DEF Crew
<1>8. CASE \/ \E n \in Counts : Submit(n)
           \/ CallStart \/ StartLock \/ StartAbort \/ StartUnlock
           \/ CallSync \/ CallReset \/ SyncLock \/ SyncLoadQueued
           \/ SyncLoadProcessed \/ SyncWait \/ SyncTimeout \/ SyncUnlock
           \/ ResetQueued \/ ResetProcessing \/ ResetProcessed
           \/ CallStop \/ CallDestroy \/ StopLock \/ StopDone \/ Terminated
  <2>1. wpc' = wpc /\ threads_running' = threads_running
    BY <1>8 DEF Submit, CallStart, StartLock, StartAbort, StartUnlock, CallSync,
       CallReset, SyncLock, SyncLoadQueued, SyncLoadProcessed, SyncWait,
       SyncTimeout, SyncUnlock, ResetQueued, ResetProcessing, ResetProcessed,
       CallStop, CallDestroy, StopLock, StopDone, Terminated, vars
  <2> QED
    BY <2>1, <1>7
<1> QED
  BY <1>1, <1>2, <1>3, <1>4, <1>5, <1>6, <1>8
     DEF Next, WorkerStep, DispatcherStep, DispatcherCall

(***************************************************************************)
(* When a call has returned and the pool is not running, mule_stop has     *)
(* left no thread behind and threads_running is zero.                      *)
(***************************************************************************)
THEOREM NobodyLeft == Spec => []StopLeavesNobody
<1>1. Init => CountInv
  <2> SUFFICES ASSUME Init PROVE CountInv
    OBVIOUS
  <2>1. Crew = {}
    BY DEF Init, Crew
  <2> QED
    BY <2>1, FS_EmptySet DEF Init, CountInv
<1>2. TypeOK /\ ThreadInv /\ CountInv /\ [Next]_vars => CountInv'
  <2>1. UNCHANGED vars /\ CountInv => CountInv'
    BY DEF vars, CountInv, Crew
  <2> QED
    BY <2>1, CountStep
<1>3. ThreadInv /\ CountInv => StopLeavesNobody
  <2> SUFFICES ASSUME ThreadInv, CountInv, running = 0,
                      cpc \notin {"stop_bcast", "stop_join"}
               PROVE  threads_running = 0 /\ \A w \in Workers : wpc[w] = "none"
    BY DEF StopLeavesNobody
  <2>1. \A w \in Workers : wpc[w] = "none"
    BY DEF ThreadInv
  <2>2. Crew = {}
    BY <2>1 DEF Crew
  <2> QED
    BY <2>1, <2>2, FS_EmptySet DEF CountInv
<1> QED
  BY <1>1, <1>2, <1>3, TypeCorrect, ControlCorrect, PTL DEF Spec

-----------------------------------------------------------------------------
(***************************************************************************)
(* The items.                                                              *)
(***************************************************************************)

(* No worker exists while mule_reset stores the counters. *)
LEMMA NoWorkerInReset ==
  ASSUME TypeOK, ThreadInv, ResetInv, NEW w \in Workers, wpc[w] # "none"
  PROVE  cpc \notin Resetting
BY DEF ThreadInv, ResetInv, Resetting

(* A step that counts and claims nothing leaves the items alone. *)
LEMMA QuietItems ==
  ASSUME ItemInv, UNCHANGED <<queued, processing, processed, done>>,
         \A v \in Workers : Active(v)' <=> Active(v),
         \A v \in Workers : Active(v) => wp'[v] = wp[v],
         ~Clearing, ~Clearing'
  PROVE  ItemInv'
BY DEF ItemInv, Item, Clearing

LEMMA WorkerQueue ==
  ASSUME SoundUse, TypeOK, ThreadInv, QueueInv, NEW w \in Workers,
         WorkerStep(w) \/ WorkerTimeout(w)
  PROVE  QueueInv'
<1> USE Constants DEF TypeOK, WorkerPC, QueueInv, counters, locals, dvars
<1> DEFINE Quiet == \/ WorkerBegin(w) \/ LoadQueued(w) \/ LoadProcessing(w)
                    \/ LockMutex(w) \/ CheckRunning(w) \/ WorkerWait(w)
                    \/ WorkerTimeout(w) \/ Relock(w) \/ UnlockMutex(w)
                    \/ CasFails(w) \/ RunKernel(w) \/ SignalComplete(w)
                    \/ WorkerEnd(w)
<1>1. wpc[w] # "none"
  BY DEF WorkerStep, WorkerBegin, LoadQueued, LoadProcessing, LockMutex,
     CheckRunning, WorkerWait, WorkerTimeout, Relock, UnlockMutex, CasSucceeds,
     CasFails, RunKernel, BumpProcessed, SignalComplete, WorkerEnd, WGoto
<1>2. cpc \notin Resetting
  BY <1>1, NoWorkerInReset
<1>3. CASE Quiet
  <2> USE <1>3 DEF WorkerBegin, LoadQueued, LoadProcessing, LockMutex,
      CheckRunning, WorkerWait, WorkerTimeout, Relock, UnlockMutex, CasFails,
      RunKernel, SignalComplete, SignalDispatcher, WorkerEnd, WGoto
  <2>1. /\ UNCHANGED <<queued, processing, processed, done, running, caller, cq,
                       idx>>
        /\ cpc' = cpc \/ (cpc = "sync_wait" /\ cpc' = "sync_relock")
    OBVIOUS
  <2>2. /\ \A v \in Workers : Active(v)' <=> Active(v)
        /\ \A v \in Workers : Active(v) => wp'[v] = wp[v]
    BY DEF Active
  <2>3. ItemInv'
    BY <1>2, <2>1, <2>2, QuietItems DEF Resetting, Clearing
  <2>4. LocalInv'
    <3>1. processing <= queued
      BY <1>2 DEF ItemInv, Resetting
    <3>2. CASE LoadQueued(w)
      BY <3>1, <3>2 DEF LocalInv
    <3>3. CASE LoadProcessing(w)
      BY <3>3 DEF LocalInv
    <3>4. CASE ~LoadQueued(w) /\ ~LoadProcessing(w)
      <4>1. wq' = wq /\ wp' = wp
        BY <3>4
      <4>2. \A v \in Workers :
              /\ wpc'[v] \in {"load_processing", "cas"} => wpc'[v] = wpc[v]
              /\ wpc'[v] \in {"kernel", "bump"} => wpc[v] \in {"kernel", "bump"}
        BY <3>4
      <4> QED
        BY <2>1, <4>1, <4>2 DEF LocalInv
    <3> QED
      BY <3>2, <3>3, <3>4
  <2>5. DrainInv'
    BY DEF DrainInv, LocalInv, FoundEmpty
  <2>6. ResetInv' /\ SyncInv'
    BY <2>1 DEF ResetInv, SyncInv, InSync, Resetting
  <2> QED BY <2>3, <2>4, <2>5, <2>6
<1>4. CASE CasSucceeds(w)
  <2> USE <1>4 DEF CasSucceeds, WGoto
  <2>1. /\ processing' = processing + 1 /\ Item(w) = processing + 1
        /\ UNCHANGED <<queued, processed, done, wp, wq, running, cpc, caller, cq,
                       idx>>
    BY DEF Item
  <2>2. /\ \A v \in Workers : Active(v)' <=> Active(v) \/ v = w
        /\ ~Active(w)
    BY DEF Active
  <2>3. processing < queued
    BY DEF LocalInv
  <2>4. Item(w) \notin done /\ \A v \in Workers : Active(v) => Item(v) # Item(w)
    BY <1>2, <2>1 DEF ItemInv, Resetting, Item
  <2>5. ItemInv'
    <3>1. processing' <= queued'
      BY <2>1, <2>3
    <3>2. ASSUME NEW i \in Nat
          PROVE  i \in 1..processing' <=>
                   i \in done' \/ \E v \in Workers : Active(v)' /\ Item(v)' = i
      <4>1. i \in 1..processing' <=> i \in 1..processing \/ i = Item(w)
        BY <2>1
      <4>2. (\E v \in Workers : Active(v)' /\ Item(v)' = i) <=>
              (\E v \in Workers : Active(v) /\ Item(v) = i) \/ Item(w) = i
        BY <2>1, <2>2 DEF Item
      <4>3. i \in 1..processing <=>
              i \in done \/ \E v \in Workers : Active(v) /\ Item(v) = i
        BY <1>2 DEF ItemInv, Resetting
      <4> QED
        BY <2>1, <4>1, <4>2, <4>3
    <3> QED
      BY <1>2, <2>1, <2>2, <2>4, <3>1, <3>2
         DEF ItemInv, Clearing, Resetting, Item
  <2>6. LocalInv'
    BY <2>1 DEF LocalInv, SoundUse
  <2>7. DrainInv'
    BY <2>1, <2>3 DEF DrainInv, FoundEmpty
  <2>8. ResetInv' /\ SyncInv'
    BY <2>1 DEF ResetInv, SyncInv, InSync, Resetting
  <2> QED BY <2>5, <2>6, <2>7, <2>8
<1>5. CASE BumpProcessed(w)
  <2> USE <1>5 DEF BumpProcessed, WGoto
  <2>1. /\ done' = done \union {Item(w)}
        /\ UNCHANGED <<queued, processing, wp, wq, running, cpc, caller, cq, idx>>
    OBVIOUS
  <2>2. /\ \A v \in Workers : Active(v)' <=> Active(v) /\ v # w
        /\ Active(w)
    BY DEF Active
  <2>3. Item(w) \notin done /\ IsFiniteSet(done)
    BY <2>2 DEF ItemInv
  <2>4. IsFiniteSet(done') /\ processed' = Cardinality(done')
    BY <2>1, <2>3, FS_AddElement DEF ItemInv
  <2>5. ItemInv'
    <3>1. ASSUME NEW i \in Nat, cpc # "reset_processed"
          PROVE  i \in 1..processing' <=>
                   i \in done' \/ \E v \in Workers : Active(v)' /\ Item(v)' = i
      BY <2>1, <2>2, <3>1 DEF ItemInv, Item
    <3> QED
      BY <2>1, <2>2, <2>3, <2>4, <3>1 DEF ItemInv, Clearing, Item
  <2>6. LocalInv'
    BY <2>1 DEF LocalInv
  <2>7. DrainInv'
    BY <2>1 DEF DrainInv, FoundEmpty
  <2>8. Item(w) \in 1..queued
    <3>1. Item(w) \in Nat
      BY DEF Item
    <3>2. Item(w) \in 1..processing /\ processing <= queued
      BY <1>2, <2>2, <3>1 DEF ItemInv, Resetting
    <3> QED
      BY <3>2
  <2>9. ResetInv' /\ SyncInv'
    BY <2>1, <2>3, <2>8 DEF ResetInv, SyncInv, InSync, Resetting
  <2> QED BY <2>5, <2>6, <2>7, <2>9
<1> QED
  BY <1>3, <1>4, <1>5 DEF WorkerStep

(***************************************************************************)
(* Enough finished items means all of them: the comparison at the end of   *)
(* mule_sync.                                                              *)
(***************************************************************************)
LEMMA AllDone ==
  ASSUME TypeOK, ItemInv, ~Clearing, processed >= queued
  PROVE  done = 1..queued
<1> USE DEF TypeOK
<1>1. done \subseteq 1..queued
  BY DEF ItemInv, Clearing
<1>2. IsFiniteSet(1..queued) /\ Cardinality(1..queued) = queued
  <2>1. IsFiniteSet(1..queued)
        /\ Cardinality(1..queued) = IF 1 > queued THEN 0 ELSE queued - 1 + 1
    BY FS_Interval, 1 \in Int, queued \in Int
  <2> QED BY <2>1
<1>3. /\ Cardinality(done) <= Cardinality(1..queued)
      /\ Cardinality(1..queued) = Cardinality(done) => 1..queued = done
  BY <1>1, <1>2, FS_Subset
<1>4. Cardinality(done) = processed
  BY DEF ItemInv
<1> QED
  BY <1>2, <1>3, <1>4

LEMMA DispatcherQueue ==
  ASSUME SoundUse, TypeOK, ThreadInv, QueueInv,
         DispatcherStep \/ SyncTimeout \/ DispatcherCall
  PROVE  QueueInv'
<1> USE Constants DEF TypeOK, WorkerPC, QueueInv, CGoto, counters, locals
<1> DEFINE Quiet == \/ SubmitBroadcast \/ CallStart \/ StartLock \/ StartCreate
                    \/ StartAbort \/ StartUnlock \/ CallSync \/ CallReset
                    \/ SyncBroadcast \/ SyncLock \/ SyncLoadQueued
                    \/ SyncLoadProcessed \/ SyncWait \/ SyncTimeout
                    \/ SyncUnlock \/ ResetBroadcast \/ CallStop \/ CallDestroy
                    \/ StopLock \/ StopBroadcast \/ StopJoin \/ StopDone
<1>1. CASE Quiet
  <2> USE <1>1 DEF SubmitBroadcast, CallStart, StartLock, StartCreate,
      StartAbort, StartUnlock, CallSync, CallReset, SyncBroadcast, SyncLock,
      SyncLoadQueued, SyncLoadProcessed, SyncWait, SyncTimeout, SyncUnlock,
      ResetBroadcast, CallStop, CallDestroy, StopLock, StopReturn,
      StopBroadcast, StopJoin, StopDone, BroadcastWorkers, WGoto
  <2>1. UNCHANGED <<queued, processing, processed, done, wq, wp>>
    OBVIOUS
  <2>2. ~Clearing /\ ~Clearing'
    BY DEF Clearing
  <2>3. \A v \in Workers :
          \/ wpc'[v] = wpc[v]
          \/ wpc[v] = "waiting" /\ wpc'[v] = "relock"
          \/ wpc[v] = "none" /\ wpc'[v] = "started"
          \/ wpc[v] = "exited" /\ wpc'[v] = "none"
    <3>1. CASE StartCreate
      BY <3>1 DEF ThreadInv
    <3>2. CASE StopJoin
      BY <3>2
    <3>3. CASE ~StartCreate /\ ~StopJoin
      <4>1. wpc' = wpc \/ BroadcastWorkers
        BY <3>3
      <4> QED BY <4>1
    <3> QED BY <3>1, <3>2, <3>3
  <2>4. ItemInv'
    BY <2>1, <2>2, <2>3, QuietItems DEF Active
  <2>5. LocalInv'
    BY <2>1, <2>3 DEF LocalInv
  <2>6. DrainInv'
    BY <2>1, <2>3 DEF DrainInv, FoundEmpty
  <2>7. ResetInv'
    BY DEF ResetInv, SoundUse, Resetting, InSync
  <2>8. SyncInv'
    BY <2>1, <2>2, AllDone DEF SyncInv
  <2> QED BY <2>4, <2>5, <2>6, <2>7, <2>8
<1>2. ASSUME NEW n \in Counts, Submit(n) PROVE QueueInv'
  <2> USE <1>2 DEF Submit
  <2>1. ItemInv'
    BY DEF ItemInv, Clearing, Active, Item
  <2>2. LocalInv'
    BY DEF LocalInv, ThreadInv
  <2>3. DrainInv'
    BY DEF DrainInv, FoundEmpty, ThreadInv
  <2>4. ResetInv' /\ SyncInv'
    BY DEF ResetInv, SyncInv, Resetting, InSync
  <2> QED BY <2>1, <2>2, <2>3, <2>4
<1>3. CASE ResetQueued \/ ResetProcessing \/ ResetProcessed
  <2> USE <1>3 DEF ResetQueued, ResetProcessing, ResetProcessed
  <2>1. \A v \in Workers : wpc[v] = "none" /\ wpc'[v] = "none"
    BY DEF ThreadInv, ResetInv, Resetting
  <2>2. ItemInv'
    <3>1. \A v \in Workers : ~Active(v) /\ ~Active(v)'
      BY <2>1 DEF Active
    <3>2. CASE ResetQueued \/ ResetProcessing
      BY <3>1, <3>2 DEF ItemInv, Clearing, Item
    <3>3. CASE ResetProcessed
      BY <3>1, <3>3, FS_EmptySet DEF ItemInv, Clearing
    <3> QED BY <3>2, <3>3
  <2>3. LocalInv' /\ DrainInv'
    BY <2>1 DEF LocalInv, DrainInv, FoundEmpty
  <2>4. ResetInv' /\ SyncInv'
    BY DEF ResetInv, SyncInv, Resetting, InSync
  <2> QED BY <2>2, <2>3, <2>4
<1> QED
  BY <1>1, <1>2, <1>3 DEF DispatcherStep, DispatcherCall

(* The queue layer holds in every reachable state of a pool used soundly. *)
THEOREM QueueCorrect == ASSUME SoundUse PROVE Spec => []QueueInv
<1>1. Init => QueueInv
  <2> SUFFICES ASSUME Init PROVE QueueInv
    OBVIOUS
  <2>1. ItemInv
    BY FS_EmptySet DEF Init, ItemInv, Clearing, Active
  <2> QED
    BY <2>1 DEF Init, QueueInv, ResetInv, LocalInv, SyncInv, DrainInv, InSync,
       Resetting, FoundEmpty
<1>2. TypeOK /\ ThreadInv /\ QueueInv /\ [Next]_vars => QueueInv'
  <2> SUFFICES ASSUME TypeOK, ThreadInv, QueueInv, [Next]_vars PROVE QueueInv'
    OBVIOUS
  <2>1. CASE Terminated \/ UNCHANGED vars
    <3>1. UNCHANGED vars
      BY <2>1 DEF Terminated
    <3> QED
      BY <3>1 DEF vars, QueueInv, ResetInv, LocalInv, ItemInv, SyncInv, DrainInv,
         InSync, Clearing, Active, Item
  <2> QED
    BY <2>1, WorkerQueue, DispatcherQueue DEF Next
<1> QED
  BY <1>1, <1>2, TypeCorrect, ControlCorrect, PTL DEF Spec

(***************************************************************************)
(* The compare-and-swap hands out every submitted item at most once.       *)
(***************************************************************************)
THEOREM ItemsOnce == ASSUME SoundUse PROVE Spec => []EachItemOnce
<1>1. TypeOK /\ ThreadInv /\ QueueInv => EachItemOnce
  <2> SUFFICES ASSUME TypeOK, ThreadInv, QueueInv, NEW w \in Workers, Active(w)
               PROVE  /\ Item(w) \in (1..queued) \ done
                      /\ \A v \in Workers \ {w} : Active(v) => Item(v) # Item(w)
    BY DEF EachItemOnce
  <2>1. cpc \notin Resetting
    BY NoWorkerInReset DEF QueueInv, Active
  <2>2. Item(w) \in Nat
    BY DEF Item, TypeOK
  <2>3. Item(w) \in 1..processing /\ processing <= queued
    BY <2>1, <2>2 DEF QueueInv, ItemInv, Resetting
  <2> QED
    BY <2>3 DEF QueueInv, ItemInv, TypeOK
<1> QED
  BY <1>1, TypeCorrect, ControlCorrect, QueueCorrect, PTL

(***************************************************************************)
(* Comparing two counters is enough for mule_sync: when it returns,        *)
(* everything submitted has been run and no kernel call is in progress.    *)
(***************************************************************************)
THEOREM SyncSound == ASSUME SoundUse PROVE Spec => []SyncQuenches
<1>1. TypeOK /\ ThreadInv /\ QueueInv /\ EachItemOnce => SyncQuenches
  BY DEF QueueInv, SyncInv, EachItemOnce, SyncQuenches
<1> QED
  BY <1>1, TypeCorrect, ControlCorrect, QueueCorrect, ItemsOnce, PTL

(***************************************************************************)
(* Without submissions to a running pool, mule_stop drops no item.         *)
(***************************************************************************)
THEOREM StopSound == ASSUME SoundUse, ~LiveSubmit PROVE Spec => []StopDrains
<1>1. TypeOK /\ ThreadInv /\ QueueInv => StopDrains
  <2> SUFFICES ASSUME TypeOK, ThreadInv, QueueInv, cpc = "stop_join",
                      idx = NumThreads
               PROVE  done = 1..queued
    BY DEF StopDrains
  <2> USE Constants DEF TypeOK
  <2>1. processing = queued
    BY DEF QueueInv, DrainInv
  <2>2. \A w \in Workers : ~Active(w)
    BY DEF ThreadInv, Active
  <2>3. \A i \in Nat : i \in 1..queued <=> i \in done
    BY <2>1, <2>2 DEF QueueInv, ItemInv
  <2>4. done \subseteq 1..queued
    BY <2>3
  <2>5. 1..queued \subseteq done
    BY <2>3
  <2> QED
    BY <2>4, <2>5
<1> QED
  BY <1>1, TypeCorrect, ControlCorrect, QueueCorrect, PTL

(***************************************************************************)
(* Without submissions to a running pool, the dispatcher is signalled      *)
(* precisely when the last item has been processed.                        *)
(***************************************************************************)
THEOREM SignalSound ==
  ASSUME SoundUse, ~LiveSubmit PROVE Spec => LastItemSignals
<1> DEFINE Precise == \A w \in Workers :
             (wpc[w] = "bump" /\ wpc'[w] # "bump") =>
               (wpc'[w] = "signal" <=> processed' = queued)
<1>1. TypeOK /\ ThreadInv /\ QueueInv /\ [Next]_vars => [Precise]_vars
  <2> SUFFICES ASSUME TypeOK, ThreadInv, QueueInv, Next, NEW w \in Workers,
                      wpc[w] = "bump", wpc'[w] # "bump"
               PROVE  wpc'[w] = "signal" <=> processed' = queued
    OBVIOUS
  <2> USE Constants DEF TypeOK
  <2>1. BumpProcessed(w)
    <3>1. ASSUME NEW v \in Workers, WorkerStep(v) \/ WorkerTimeout(v)
          PROVE  BumpProcessed(w)
      BY <3>1 DEF WorkerStep, WorkerBegin, LoadQueued, LoadProcessing, LockMutex,
         CheckRunning, WorkerWait, WorkerTimeout, Relock, UnlockMutex,
         CasSucceeds, CasFails, RunKernel, BumpProcessed, SignalComplete,
         WorkerEnd, WGoto
    <3>2. ~(SubmitBroadcast \/ SyncBroadcast \/ ResetBroadcast \/ StopBroadcast)
      BY DEF SubmitBroadcast, SyncBroadcast, ResetBroadcast, StopBroadcast,
         BroadcastWorkers
    <3>3. ~StartCreate /\ ~StopJoin
      BY DEF StartCreate, StopJoin, ThreadInv, WGoto
    <3>4. ~(\/ \E n \in Counts : Submit(n)
            \/ CallStart \/ StartLock \/ StartAbort \/ StartUnlock
            \/ CallSync \/ CallReset \/ SyncLock \/ SyncLoadQueued
            \/ SyncLoadProcessed \/ SyncWait \/ SyncTimeout \/ SyncUnlock
            \/ ResetQueued \/ ResetProcessing \/ ResetProcessed
            \/ CallStop \/ CallDestroy \/ StopLock \/ StopDone \/ Terminated)
      BY DEF Submit, CallStart, StartLock, StartAbort, StartUnlock, CallSync,
         CallReset, SyncLock, SyncLoadQueued, SyncLoadProcessed, SyncWait,
         SyncTimeout, SyncUnlock, ResetQueued, ResetProcessing, ResetProcessed,
         CallStop, CallDestroy, StopLock, StopDone, Terminated, vars
    <3> QED
      BY <3>1, <3>2, <3>3, <3>4 DEF Next, DispatcherStep, DispatcherCall
  <2>2. wq[w] = queued
    BY DEF QueueInv, LocalInv
  <2> QED
    BY <2>1, <2>2 DEF BumpProcessed, WGoto
<1> QED
  BY <1>1, TypeCorrect, ControlCorrect, QueueCorrect, PTL
     DEF Spec, LastItemSignals

-----------------------------------------------------------------------------
(***************************************************************************)
(* The pool implements the abstract queue.                                 *)
(***************************************************************************)

(* A worker claims or finishes an item, or does nothing the client sees. *)
LEMMA WorkerRefines ==
  ASSUME TypeOK, ThreadInv, QueueInv, EachItemOnce, NEW w \in Workers,
         WorkerStep(w) \/ WorkerTimeout(w)
  PROVE  Queue!QNext \/ UNCHANGED Queue!qvars
<1> USE Constants DEF TypeOK, QueueInv, WGoto, counters, locals, dvars
<1>1. wpc[w] # "none"
  BY DEF WorkerStep, WorkerBegin, LoadQueued, LoadProcessing, LockMutex,
     CheckRunning, WorkerWait, WorkerTimeout, Relock, UnlockMutex, CasSucceeds,
     CasFails, RunKernel, BumpProcessed, SignalComplete, WorkerEnd
<1>2. cpc \notin Resetting
  BY <1>1, NoWorkerInReset
<1>3. CASE CasSucceeds(w)
  <2>1. processing < queued
    BY <1>3 DEF CasSucceeds, LocalInv
  <2>2. UNCHANGED <<cpc, queued, done>> /\ ~Clearing /\ ~Clearing'
    BY <1>2, <1>3 DEF CasSucceeds, Clearing, Resetting
  <2>3. Item(w) \in (1..queued) \ (1..processing)
    BY <1>3, <2>1 DEF CasSucceeds, Item
  <2>4. 1..processing' = (1..processing) \union {Item(w)}
    BY <1>3 DEF CasSucceeds, Item
  <2>5. Queue!QClaim
    BY <2>2, <2>3, <2>4 DEF Queue!QClaim, InSync
  <2> QED
    BY <2>5 DEF Queue!QNext
<1>4. CASE BumpProcessed(w)
  <2>1. UNCHANGED <<cpc, queued, processing>> /\ ~Clearing /\ ~Clearing'
    BY <1>2, <1>4 DEF BumpProcessed, Clearing, Resetting
  <2>2. Item(w) \in Nat /\ Active(w)
    BY <1>4 DEF BumpProcessed, Item, Active
  <2>3. Item(w) \in (1..processing) \ done
    BY <2>1, <2>2 DEF ItemInv, Clearing
  <2>4. done' = done \union {Item(w)}
    BY <1>4 DEF BumpProcessed
  <2>5. Queue!QFinish
    BY <2>1, <2>3, <2>4 DEF Queue!QFinish, InSync
  <2> QED
    BY <2>5 DEF Queue!QNext
<1>5. CASE ~CasSucceeds(w) /\ ~BumpProcessed(w)
  <2>1. /\ UNCHANGED <<queued, processing, done>>
        /\ cpc' = cpc \/ (cpc = "sync_wait" /\ cpc' = "sync_relock")
    BY <1>5 DEF WorkerStep, WorkerBegin, LoadQueued, LoadProcessing, LockMutex,
       CheckRunning, WorkerWait, WorkerTimeout, Relock, UnlockMutex, CasFails,
       RunKernel, SignalComplete, SignalDispatcher, WorkerEnd
  <2>2. UNCHANGED <<InSync, Clearing>>
    BY <2>1 DEF InSync, Clearing
  <2> QED
    BY <2>1, <2>2 DEF Queue!qvars
<1> QED
  BY <1>3, <1>4, <1>5

(* The dispatcher submits, syncs or clears, or does nothing visible. *)
LEMMA DispatcherRefines ==
  ASSUME TypeOK, ThreadInv, QueueInv,
         DispatcherStep \/ SyncTimeout \/ DispatcherCall
  PROVE  Queue!QNext \/ UNCHANGED Queue!qvars
<1> USE Constants DEF TypeOK, QueueInv, CGoto, counters, locals
<1>1. ASSUME NEW n \in Counts, Submit(n) PROVE Queue!QNext
  <2>1. Queue!QSubmit
    BY <1>1 DEF Submit, Queue!QSubmit, InSync, Clearing
  <2> QED BY <2>1 DEF Queue!QNext
<1>2. CASE CallSync \/ CallReset
  <2>1. Queue!QSync
    BY <1>2 DEF CallSync, CallReset, Queue!QSync, InSync, Clearing
  <2> QED BY <2>1 DEF Queue!QNext
<1>3. CASE SyncLoadProcessed /\ processed >= cq
  <2>1. ~Clearing /\ ~Clearing' /\ InSync /\ ~InSync'
    BY <1>3 DEF SyncLoadProcessed, InSync, Clearing
  <2>2. done = 1..queued
    BY <1>3, <2>1, AllDone DEF SyncLoadProcessed, SyncInv
  <2>3. Queue!QSyncReturn
    BY <1>3, <2>1, <2>2 DEF SyncLoadProcessed, Queue!QSyncReturn
  <2> QED BY <2>3 DEF Queue!QNext
<1>4. CASE ResetQueued
  <2>1. ~Clearing /\ Clearing' /\ ~InSync /\ ~InSync' /\ done = 1..queued
    BY <1>4 DEF ResetQueued, InSync, Clearing, SyncInv
  <2>2. Queue!QClear
    BY <1>4, <2>1 DEF ResetQueued, Queue!QClear, InSync
  <2> QED BY <2>2 DEF Queue!QNext
<1>5. CASE ResetProcessing
  BY <1>5 DEF ResetProcessing, Queue!qvars, InSync, Clearing
<1>6. CASE ResetProcessed
  <2>1. Clearing /\ ~Clearing' /\ ~InSync /\ ~InSync' /\ queued' = queued
    BY <1>6 DEF ResetProcessed, InSync, Clearing
  <2>2. done' = {} /\ 1..processing' = {}
    BY <1>6, <2>1 DEF ResetProcessed, ItemInv
  <2>3. InSync' = InSync
    BY <2>1 DEF InSync
  <2> QED
    BY <2>1, <2>2, <2>3 DEF Queue!qvars
<1>7. CASE \/ SubmitBroadcast \/ CallStart \/ StartLock \/ StartCreate
           \/ StartAbort \/ StartUnlock \/ SyncBroadcast \/ SyncLock
           \/ SyncLoadQueued \/ (SyncLoadProcessed /\ processed < cq)
           \/ SyncWait \/ SyncTimeout \/ SyncUnlock \/ ResetBroadcast
           \/ CallStop \/ CallDestroy \/ StopLock \/ StopBroadcast
           \/ StopJoin \/ StopDone
  <2> USE <1>7 DEF SubmitBroadcast, CallStart, StartLock, StartCreate,
      StartAbort, StartUnlock, SyncBroadcast, SyncLock, SyncLoadQueued,
      SyncLoadProcessed, SyncWait, SyncTimeout, SyncUnlock, ResetBroadcast,
      CallStop, CallDestroy, StopLock, StopReturn, StopBroadcast, StopJoin,
      StopDone
  <2>1. UNCHANGED <<queued, processing, done>>
    OBVIOUS
  <2>2. InSync' = InSync
    <3>1. InSync <=> InSync'
      BY DEF InSync
    <3> QED BY <3>1 DEF InSync
  <2>3. ~Clearing /\ ~Clearing'
    BY DEF Clearing
  <2> QED
    BY <2>1, <2>2, <2>3 DEF Queue!qvars
<1> QED
  BY <1>1, <1>2, <1>3, <1>4, <1>5, <1>6, <1>7
     DEF DispatcherStep, DispatcherCall, SyncLoadProcessed

(***************************************************************************)
(* Used soundly, the pool is a WorkQueue: three counters, a mutex and two  *)
(* condition variables give the client exactly-once items and a sync that  *)
(* waits for all of them.                                                  *)
(***************************************************************************)
THEOREM Refinement == ASSUME SoundUse PROVE Spec => ImplementsWorkQueue
<1>1. Init => Queue!QInit
  BY DEF Init, Queue!QInit, Clearing, InSync
<1>2. TypeOK /\ ThreadInv /\ QueueInv /\ EachItemOnce /\ [Next]_vars
        => [Queue!QNext]_(Queue!qvars)
  <2> SUFFICES ASSUME TypeOK, ThreadInv, QueueInv, EachItemOnce, [Next]_vars
               PROVE  Queue!QNext \/ UNCHANGED Queue!qvars
    OBVIOUS
  <2>1. CASE Terminated \/ UNCHANGED vars
    <3>1. UNCHANGED vars
      BY <2>1 DEF Terminated
    <3> QED
      BY <3>1 DEF vars, Queue!qvars, InSync, Clearing
  <2> QED
    BY <2>1, WorkerRefines, DispatcherRefines DEF Next
<1> QED
  BY <1>1, <1>2, TypeCorrect, ControlCorrect, QueueCorrect, ItemsOnce, PTL
     DEF Spec, ImplementsWorkQueue, Queue!QSpec
=============================================================================
