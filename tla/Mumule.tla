------------------------------- MODULE Mumule -------------------------------
(***************************************************************************)
(* The thread pool of src/src/mumule.h: NumThreads workers (mule_thread)   *)
(* and the one dispatching thread that calls mule_submit, mule_start,      *)
(* mule_sync, mule_reset, mule_stop and mule_destroy.                      *)
(*                                                                         *)
(* One step is one access to shared memory: an atomic load, store,         *)
(* compare-and-swap or fetch-and-add, or one call on the mutex or on a     *)
(* condition variable.  The mutex and the two condition variables are the  *)
(* platform's (POSIX semantics): a waiter releases the mutex and blocks in *)
(* one step, may be woken by a signal, by its timeout or for no reason,    *)
(* and then has to get the mutex back.  Fences add nothing to              *)
(* interleavings of atomic accesses and have no counterpart here.          *)
(***************************************************************************)
EXTENDS Integers, FiniteSets

CONSTANTS
  NumThreads,   \* mule->num_threads
  Counts,       \* the values of count that mule_submit is called with
  MaxItems,     \* bound on queued; stands for the range of size_t
  LiveSubmit,   \* the dispatcher also submits while the pool is running
  LiveReset     \* the dispatcher also resets while the pool is running

mumule_max_threads == 8

(***************************************************************************)
(* mule_init does not compare num_threads with the size of the array       *)
(* threads[mumule_max_threads]: the bound is the caller's obligation.      *)
(***************************************************************************)
ASSUME MumuleAssumption ==
  /\ NumThreads \in 1..mumule_max_threads
  /\ Counts \subseteq Nat
  /\ MaxItems \in Nat
  /\ LiveSubmit \in BOOLEAN
  /\ LiveReset \in BOOLEAN

Workers    == 0..(NumThreads - 1)
Dispatcher == NumThreads
Free       == -1

VARIABLES
  queued, processing, processed,  \* the three queue counters
  running, threads_running,
  mutex,      \* who holds mule->mutex
  wpc,        \* per worker: where it is in mule_thread
  wq, wp,     \* per worker: its locals queued and processing
  cpc,        \* where the dispatcher is
  caller,     \* which call mule_sync or mule_stop was made from
  cq,         \* the dispatcher's local queued
  idx,        \* the dispatcher's loop index over threads[]
  done        \* history: the items whose kernel call has been counted

counters == <<queued, processing, processed>>
locals   == <<wq, wp>>
dvars    == <<cpc, caller, cq, idx>>
vars     == <<queued, processing, processed, running, threads_running, mutex,
              wpc, wq, wp, cpc, caller, cq, idx, done>>

WorkerPC ==
  {"none", "started", "load_queued", "load_processing", "lock", "check",
   "block", "waiting", "relock", "unlock", "cas", "kernel", "bump", "signal",
   "exiting", "exited"}

DispatcherPC ==
  {"idle", "submit_bcast", "start_lock", "start_create", "sync_bcast",
   "sync_lock", "sync_queued", "sync_processed", "sync_block", "sync_wait",
   "sync_relock", "sync_unlock", "reset_queued", "reset_processing", "reset_processed",
   "reset_bcast", "stop_lock", "stop_bcast", "stop_join",
   "destroyed", "aborted"}

(* mule_init: the structure is zeroed, no thread exists, the mutex is free. *)
Init ==
  /\ queued = 0 /\ processing = 0 /\ processed = 0
  /\ running = 0 /\ threads_running = 0
  /\ mutex = Free
  /\ wpc = [w \in Workers |-> "none"]
  /\ wq = [w \in Workers |-> 0]
  /\ wp = [w \in Workers |-> 0]
  /\ cpc = "idle" /\ caller = "idle" /\ cq = 0 /\ idx = 0
  /\ done = {}

-----------------------------------------------------------------------------
(***************************************************************************)
(* The condition variables.                                                *)
(***************************************************************************)

(* cnd_broadcast(&mule->wake_worker) *)
BroadcastWorkers ==
  wpc' = [w \in Workers |-> IF wpc[w] = "waiting" THEN "relock" ELSE wpc[w]]

(* cnd_signal(&mule->wake_dispatcher) *)
SignalDispatcher ==
  cpc' = IF cpc = "sync_wait" THEN "sync_relock" ELSE cpc

-----------------------------------------------------------------------------
(***************************************************************************)
(* mule_thread, the worker.                                                *)
(***************************************************************************)

(* No thread moves once a failed assertion has ended the process. *)
WGoto(w, from, to) ==
  /\ cpc # "aborted"
  /\ wpc[w] = from
  /\ wpc' = [wpc EXCEPT ![w] = to]

(* The thread begins: threads_running is incremented. *)
WorkerBegin(w) ==
  /\ WGoto(w, "started", "load_queued")
  /\ threads_running' = threads_running + 1
  /\ UNCHANGED <<counters, running, mutex, locals, dvars, done>>

(* queued is loaded first ... *)
LoadQueued(w) ==
  /\ WGoto(w, "load_queued", "load_processing")
  /\ wq' = [wq EXCEPT ![w] = queued]
  /\ UNCHANGED <<counters, running, threads_running, mutex, wp, dvars, done>>

(* Mutant: a worker asked to stop no longer looks at the queue. *)
LoadProcessingUnlessStopped(w) ==
  /\ WGoto(w, "load_processing",
           IF processing = wq[w] \/ running = 0 THEN "lock" ELSE "cas")
  /\ wp' = [wp EXCEPT ![w] = processing]
  /\ UNCHANGED <<counters, running, threads_running, mutex, wq, dvars, done>>

(* ... then processing; the two are compared for equality, not order. *)
LoadProcessing(w) ==
  /\ WGoto(w, "load_processing", IF processing = wq[w] THEN "lock" ELSE "cas")
  /\ wp' = [wp EXCEPT ![w] = processing]
  /\ UNCHANGED <<counters, running, threads_running, mutex, wq, dvars, done>>

LockMutex(w) ==
  /\ WGoto(w, "lock", "check")
  /\ mutex = Free
  /\ mutex' = w
  /\ UNCHANGED <<counters, running, threads_running, locals, dvars, done>>

(* Holding the mutex: leave the loop when the pool is stopping. *)
CheckRunning(w) ==
  /\ WGoto(w, "check", IF running = 0 THEN "exiting" ELSE "block")
  /\ mutex' = IF running = 0 THEN Free ELSE w
  /\ UNCHANGED <<counters, running, threads_running, locals, dvars, done>>

(* cnd_timedwait releases the mutex and blocks in one step. *)
WorkerWait(w) ==
  /\ WGoto(w, "block", "waiting")
  /\ mutex' = Free
  /\ UNCHANGED <<counters, running, threads_running, locals, dvars, done>>

(* Mutant: cnd_wait, which has no deadline, in place of cnd_timedwait. *)
WorkerWaitsForSignal(w) == WGoto(w, "waiting", "waiting") /\ UNCHANGED vars

(* cnd_timedwait ends on its timeout, or spuriously. *)
WorkerTimeout(w) ==
  /\ WGoto(w, "waiting", "relock")
  /\ UNCHANGED <<counters, running, threads_running, mutex, locals, dvars, done>>

Relock(w) ==
  /\ WGoto(w, "relock", "unlock")
  /\ mutex = Free
  /\ mutex' = w
  /\ UNCHANGED <<counters, running, threads_running, locals, dvars, done>>

(* Mutant: a worker that was woken does not look at the counters again. *)
UnlockAndClaim(w) ==
  /\ WGoto(w, "unlock", "cas")
  /\ mutex' = Free
  /\ UNCHANGED <<counters, running, threads_running, locals, dvars, done>>

UnlockMutex(w) ==
  /\ WGoto(w, "unlock", "load_queued")
  /\ mutex' = Free
  /\ UNCHANGED <<counters, running, threads_running, locals, dvars, done>>

(* The item a worker claims, workitem_idx in the code. *)
Item(w) == wp[w] + 1

(* Mutant: processing is stored without the comparison. *)
StoreProcessing(w) ==
  /\ WGoto(w, "cas", "kernel")
  /\ processing' = Item(w)
  /\ UNCHANGED <<queued, processed, running, threads_running, mutex, locals,
                 dvars, done>>

CasSucceeds(w) ==
  /\ WGoto(w, "cas", "kernel")
  /\ processing = wp[w]
  /\ processing' = Item(w)
  /\ UNCHANGED <<queued, processed, running, threads_running, mutex, locals,
                 dvars, done>>

(* The exchange is the weak one: it may fail although the values agree. *)
CasFails(w) ==
  /\ WGoto(w, "cas", "load_queued")
  /\ UNCHANGED <<counters, running, threads_running, mutex, locals, dvars, done>>

RunKernel(w) ==
  /\ WGoto(w, "kernel", "bump")
  /\ UNCHANGED <<counters, running, threads_running, mutex, locals, dvars, done>>

(* Mutant: the comparison forgets that fetch-and-add returns the old value. *)
BumpProcessedOld(w) ==
  /\ WGoto(w, "bump", IF processed = wq[w] THEN "signal" ELSE "load_queued")
  /\ processed' = processed + 1
  /\ done' = done \union {Item(w)}
  /\ UNCHANGED <<queued, processing, running, threads_running, mutex, locals,
                 dvars>>

(* The worker compares the count with the queued it loaded at the top. *)
BumpProcessed(w) ==
  /\ WGoto(w, "bump", IF processed + 1 = wq[w] THEN "signal" ELSE "load_queued")
  /\ processed' = processed + 1
  /\ done' = done \union {Item(w)}
  /\ UNCHANGED <<queued, processing, running, threads_running, mutex, locals,
                 dvars>>

(* The signal is sent without holding the mutex. *)
SignalComplete(w) ==
  /\ WGoto(w, "signal", "load_queued")
  /\ SignalDispatcher
  /\ UNCHANGED <<counters, running, threads_running, mutex, locals, caller, cq,
                 idx, done>>

WorkerEnd(w) ==
  /\ WGoto(w, "exiting", "exited")
  /\ threads_running' = threads_running - 1
  /\ UNCHANGED <<counters, running, mutex, locals, dvars, done>>

WorkerStep(w) ==
  \/ WorkerBegin(w) \/ LoadQueued(w) \/ LoadProcessing(w) \/ LockMutex(w)
  \/ CheckRunning(w) \/ WorkerWait(w) \/ Relock(w) \/ UnlockMutex(w)
  \/ CasSucceeds(w) \/ CasFails(w) \/ RunKernel(w) \/ BumpProcessed(w)
  \/ SignalComplete(w) \/ WorkerEnd(w)

-----------------------------------------------------------------------------
(***************************************************************************)
(* The dispatcher.  A call begins in "idle"; the guards on running are the *)
(* calling discipline, chosen by LiveSubmit and LiveReset, not tests the   *)
(* code makes.                                                             *)
(***************************************************************************)
CGoto(from, to) == cpc = from /\ cpc' = to

(* mule_submit: fetch-and-add on queued, then a broadcast without mutex. *)
Submit(n) ==
  /\ LiveSubmit \/ running = 0
  /\ queued + n <= MaxItems
  /\ CGoto("idle", "submit_bcast")
  /\ queued' = queued + n
  /\ UNCHANGED <<processing, processed, running, threads_running, mutex, wpc,
                 locals, caller, cq, idx, done>>

SubmitBroadcast ==
  /\ CGoto("submit_bcast", "idle")
  /\ BroadcastWorkers
  /\ UNCHANGED <<counters, running, threads_running, mutex, locals, caller, cq,
                 idx, done>>

CallStart ==
  /\ CGoto("idle", "start_lock")
  /\ UNCHANGED <<counters, running, threads_running, mutex, wpc, locals, caller,
                 cq, idx, done>>

(* mule_start returns at once when the pool is already running. *)
StartLock ==
  /\ cpc = "start_lock"
  /\ mutex = Free
  /\ \/ /\ running # 0
        /\ cpc' = "idle"
        /\ UNCHANGED <<running, mutex, idx>>
     \/ /\ running = 0
        /\ running' = 1
        /\ mutex' = Dispatcher
        /\ idx' = 0
        /\ cpc' = "start_create"
  /\ UNCHANGED <<counters, threads_running, wpc, locals, caller, cq, done>>

(* Mutant: the loop runs one slot past num_threads. *)
StartCreateOneMore ==
  /\ cpc = "start_create"
  /\ idx <= NumThreads
  /\ wpc' = [w \in Workers |-> IF w = idx THEN "started" ELSE wpc[w]]
  /\ idx' = idx + 1
  /\ UNCHANGED <<counters, running, threads_running, mutex, locals, cpc, caller,
                 cq, done>>

(* thrd_create of threads[idx], with the mutex held. *)
StartCreate ==
  /\ cpc = "start_create"
  /\ idx < NumThreads
  /\ wpc' = [wpc EXCEPT ![idx] = "started"]
  /\ idx' = idx + 1
  /\ UNCHANGED <<counters, running, threads_running, mutex, locals, cpc, caller,
                 cq, done>>

(* thrd_create fails: the assertion ends the process. *)
StartAbort ==
  /\ idx < NumThreads
  /\ CGoto("start_create", "aborted")
  /\ UNCHANGED <<counters, running, threads_running, mutex, wpc, locals, caller,
                 cq, idx, done>>

StartUnlock ==
  /\ idx = NumThreads
  /\ CGoto("start_create", "idle")
  /\ mutex' = Free
  /\ UNCHANGED <<counters, running, threads_running, wpc, locals, caller, cq,
                 idx, done>>

(* A sync that nobody can end is the caller's mistake and left out. *)
MayQuench == running # 0 \/ processed >= queued

CallSync ==
  /\ MayQuench
  /\ CGoto("idle", "sync_bcast")
  /\ caller' = "idle"
  /\ UNCHANGED <<counters, running, threads_running, mutex, wpc, locals, cq, idx,
                 done>>

(* mule_reset begins with mule_sync. *)
CallReset ==
  /\ MayQuench
  /\ LiveReset \/ running = 0
  /\ CGoto("idle", "sync_bcast")
  /\ caller' = "reset"
  /\ UNCHANGED <<counters, running, threads_running, mutex, wpc, locals, cq, idx,
                 done>>

SyncBroadcast ==
  /\ CGoto("sync_bcast", "sync_lock")
  /\ BroadcastWorkers
  /\ UNCHANGED <<counters, running, threads_running, mutex, locals, caller, cq,
                 idx, done>>

(* mtx_lock before the loop, or inside cnd_timedwait after it was woken. *)
SyncLock ==
  /\ cpc \in {"sync_lock", "sync_relock"}
  /\ mutex = Free
  /\ mutex' = Dispatcher
  /\ cpc' = "sync_queued"
  /\ UNCHANGED <<counters, running, threads_running, wpc, locals, caller, cq,
                 idx, done>>

SyncLoadQueued ==
  /\ CGoto("sync_queued", "sync_processed")
  /\ cq' = queued
  /\ UNCHANGED <<counters, running, threads_running, mutex, wpc, locals, caller,
                 idx, done>>

(* Mutant: mule_sync compares the items handed out, not the finished ones. *)
SyncLoadProcessing ==
  /\ CGoto("sync_processed", IF processing < cq THEN "sync_block"
                                                ELSE "sync_unlock")
  /\ UNCHANGED <<counters, running, threads_running, mutex, wpc, locals, caller,
                 cq, idx, done>>

SyncLoadProcessed ==
  /\ CGoto("sync_processed", IF processed < cq THEN "sync_block"
                                               ELSE "sync_unlock")
  /\ UNCHANGED <<counters, running, threads_running, mutex, wpc, locals, caller,
                 cq, idx, done>>

(* A signal sent between the comparison and this step is lost. *)
SyncWait ==
  /\ CGoto("sync_block", "sync_wait")
  /\ mutex' = Free
  /\ UNCHANGED <<counters, running, threads_running, wpc, locals, caller, cq,
                 idx, done>>

(* Mutant: cnd_wait in place of cnd_timedwait. *)
SyncWaitsForSignal == CGoto("sync_wait", "sync_wait") /\ UNCHANGED vars

SyncTimeout ==
  /\ CGoto("sync_wait", "sync_relock")
  /\ UNCHANGED <<counters, running, threads_running, mutex, wpc, locals, caller,
                 cq, idx, done>>

(* mule_sync returns, to the application or to mule_reset. *)
SyncUnlock ==
  /\ CGoto("sync_unlock", IF caller = "reset" THEN "reset_queued" ELSE "idle")
  /\ mutex' = Free
  /\ UNCHANGED <<counters, running, threads_running, wpc, locals, caller, cq,
                 idx, done>>

(* Mutant: mule_reset leaves the submissions in place. *)
ResetKeepsQueued ==
  /\ CGoto("reset_queued", "reset_processing")
  /\ UNCHANGED <<counters, running, threads_running, mutex, wpc, locals, caller,
                 cq, idx, done>>

ResetQueued ==
  /\ CGoto("reset_queued", "reset_processing")
  /\ queued' = 0
  /\ UNCHANGED <<processing, processed, running, threads_running, mutex, wpc,
                 locals, caller, cq, idx, done>>

ResetProcessing ==
  /\ CGoto("reset_processing", "reset_processed")
  /\ processing' = 0
  /\ UNCHANGED <<queued, processed, running, threads_running, mutex, wpc, locals,
                 caller, cq, idx, done>>

(* The last store; from here on the items are numbered from 1 again. *)
ResetProcessed ==
  /\ CGoto("reset_processed", "reset_bcast")
  /\ processed' = 0
  /\ done' = {}
  /\ UNCHANGED <<queued, processing, running, threads_running, mutex, wpc,
                 locals, caller, cq, idx>>

ResetBroadcast ==
  /\ CGoto("reset_bcast", "idle")
  /\ BroadcastWorkers
  /\ UNCHANGED <<counters, running, threads_running, mutex, locals, caller, cq,
                 idx, done>>

CallStop ==
  /\ CGoto("idle", "stop_lock")
  /\ caller' = "idle"
  /\ UNCHANGED <<counters, running, threads_running, mutex, wpc, locals, cq, idx,
                 done>>

(* mule_destroy begins with mule_stop. *)
CallDestroy ==
  /\ CGoto("idle", "stop_lock")
  /\ caller' = "destroy"
  /\ UNCHANGED <<counters, running, threads_running, mutex, wpc, locals, cq, idx,
                 done>>

(* mule_stop returns, to the application or to mule_destroy. *)
StopReturn == cpc' = IF caller = "destroy" THEN "destroyed" ELSE "idle"

(* mule_stop clears running under the mutex and returns if it was clear. *)
StopLock ==
  /\ cpc = "stop_lock"
  /\ mutex = Free
  /\ \/ /\ running = 0
        /\ StopReturn
        /\ UNCHANGED running
     \/ /\ running # 0
        /\ running' = 0
        /\ cpc' = "stop_bcast"
  /\ UNCHANGED <<counters, threads_running, mutex, wpc, locals, caller, cq, idx,
                 done>>

(* Mutant: the workers asleep are not told that the pool stops. *)
StopSilently ==
  /\ CGoto("stop_bcast", "stop_join")
  /\ idx' = 0
  /\ UNCHANGED <<counters, running, threads_running, mutex, wpc, locals, caller,
                 cq, done>>

(* The broadcast follows the unlock. *)
StopBroadcast ==
  /\ CGoto("stop_bcast", "stop_join")
  /\ BroadcastWorkers
  /\ idx' = 0
  /\ UNCHANGED <<counters, running, threads_running, mutex, locals, caller, cq,
                 done>>

(* thrd_join of threads[idx] *)
StopJoin ==
  /\ cpc = "stop_join"
  /\ idx < NumThreads
  /\ WGoto(idx, "exited", "none")
  /\ idx' = idx + 1
  /\ UNCHANGED <<counters, running, threads_running, mutex, locals, cpc, caller,
                 cq, done>>

(* Mutant: mule_stop does not join every worker. *)
StopDoneEarly ==
  /\ cpc = "stop_join"
  /\ StopReturn
  /\ UNCHANGED <<counters, running, threads_running, mutex, wpc, locals, caller,
                 cq, idx, done>>

StopDone ==
  /\ cpc = "stop_join"
  /\ idx = NumThreads
  /\ StopReturn
  /\ UNCHANGED <<counters, running, threads_running, mutex, wpc, locals, caller,
                 cq, idx, done>>

(* The steps inside a call; they follow one another without the caller. *)
DispatcherStep ==
  \/ SubmitBroadcast
  \/ StartLock \/ StartCreate \/ StartAbort \/ StartUnlock
  \/ SyncBroadcast \/ SyncLock \/ SyncLoadQueued \/ SyncLoadProcessed
  \/ SyncWait \/ SyncUnlock
  \/ ResetQueued \/ ResetProcessing \/ ResetProcessed \/ ResetBroadcast
  \/ StopLock \/ StopBroadcast \/ StopJoin \/ StopDone

DispatcherCall ==
  \/ \E n \in Counts : Submit(n)
  \/ CallStart \/ CallSync \/ CallReset \/ CallStop \/ CallDestroy

-----------------------------------------------------------------------------
(* The pool is destroyed, or the process was ended by a failed assertion. *)
Terminated == cpc \in {"destroyed", "aborted"} /\ UNCHANGED vars

Next ==
  \/ \E w \in Workers : WorkerStep(w) \/ WorkerTimeout(w)
  \/ DispatcherStep
  \/ SyncTimeout
  \/ DispatcherCall
  \/ Terminated

Spec == Init /\ [][Next]_vars

(***************************************************************************)
(* Scheduling: every thread that can take a step takes one; a thread       *)
(* blocked on the mutex gets it if it is released again and again; a weak  *)
(* compare-and-swap does not fail for ever.  The dispatcher need not make  *)
(* another call.                                                           *)
(***************************************************************************)
Fairness ==
  /\ \A w \in Workers :
       /\ WF_vars(WorkerStep(w))
       /\ SF_vars(LockMutex(w) \/ Relock(w))
       /\ SF_vars(CasSucceeds(w))
  /\ WF_vars(DispatcherStep)
  /\ SF_vars(StartLock \/ SyncLock \/ StopLock)

(* The deadline passed to cnd_timedwait is finite, so every wait ends. *)
TimeoutFairness ==
  /\ \A w \in Workers : WF_vars(WorkerTimeout(w))
  /\ WF_vars(SyncTimeout)

SpecNoTimeout == Spec /\ Fairness
FairSpec      == SpecNoTimeout /\ TimeoutFairness

-----------------------------------------------------------------------------
(***************************************************************************)
(* Properties.                                                             *)
(***************************************************************************)
(* The variables hold the kinds of value that mumule.h gives them. *)
TypeOK ==
  /\ queued \in Nat /\ processing \in Nat /\ processed \in Nat
  /\ running \in {0, 1} /\ threads_running \in Int
  /\ mutex \in Workers \union {Dispatcher, Free}
  /\ wpc \in [Workers -> WorkerPC]
  /\ wq \in [Workers -> Nat] /\ wp \in [Workers -> Nat]
  /\ cpc \in DispatcherPC /\ caller \in {"idle", "reset", "destroy"}
  /\ cq \in Nat /\ idx \in 0..NumThreads
  /\ done \in SUBSET Nat

(* Worker w has claimed an item and has not counted it as processed yet. *)
Active(w) == wpc[w] \in {"kernel", "bump"}

(***************************************************************************)
(* The compare-and-swap hands out items that were submitted, that nobody   *)
(* has finished and that no other worker is running.                       *)
(***************************************************************************)
EachItemOnce ==
  \A w \in Workers :
    Active(w) =>
      /\ Item(w) \in (1..queued) \ done
      /\ \A v \in Workers \ {w} : Active(v) => Item(v) # Item(w)

(***************************************************************************)
(* When mule_sync leaves its loop, every item submitted so far has been    *)
(* run and no kernel call is in progress.                                  *)
(***************************************************************************)
SyncQuenches ==
  cpc = "sync_unlock" => done = 1..queued /\ \A w \in Workers : ~Active(w)

(***************************************************************************)
(* Outside mule_stop, a pool that is not running has no thread left: a     *)
(* second mule_start finds every slot of threads[] unused, and             *)
(* mule_destroy destroys a mutex nobody can touch any more.                *)
(***************************************************************************)
StopLeavesNobody ==
  (running = 0 /\ cpc \notin {"stop_bcast", "stop_join"}) =>
    threads_running = 0 /\ \A w \in Workers : wpc[w] = "none"

(***************************************************************************)
(* mule_stop drains the queue: a worker leaves only after it has found the *)
(* queue empty, so nothing that was queued before mule_start is dropped.   *)
(***************************************************************************)
StopDrains == (cpc = "stop_join" /\ idx = NumThreads) => done = 1..queued

(***************************************************************************)
(* The dispatcher is signalled by the worker that counts the last item,    *)
(* and by no other ("precisely when the last item is processed").          *)
(***************************************************************************)
LastItemSignals ==
  [][\A w \in Workers :
       (wpc[w] = "bump" /\ wpc'[w] # "bump") =>
         (wpc'[w] = "signal" <=> processed' = queued)]_vars

(* mule_sync returns, lost wakeups or not. *)
SyncReturns == cpc = "sync_bcast" ~> cpc = "sync_unlock"

(***************************************************************************)
(* While the pool runs, what has been submitted gets processed: a worker   *)
(* that missed the broadcast of mule_submit looks again after its timeout. *)
(***************************************************************************)
WorkIsDone ==
  (running = 1 /\ processed < queued) ~>
    (processed >= queued \/ running = 0 \/ cpc = "aborted")

(* mule_stop joins every worker and returns. *)
StopReturns == cpc = "stop_bcast" ~> cpc \in {"idle", "destroyed"}

(***************************************************************************)
(* The pool implements WorkQueue.  The first store of mule_reset is the    *)
(* moment the queue is cleared, the other two catch up with it; a sync     *)
(* returns when it finds the counters equal.                               *)
(***************************************************************************)
Clearing == cpc \in {"reset_processing", "reset_processed"}

InSync ==
  cpc \in {"sync_bcast", "sync_lock", "sync_queued", "sync_processed",
           "sync_block", "sync_wait", "sync_relock"}

Queue == INSTANCE WorkQueue WITH
  submitted <- queued,
  claimed   <- IF Clearing THEN {} ELSE 1..processing,
  finished  <- IF Clearing THEN {} ELSE done,
  syncing   <- InSync

(* Every step of the pool is a step of the abstract queue, or none. *)
ImplementsWorkQueue == Queue!QSpec
=============================================================================
