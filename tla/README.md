# A TLA+ verification of c11atomic

c11atomic is a C11 `<stdatomic.h>` and `<threads.h>` for MSVC and POSIX,
together with a thread pool (mumule), a clock (muclock) and small helpers. This
directory holds TLA+ models of its concurrent parts, the TLC configurations that
check them, and proofs checked by TLAPS. `PROJECT.json` lists the runs, the
source lines of every definition, the findings, the hazards and the theorems.

Run `tlc -config <run>.cfg <module>` for a run and `tlapm <module>.tla` for the
proofs in a module whose name ends in `Proofs`.

## 1. The system

| component | state | operations | meets the others by |
|---|---|---|---|
| mumule (`src/mumule.h`) | counters `queued`, `processing`, `processed`; `running`, `threads_running`; a mutex, two condition variables, `threads[8]` | `mule_init`, `_submit`, `_start`, `_sync`, `_reset`, `_stop`, `_destroy`; the worker `mule_thread` | atomics, mutex, condition variables, threads, clock |
| condition variable, Windows (`threads_win32.h`) | `blocked`, `gone`, `to_unblock`, two semaphores, a critical section | `cnd_wait`, `cnd_timedwait`, `cnd_signal`, `cnd_broadcast` | called by mumule |
| `call_once`, Windows | `status` | `call_once` | - |
| thread-specific storage, Windows | a table of destructors, the system's TLS indexes | `tss_create`, `_delete`, `_get`, `_set`, the walk at thread exit | called at the end of every thread |
| mutexes (Windows, POSIX) | the system's object | `mtx_init`, `mtx_lock`, `mtx_trylock`, `mtx_timedlock`, `mtx_unlock` | called by mumule; made through `call_once` |
| threads, Windows | a parameter block per start, a handle, an exit code | `thrd_create`, `thrd_exit`, `thrd_join`, `thrd_detach` | called by mumule; ends with the walk over the destructors |
| atomics for MSVC (`stdatomic.h`) | one object per call | load, store, exchange, compare_exchange, fetch_*, flag, fences | called by mumule |
| muclock | `muclock_inited`, `chosen_clock`, `base_freq` | `muclock_get_definitions`, `_get_default`, `_gettime_ns`, `_gettime_ts` | called by every worker and by `mule_sync` |
| mucpu, mulog | none | cpuid report, formatted log | - |

What is hard. The pool is almost lock-free: workers decide from two counters
loaded one after the other, submissions broadcast without the mutex, and the
completion signal is sent without it, so that wakeups can be lost and only the
timed waits recover. The Windows condition variable counts blocked, departed and
to-be-unblocked threads in three integers under two different locks, while
timeouts race with signals. `tss_create`, `muclock_get_default` and
`mule_reset` change shared data without any lock. Deadlines are made from a clock
without epoch by arithmetic that overflows, and each platform reads them
differently. The busy `mtx_timedlock` mixes absolute and relative time. The
parameter block of a new thread changes hands while both sides run. The fetch loops of
`stdatomic.h` rest on a compare-and-exchange that does not report what it found.

What makes each part correct:

- pool: every submitted item is run once; `mule_sync` returns only, and always,
  when everything is processed; `mule_stop` returns and leaves neither threads nor
  work behind; `mule_reset` clears the counters;
- condition variable: a signal wakes a thread that waits, one that comes later
  cannot take its wakeup, nothing is lost and nobody is stuck;
- `call_once`: once, and nobody returns before;
- thread-specific storage: one call of the right destructor per value;
- atomics: operations are atomic and the loops end;
- muclock and deadlines: all threads use one initialised clock, the fastest, and
  no timed wait is longer than its time-out;
- mutexes: one holder, initialised before use; a timed lock neither gives up
  early nor waits for ever;
- threads: the parameter block is there when it is read and freed once, and
  `thrd_join` returns the thread's code after its destructors have run.

## 2. Modules

| module | models | state and steps |
|---|---|---|
| `Mumule` | the pool | the counters and flags under their C names; `wpc`, `wq`, `wp`: a worker's position and its locals `queued` and `processing`; `cpc`, `cq`, `idx`, `caller`: the dispatching thread. One action per shared access. `done` is a history variable |
| `WorkQueue` | what the pool promises (abstract) | submitted, claimed and finished items, and whether a sync is under way |
| `CondWin32` | `impl_cond_do_wait`, `impl_cond_do_signal` | the fields of `cnd_t`, the caller's mutex, one position per thread. A region under the monitor is one step unless it blocks inside |
| `CondVar` | what a condition variable promises (abstract) | the waiting threads and the wakeups granted |
| `MCCondWin32` | - | the symmetry set of the runs of `CondWin32` |
| `CallOnce` | `call_once` | `status`, one position per thread |
| `Mutex` | one `mtx_t` and the clock `time(NULL)` reads | holder and depth; per thread the position in `mtx_timedlock`, `*ts` and `expire`; the platform is chosen in the initial state |
| `LazyMutex` | composes `CallOnce` and `Mutex` | `call_once` runs `mtx_init`; a thread that has returned from it uses the mutex |
| `StdAtomic` | `stdatomic.h` | one object, a value being the set of its bits; one step per interlocked instruction |
| `AtomicObject` | what an atomic object promises (abstract) | the value, the pending operations, the answers |
| `MuClock` | the choice of a clock | the three globals and the machine's cpuid, one step per access to a global |
| `MuTime` | tick, nanosecond, timespec and millisecond arithmetic | operators only |
| `Revalidate`, `MCRevalidate` | composes `MuClock` and `MuTime`: how mumule's threads make deadlines and wait for them | real time, and per thread the reading, the deadline and the end of its wait |
| `TssWin32` | thread-specific storage | the table of destructors, the TLS indexes, the values |
| `ThrdWin32` | composes the life of a thread with `TssWin32` | per thread its stage, parameter block, handle and exit code; the main thread's calls |
| `MumuleProofs`, `CondWin32Proofs`, `CallOnceProofs`, `LazyMutexProofs`, `StdAtomicProofs`, `MuClockProofs`, `RevalidateProofs`, `ThrdWin32Proofs` | - | the theorems of section 4 |

`Mumule` uses the platform's condition variable with POSIX semantics (a wait
releases the mutex and blocks in one step, and may end for no reason). `CondWin32`
looks inside the Windows one, and `CondVar` states what a user may rely on. The
constant `Kinds` says whether its signallers call `cnd_signal`, `cnd_broadcast` or
both. The finding about timed waits (`cond_hang`) is about users of the library who
call `cnd_signal` while several threads are in `cnd_timedwait`. The pool is not one
of them: `wake_worker`, which has several timed waiters, is only broadcast to
(`mumule.h` 242, 277, 329, 347), and `wake_dispatcher`, signalled at 228, has one
waiter; for both uses section 4 has a theorem. The interlocked
steps of `Mumule` are single steps because `StdAtomic` implements `AtomicObject`.

`Mumule` lets a timed wait end at any time; `Revalidate` says when it ends.
`TssWin32`, `CallOnce` and `MuClock` are checked inside the modules that compose
them.

Every operator named "Mutant" in a comment is a deliberate bug used to show that
a property can fail; none is part of a specification.

### Use of the pool

The guards on `running` in `Submit` and `CallReset` are the calling discipline,
not tests of the code: with `LiveSubmit = FALSE` and `LiveReset = FALSE` work is
submitted and counters are reset while the pool is stopped, as in
`test/test_mumule.c` and the example of the header. `LiveSubmit` and `LiveReset`
lift the restriction. `MayQuench` keeps out a `mule_sync` that nobody can end
because no worker runs. There is one dispatching thread.

## 3. Runs

| run | question | result |
|---|---|---|
| `pool` | two workers, batches of 1 and 2 items, at most 3 items between resets, any sequence of calls by the dispatcher | the safety properties hold; implements `WorkQueue`; `mule_stop` returns without help from a timeout |
| `stream_one` | one worker, submissions while it runs | items once, sync sound; because of the timeouts, sync returns and all work is done although wakeups are lost |
| `stream_two` | two workers, submissions while they run | **violated**: an item nobody submitted is claimed |
| `cond_wait` | untimed waits, two waiters and two signallers | a correct condition variable; every wakeup is taken and the gate opens again |
| `cond_timed_one` | one timed waiter (`wake_dispatcher`), the limit of `gone` reached at 3 | correct |
| `cond_hang` | three timed waiters, signals and broadcasts: C11 use of the library, which the pool does not make | **violated**: a drain never ends |
| `once` | three threads make a mutex by `call_once`, two use it, on three platforms | `mtx_init` runs once and before any use, no early return, all return; locks and answers agree; a timed lock is never early and always returns |
| `atomic` | all operations and arguments on 2 bits, or those of the flag | implements `AtomicObject`; the loops end |
| `atomic_narrow` | an unsigned argument narrower than the object | **violated**: it is negated before it is widened |
| `clock` | two threads race to initialise three clocks on five machines, then make deadlines and wait on POSIX, across the overflow | one clock, the fastest, initialised; deadlines exact; no wait longer than its time-out |
| `revalidate` | the same waits on Windows | **violated**: the absolute deadline is waited for as a relative one |
| `threads` | the main thread with two slots, two indexes and four key creations starts, joins or detaches a thread | each value destroyed once; the parameter block is handed over safely; `thrd_join` returns the code, after the destructors |

The findings in `PROJECT.json` quote what the header, the README or a comment
says against each violated run.

**Bounds and why they are enough.** `MaxItems` (2 or 3), `Counts` ({1, 2}) and
two workers allow an item in progress while another is claimed, a worker with
old locals, and a second batch; the theorems hold for every value. Two waiters
and two signallers let a broadcast, or two signals, overlap with a wait that
begins; with three timed waiters one can be unblocked, one time out and one be
left over (two are enough for a longer counterexample; with `Kinds = {TRUE}` TLC
finds none with three waiters and two signallers, nor will it, as proved).
`GoneLimit` (3) stands for INT_MAX/2 where the limit is to be reached, and is out
of reach (1000) where it is not; the counters of the condition variable need no
bound. `MaxCalls` (3) lets one thread's loop fail because of two operations of the
other; the object has two bits, so that carries and borrows occur.
`MaxCreates` (4) exceeds both the slots and the indexes; `MaxFails` (1) lets a
start fail and be tried again. One started thread is enough for `threads`: it
shares only the table and the indexes, which it reads, with the main thread.
Time in `Mutex` has two ticks to the second, so that `time(NULL)` drops a
fraction; it starts at second 1 and ends at `MaxSec` (4), and a call is left out
only if its `expire` would not be passed by then; `Deadlines` ({3, 5}) lie ahead
or, later, in the past. `MTypes` has a timed, a recursive timed and an invalid
type. In `Revalidate` a second has 4 nanoseconds and 2 milliseconds; 2^64 is
scaled to 40, so that the product of `muclock_gettime_ns` wraps between
`StartNow` (8) and `MaxNow` (14), and the time-outs {1, 3} carry into the
seconds. The machines (`MCCpuids`) reach every branch of `muclock_x86_init`. Symmetry (`cond_hang`)
permutes threads that the specification does not tell apart, in a run that checks
an invariant only.

`CHECK_DEADLOCK` is on everywhere. `Terminated`, `Quiet` and `Over` are the
states in which the program is over, or the bound on calls is used up.

**Fairness and why the code justifies it.**

- Weak fairness for the steps of a thread inside a call: the system schedules
  every runnable thread. Nothing says that a client makes another call.
- Strong fairness for taking a mutex, gate or monitor: a mutex that is released
  again and again is eventually given to a thread that waits for it.
- Strong fairness for `CasSucceeds`: a weak compare-and-swap does not fail
  spuriously for ever.
- Weak fairness for the passing of time (`LTick`), and for the end of a thread's
  function in `ThrdWin32` (`thrd_join` of a thread that never ends never returns).
- Weak fairness for the timeouts (`TimeoutFairness`): the deadline passed to
  `cnd_timedwait` is finite. `SpecNoTimeout` leaves it out. The fixme of
  `mumule.h:161` (an x86 TSC has no epoch) makes a POSIX wait end early, which the
  model allows at any time.

## 4. Proofs

`MumuleProofs` proves, for every `NumThreads` in 1..8, every set `Counts` and
every `MaxItems`, from `MumuleAssumption` alone:

- `TypeCorrect`, `ControlCorrect` and `NobodyLeft` (`StopLeavesNobody`) for every
  use of the pool;
- `QueueCorrect`, `ItemsOnce` (`EachItemOnce`), `SyncSound` (`SyncQuenches`) and
  `Refinement` (`ImplementsWorkQueue`) under `SoundUse`: no reset of a running
  pool, and submissions to a running pool only with one worker. The run
  `stream_two`, and TLC with `LiveReset = TRUE`, show that both conditions are
  needed;
- `StopSound` (`StopDrains`) and `SignalSound` (`LastItemSignals`) without
  submissions to a running pool.

The inductive invariant comes in layers. `MutexInv` and `ThreadInv` tie the
mutex and the existence of threads to the program counters. `CountInv` says that
`threads_running` is the number of workers between their first and last step
(`Crew`); it is needed because a count alone says nothing about who is left.
`QueueInv` adds: a worker's locals are never ahead of the counters and, in sound
use, its `queued` is current or it is the only worker (`LocalInv`); the items
1..`processing` are those done and those in progress, each in one hand
(`ItemInv`), whence `processed = Cardinality(done)`; what `mule_sync` has read
(`SyncInv`); the order of the three stores of a reset (`ResetInv`); and that a
worker leaves only when the queue was empty (`DrainInv`). The properties follow
from these without induction.

The refinement maps the first store of `mule_reset` to the moment the queue is
cleared; while the other two stores catch up, the claimed and finished items
are taken to be empty already.

`CallOnceProofs` proves `FuncRunsOnce` and `NoEarlyReturn` for any set of threads:
the status is 1 exactly while one thread is in `func` or about to publish, and 2
only after it has.

`CondWin32Proofs` is about the emulated condition variable, for any signallers and
any finite set of waiters smaller than `GoneLimit` (`CondAssumption`: fewer than
INT_MAX/2 threads; with more, `gone` could pass its limit during an unblocking
phase, where nobody compares it with the limit).

- `CondTypes` (`TypeOK`), with and without timeouts. Its invariant `CondInv` says
  who may have the gate (`GateInv`; hence the unlocked `blocked++` is as good as
  one step), that what a thread saw under the monitor still holds when it gets the
  gate (`MonitorInv`), and that `blocked - gone + to_unblock` does not exceed the
  threads that are enrolled (`CountInv`); without it nothing bounds `gone`.
- `SignalsFindWaiters` and `CondImplementsCondVar` (`ImplementsCondVar`) without
  timeouts. `ExactInv` turns the bound into equations: the enrolled threads are
  `blocked + to_unblock`, and `to_unblock` counts the tokens to be posted, the
  tokens posted and the threads that hold one. In the refinement `Register`
  begins the abstract wait, `SignalMore` and `CloseGate` grant, `TakeToken`
  wakes, and all other steps change nothing.
- `OneWaiterIsServed` (`DrainEnds`, `SignalFindsWaiters`) with timeouts and one
  waiter, as `wake_dispatcher` has. The equations hold there too because the
  thread that times out is the one the token was for, and it drains it itself.
- `BroadcastsServeAll` (the same two) with timeouts, any number of waiters and
  broadcasts only, as `wake_worker` has. A broadcast leaves nobody blocked, and
  nobody registers while the gate is closed, so a thread that times out in between
  cannot be taken for one that is still blocked: `BroadcastInv` says that the
  enrolled threads are then exactly `to_unblock`, and that `to_unblock + gone`, and
  later what the last thread has still to drain, are exactly the tokens under way.

The hypotheses are needed: with `cnd_signal` and two, or three, timed waiters TLC
refutes both `SignalFindsWaiters` and `DrainEnds` (section 5, `cond_hang`).

`LazyMutexProofs` proves, of the composition, `MutexAgrees` (`LocksAgree`),
`MutexTypes`, `InitialisedFirst` (`InitBeforeUse`), `NoTimeoutTooSoon`
(`NoEarlyTimeout`) and `LazyInitOnce`, for any threads, types of mutex, deadlines
and ticks per second. Besides the properties themselves the invariant needs that
nobody is back from `call_once` before `func` has ended (`InitInvariant`, from the
invariant of `CallOnce`, which every step of the composition preserves), that the
count is zero exactly when there is no holder, and that the `expire` of the busy
loop is not before the second of the deadline (`ExpireInvariant`). `MTypeOK` bounds
the other end: a loop that computed `expire` anew in each round would leave the
range that `TimedCall` lets in.

`StdAtomicProofs` proves that `StdAtomic` implements `AtomicObject` for any threads
and width: `LoopsAreAtomic` without arithmetic operations, and `AtomicIfExact`
with them provided `ArithmeticIsExact`, that is, provided that adding on bits is
addition modulo 2^Width and adding `Minus(a)` subtracts. That proviso is a fact
about finite binary arithmetic whose proof needs induction over the width. TLC
evaluates it to TRUE for equal widths of 1 to 4 bits and to FALSE for an
argument narrower than the object, which is the finding of `atomic_narrow`. The
invariant (`AtomicInv`) says that a thread is in the loop exactly with an
operation that loops, and that a flag only meets the operations of flags.

`MuClockProofs` proves `DefaultIsBest` (`ChosenIsBest`) and `DefaultForGood`
(`ChosenForGood`) for any threads, clocks and machines. Bits of `muclock_inited`
may get lost in the race; `ReadyInv` says why that does no harm: a thread that is
past clock-x86 has run its `init()`, or saw a bit stored after somebody's. Then
frequencies are compared rightly (`CompareInv`), and since the best clock is
unique (`BestUnique`) every later store stores the same (`ChosenInv`).

`RevalidateProofs` proves `ClockTypes`, `DeadlinesExact` (`DeadlineExact`) and
`PosixRevalidates` (`RevalidatesSoon` unless `Windows`; on Windows the run
`revalidate` refutes it), for every frequency, epoch not after the start, time-out
and word size, and `ClockForAll` carries the choice of the clock over. The main
lemmas are `AddExact` (`_timespec_add` with its carry is exact) and
`ReadingNotAhead` (a reading, wrapped or not, is not ahead of real time), whence
the deadline is not later than now plus the time-out (`WaitingInv`).

`ThrdWin32Proofs` proves `StorageKeepsTypes` (`TypeOK` of `TssWin32`),
`BlockChangesHands` (`BlockHandover`), `JoinIsRight` (`JoinTellsResult`) and, when
no key with a destructor is deleted, `DestructorsRunOnce` (`DtorsRunOnce`), for any
threads, slots, indexes (at least one, `TssAssumption`) and bounds. `LifeInv` ties
the parameter block, the handle and the exit code to the stages of both threads.
`DtorInv` says which key an index belongs to (`KeyInv`), that each slot holds the
destructor of a creation that still owns its key, no two the same (`SlotInv`), how
far a registration is (`RegisterInv`) and that the calls of a walk are those of
the slots passed, each once (`WalkInv`); the number of calls then is the number of
values owed because the sequence of calls has no repetition (`LenIsCardinality`).

**Only model-checked:**

- all liveness properties (`SyncReturns`, `WorkIsDone`, `StopReturns`,
  `GrantsAreTaken`, `GateOpens`, `WaitReturns`, `CallReturns`, `CallsReturn`,
  `TimedLockReturns`, `JoinEnds`), which rest on fairness and are outside what the
  prover can do;
- `ArithmeticIsExact` for a given width, as said above;
- the counterexamples of the four violated runs.

## 5. Not modelled, and the plan

Not modelled:

- memory orders (the MSVC header compiles all of them to the strongest; on POSIX
  the models assume sequentially consistent interleavings of the atomic
  accesses);
- `cnd_destroy` and `mtx_destroy`, which only release the object; native
  condition variables and `call_once` of Windows (disabled in the source);
- a second client thread of the pool: the header describes one dispatching thread;
- POSIX calls that are nothing but a pthread call (`thrd_join`, `tss_*`);
- mucpu and mulog: sequential formatting of what cpuid and the caller give, with
  no state and nobody to interleave with;
- build files and tests.

mumule.h undefines NDEBUG, so its assertions, with the `thrd_create` inside one,
are always compiled.

Known limits of what is shown, each seen with TLC when the constants of a run
are changed, or plain in the code:

- With `LiveReset = TRUE` in `pool` (one worker is enough) TLC refutes
  `EachItemOnce`: between the stores of `mule_reset` a worker sees `processing`
  different from `queued` and claims an item that was never submitted.
- The emulated `mtx_timedlock` takes the seconds of an absolute time as a distance
  from now: it gives up only after as many seconds as have passed since 1970.
  `NoEarlyTimeout` claims the other direction only. A timeout is reported as
  `thrd_busy`, by this and by `cnd_timedwait`; `thrd_timeout` is never returned.
- On POSIX `RevalidatesSoon` holds because a deadline made from a clock that
  counts from boot, or whose nanoseconds have wrapped, lies in the past: the wait
  is too short, and an idle worker polls instead of sleeping 10 ms.
- `thrd_create` on Windows loses its parameter block when `_beginthreadex` fails
  (`leaked` counts them); `BlockHandover` is about starts that succeed. The POSIX
  one frees it.
- `DtorsRunOnce` holds for one creating thread that deletes no key with a
  destructor. With two creating threads (the specification of
  `TssWin32` alone) the unlocked search for a slot loses a destructor; with `DeleteAny = TRUE` the old destructor of a reused index runs
  on the new key's value, and the slots of deleted keys are never free again.
- `LastItemSignals` holds when nothing is submitted to a running pool. Otherwise
  the worker that counts the last item may compare it with an old `queued` and
  not signal, and `mule_sync` goes on after its timeout.
- `SignalFindsWaiters` holds without timeouts, for one timed waiter and for
  broadcasts only, as proved. With `cnd_signal` and two or three timed waiters it
  fails (after 21 steps, with this invariant in
  `cond_hang.cfg`): a thread that times out while another is being unblocked
  decrements both `to_unblock` and `blocked`, the other, late, counts itself in
  `gone`, and the next signal passes over a third that waits.
- `CompareExchange` does not update `*expected` when the comparison fails, as C11
  has it, so a caller's retry loop has to load again, as the fetch loops do.

Next steps, in this order:

1. the pool on the Windows condition variable (`Mumule` with `CondWin32` inside);
2. proofs: how far `gone` and `blocked` may drift with `cnd_signal` and several
   timed waiters;
   `TssWin32` with several creating threads but no search under way at a time.
