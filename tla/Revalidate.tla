----------------------------- MODULE Revalidate -----------------------------
(***************************************************************************)
(* How the threads of mumule come by the deadlines of their timed waits    *)
(* (src/src/mumule.h): a thread gets the default clock once, racing with   *)
(* the others through its initialisation (MuClock); then, again and again, *)
(* it reads the clock, adds a time-out to make an absolute time (MuTime)   *)
(* and passes that to cnd_timedwait, which on POSIX waits until that time  *)
(* of the system's real-time clock and on Windows for that many            *)
(* milliseconds.                                                           *)
(*                                                                         *)
(* now is the real time in nanoseconds since 1970.                         *)
(***************************************************************************)
EXTENDS MuClock, MuTime

CONSTANTS
  Windows,   \* cnd_timedwait is the one of threads_win32.h
  Reltimes,  \* mumule_revalidate_work_available_ns, .._queue_complete_ns
  Epoch,     \* per clock: the real time at which its ticks began
  StartNow,  \* the real time at the start
  MaxNow     \* bound on the real time

ASSUME RevalidateAssumption ==
  /\ Windows \in BOOLEAN
  /\ Reltimes \subseteq Nat
  /\ StartNow \in Nat /\ MaxNow \in Nat
  /\ Epoch \in [Clocks -> 0..StartNow]

VARIABLES
  now,
  wait   \* per thread: where it is ("loop", "ready" to wait or "waiting"), the
         \* time-out, the clock's reading, abstime, when its wait has begun
         \* and when it times out

rvars == <<vars, now, wait>>

Loop == [at |-> "loop", reltime |-> 0, reading |-> 0,
         abstime |-> [tv_sec |-> 0, tv_nsec |-> 0], from |-> 0, until |-> 0]

RInit ==
  /\ Init
  /\ now = StartNow
  /\ wait = [t \in Threads |-> Loop]

(* A step inside muclock, taken before the loop begins. *)
Clock(t) ==
  /\ GetDefinitions(t) \/ GetDefault(t) \/ Step(t)
  /\ returned[t] = NULL
  /\ UNCHANGED <<now, wait>>

(* time() of clock c *)
Ticks(c) == ((now - Epoch[c]) * Freq(c)) \div NsPerSec

(* The head of the loop of mule_thread or mule_sync. *)
ReadClock(t, rel) ==
  LET c  == returned[t]
      ns == GetTimeNs(Ticks(c), Freq(c))
  IN  /\ c # NULL
      /\ wait[t].at = "loop"
      /\ wait' = [wait EXCEPT ![t] =
           [@ EXCEPT !.at = "ready", !.reltime = rel, !.reading = ns,
                     !.abstime = TimespecAdd(GetTimeTs(ns), rel)]]
      /\ UNCHANGED <<vars, now>>

CndTimedwait(t) ==
  LET ts  == wait[t].abstime
      end == IF Windows THEN now + Timespec2Msec(ts) * NsPerMs ELSE ToNs(ts)
  IN  /\ wait[t].at = "ready"
      /\ wait' = [wait EXCEPT ![t] =
           [@ EXCEPT !.at = "waiting", !.from = now, !.until = end]]
      /\ UNCHANGED <<vars, now>>

(***************************************************************************)
(* The next round: there was something to do, so that the thread did not   *)
(* wait, or its wait has ended by a wakeup or by the time-out.             *)
(***************************************************************************)
NextRound(t) ==
  /\ wait[t].at # "loop"
  /\ wait' = [wait EXCEPT ![t] = Loop]
  /\ UNCHANGED <<vars, now>>

(* The system ends a wait as soon as its time is over. *)
TimePasses ==
  /\ now < MaxNow
  /\ \A t \in Threads : wait[t].at = "waiting" => now < wait[t].until
  /\ now' = now + 1
  /\ UNCHANGED <<vars, wait>>

RNext ==
  \/ \E t \in Threads :
       \/ Clock(t) \/ CndTimedwait(t) \/ NextRound(t)
       \/ \E rel \in Reltimes : ReadClock(t, rel)
  \/ TimePasses

RSpec == RInit /\ [][RNext]_rvars

-----------------------------------------------------------------------------
(***************************************************************************)
(* The deadline is exact: muclock_gettime_ts and _timespec_add take the    *)
(* reading apart and carry between its parts, and the result is a proper   *)
(* timespec (pthread_cond_timedwait refuses others, and the worker would   *)
(* spin) that names the reading plus the time-out.                         *)
(***************************************************************************)
DeadlineExact ==
  \A t \in Threads : wait[t].at # "loop" =>
    /\ wait[t].abstime.tv_nsec \in 0..(NsPerSec - 1)
    /\ ToNs(wait[t].abstime) = wait[t].reading + wait[t].reltime

(***************************************************************************)
(* "time between revalidation of the work available condition for worker   *)
(* threads is 10 ms" (mumule.h:74): no timed wait lasts longer than its    *)
(* time-out, whichever clock was chosen, whatever its epoch, and whether   *)
(* or not the 64-bit product of muclock_gettime_ns has wrapped around.     *)
(***************************************************************************)
RevalidatesSoon ==
  \A t \in Threads :
    wait[t].at = "waiting" => now <= wait[t].from + wait[t].reltime
=============================================================================
