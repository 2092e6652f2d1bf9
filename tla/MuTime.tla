------------------------------- MODULE MuTime -------------------------------
(***************************************************************************)
(* The arithmetic between a clock's ticks and the deadline of a timed      *)
(* wait: muclock_gettime_ns and muclock_gettime_ts of src/src/muclock.cc,  *)
(* _timespec_add of src/src/mumule.h, impl_timespec2msec of                *)
(* src/include/compat-threads/threads_win32.h.  The units and the widths   *)
(* of the integers are parameters, so that overflow is within reach.       *)
(***************************************************************************)
EXTENDS Integers

CONSTANTS
  NsPerSec,  \* 1000000000
  MsPerSec,  \* 1000
  Wrap64,    \* 2^64, the range of uint64_t
  Wrap32     \* 2^32, the range of DWORD

ASSUME MuTimeAssumption ==
  /\ {NsPerSec, MsPerSec, Wrap64, Wrap32} \subseteq Nat \ {0}
  /\ NsPerSec % MsPerSec = 0

NsPerMs == NsPerSec \div MsPerSec

(* Mutant: ticks are taken for nanoseconds. *)
GetTimeTicks(t, f) == t % Wrap64

(* muclock_gettime_ns: the product wraps around before it is divided. *)
GetTimeNs(t, f) == ((t * NsPerSec) % Wrap64) \div f

(* muclock_gettime_ts *)
GetTimeTs(ns) == [tv_sec |-> ns \div NsPerSec, tv_nsec |-> ns % NsPerSec]

(* Mutant: the nanoseconds are brought into range, the second is lost. *)
TimespecAddNoCarry(ts, reltime) ==
  [tv_sec |-> ts.tv_sec, tv_nsec |-> (ts.tv_nsec + reltime) % NsPerSec]

(* _timespec_add *)
TimespecAdd(ts, reltime) ==
  LET ns == ts.tv_nsec + reltime
  IN  [tv_sec |-> ts.tv_sec + ns \div NsPerSec, tv_nsec |-> ns % NsPerSec]

(* impl_timespec2msec, truncated to a DWORD *)
Timespec2Msec(ts) ==
  (ts.tv_sec * MsPerSec + ts.tv_nsec \div NsPerMs) % Wrap32

(* The point in time a timespec names to pthread_cond_timedwait. *)
ToNs(ts) == ts.tv_sec * NsPerSec + ts.tv_nsec
=============================================================================
