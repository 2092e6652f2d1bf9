-------------------------- MODULE RevalidateProofs --------------------------
(***************************************************************************)
(* Theorems about the deadlines of mumule's timed waits, for any clocks,   *)
(* epochs, time-outs, units and widths of the integers.                    *)
(***************************************************************************)
EXTENDS Revalidate, MuClockProofs

(* Division and remainder of natural numbers. *)
LEMMA DivMod ==
  ASSUME NEW a \in Nat, NEW c \in Nat \ {0}
  PROVE  /\ a \div c \in Nat /\ a % c \in 0..(c - 1)
         /\ a = (a \div c) * c + (a % c)
OBVIOUS

LEMMA DivAtMost ==
  ASSUME NEW a \in Nat, NEW d \in Nat, NEW c \in Nat \ {0}, a <= d * c
  PROVE  a \div c <= d
<1> DEFINE q == a \div c
<1>1. q \in Nat /\ q * c <= a
  BY DivMod
<1> HIDE DEF q
<1>2. q * c <= d * c
  BY <1>1
<1>3. ~ (q >= d + 1)
  <2> SUFFICES ASSUME q >= d + 1 PROVE FALSE
    OBVIOUS
  <2>1. q * c >= (d + 1) * c
    BY <1>1
  <2>2. (d + 1) * c = d * c + c
    OBVIOUS
  <2> QED
    BY <1>1, <1>2, <2>1, <2>2
<1>4. q <= d
  BY <1>1, <1>3
<1> QED
  BY <1>4 DEF q

(***************************************************************************)
(* _timespec_add after muclock_gettime_ts: a proper timespec, and exactly  *)
(* the reading plus the time-out.                                          *)
(***************************************************************************)
LEMMA AddExact ==
  ASSUME NEW ns \in Nat, NEW rel \in Nat
  PROVE  /\ TimespecAdd(GetTimeTs(ns), rel) \in [tv_sec : Nat, tv_nsec : Nat]
         /\ TimespecAdd(GetTimeTs(ns), rel).tv_nsec \in 0..(NsPerSec - 1)
         /\ ToNs(TimespecAdd(GetTimeTs(ns), rel)) = ns + rel
<1> DEFINE s == ns \div NsPerSec
<1> DEFINE r == ns % NsPerSec
<1> DEFINE q == (r + rel) \div NsPerSec
<1> DEFINE m == (r + rel) % NsPerSec
<1>1. NsPerSec \in Nat \ {0}
  BY MuTimeAssumption
<1>2. s \in Nat /\ r \in Nat /\ ns = s * NsPerSec + r
  BY <1>1, DivMod
<1>3. q \in Nat /\ m \in 0..(NsPerSec - 1) /\ r + rel = q * NsPerSec + m
  <2> HIDE DEF r
  <2>1. r + rel \in Nat
    BY <1>2
  <2> QED
    BY <1>1, <2>1, DivMod
<1>4. TimespecAdd(GetTimeTs(ns), rel) = [tv_sec |-> s + q, tv_nsec |-> m]
  BY DEF TimespecAdd, GetTimeTs
<1> HIDE DEF s, r, q, m
<1>5. (s + q) * NsPerSec = s * NsPerSec + q * NsPerSec
  BY <1>1, <1>2, <1>3
<1>6. (s + q) * NsPerSec + m = ns + rel
  BY <1>1, <1>2, <1>3, <1>5
<1>7. s + q \in Nat /\ m \in Nat
  BY <1>1, <1>2, <1>3
<1>8. [tv_sec |-> s + q, tv_nsec |-> m] \in [tv_sec : Nat, tv_nsec : Nat]
  BY <1>7
<1> QED
  BY <1>3, <1>4, <1>6, <1>8 DEF ToNs

(***************************************************************************)
(* muclock_gettime_ns never runs ahead of the clock: neither the rounding  *)
(* of the ticks nor the wrap-around of the product adds anything.          *)
(***************************************************************************)
LEMMA ReadingNotAhead ==
  ASSUME NEW d \in Nat, NEW f \in Nat \ {0}
  PROVE  /\ GetTimeNs((d * f) \div NsPerSec, f) \in Nat
         /\ GetTimeNs((d * f) \div NsPerSec, f) <= d
<1> DEFINE x == (d * f) \div NsPerSec
<1> DEFINE y == (x * NsPerSec) % Wrap64
<1>1. NsPerSec \in Nat \ {0} /\ Wrap64 \in Nat \ {0}
  BY MuTimeAssumption
<1>2. d * f \in Nat
  OBVIOUS
<1>3. x \in Nat /\ x * NsPerSec <= d * f
  <2> DEFINE p == d * f
  <2> HIDE DEF p
  <2>1. p \in Nat
    BY <1>2 DEF p
  <2>2. p \div NsPerSec \in Nat /\ (p \div NsPerSec) * NsPerSec <= p
    BY <1>1, <2>1, DivMod
  <2> QED
    BY <2>2 DEF p
<1> HIDE DEF x
<1>4. y \in Nat /\ y <= x * NsPerSec
  <2> DEFINE p == x * NsPerSec
  <2>1. p \in Nat
    BY <1>1, <1>3
  <2> HIDE DEF p
  <2>2. p % Wrap64 \in Nat /\ p % Wrap64 <= p
    BY <1>1, <2>1, DivMod
  <2> QED
    BY <2>2 DEF p
<1> HIDE DEF y
<1>5. y <= d * f
  BY <1>1, <1>2, <1>3, <1>4
<1>6. y \div f \in Nat /\ y \div f <= d
  BY <1>4, <1>5, DivMod, DivAtMost
<1>7. GetTimeNs((d * f) \div NsPerSec, f) = y \div f
  BY DEF GetTimeNs, x, y
<1> QED
  BY <1>6, <1>7

(* impl_timespec2msec of a timespec gives a number of milliseconds. *)
LEMMA MsecNat ==
  ASSUME NEW ts \in [tv_sec : Nat, tv_nsec : Nat]
  PROVE  Timespec2Msec(ts) * NsPerMs \in Nat
<1>1. NsPerSec \in Nat \ {0} /\ MsPerSec \in Nat \ {0} /\ Wrap32 \in Nat \ {0}
  BY MuTimeAssumption
<1>2. NsPerMs \in Nat /\ NsPerSec = NsPerMs * MsPerSec
  <2>1. /\ NsPerSec \div MsPerSec \in Nat
        /\ NsPerSec = (NsPerSec \div MsPerSec) * MsPerSec + (NsPerSec % MsPerSec)
    BY <1>1, DivMod
  <2> QED
    BY <1>1, <2>1, MuTimeAssumption DEF NsPerMs
<1>3. NsPerMs \in Nat \ {0}
  BY <1>1, <1>2
<1> DEFINE ms == ts.tv_sec * MsPerSec + (ts.tv_nsec \div NsPerMs)
<1>4. ms \in Nat
  <2>1. ts.tv_nsec \div NsPerMs \in Nat
    BY <1>3, DivMod
  <2>2. ts.tv_sec * MsPerSec \in Nat
    BY <1>1
  <2> QED
    BY <2>1, <2>2
<1>5. Timespec2Msec(ts) = ms % Wrap32
  BY DEF Timespec2Msec
<1> HIDE DEF ms
<1>6. Timespec2Msec(ts) \in Nat
  BY <1>1, <1>4, <1>5, DivMod
<1> QED
  BY <1>3, <1>6

-----------------------------------------------------------------------------
(* The steps of muclock in the composition are steps of MuClock. *)
LEMMA StepsOfMuClock == RSpec => Spec
<1>1. RInit => Init
  BY DEF RInit
<1>2. [RNext]_rvars => [Next]_vars
  BY DEF RNext, rvars, Clock, CndTimedwait, NextRound, ReadClock, TimePasses, Next
<1> QED
  BY <1>1, <1>2, PTL DEF RSpec, Spec

Wait == [at : {"loop", "ready", "waiting"}, reltime : Nat, reading : Nat,
         abstime : [tv_sec : Nat, tv_nsec : Nat], from : Nat, until : Nat]

(* The reading is never ahead of the real time at which it was taken. *)
ReadingInv ==
  \A t \in Threads : wait[t].at # "loop" => wait[t].reading <= now

(* The wait lies between the reading and its end, which POSIX takes as is. *)
WaitingInv ==
  \A t \in Threads : wait[t].at = "waiting" =>
    /\ wait[t].reading <= wait[t].from /\ wait[t].from <= now
    /\ ~ Windows => wait[t].until = wait[t].reading + wait[t].reltime
    /\ now = wait[t].from \/ now <= wait[t].until

RInv ==
  /\ now \in Nat /\ StartNow <= now /\ wait \in [Threads -> Wait]
  /\ DeadlineExact /\ ReadingInv /\ WaitingInv

LEMMA RInitInv == RInit => RInv
BY RevalidateAssumption
   DEF RInit, RInv, Wait, Loop, DeadlineExact, ReadingInv, WaitingInv

(* What one thread's new entry must satisfy. *)
WaitOK(w) ==
  /\ w \in Wait
  /\ w.at # "loop" =>
       /\ w.abstime.tv_nsec \in 0..(NsPerSec - 1)
       /\ ToNs(w.abstime) = w.reading + w.reltime
       /\ w.reading <= now
  /\ w.at = "waiting" =>
       /\ w.reading <= w.from /\ w.from <= now
       /\ ~ Windows => w.until = w.reading + w.reltime
       /\ now = w.from \/ now <= w.until

LEMMA WaitUpdate ==
  ASSUME RInv, NEW t \in Threads, NEW w, WaitOK(w),
         wait' = [wait EXCEPT ![t] = w], now' = now
  PROVE  RInv'
BY DEF RInv, WaitOK, DeadlineExact, ReadingInv, WaitingInv

(* A thread reads the clock it was given: the best one, whose freq() is > 0. *)
LEMMA ReadingOK ==
  ASSUME ClockInv, RInv, NEW t \in Threads, returned[t] # NULL
  PROVE  LET c == returned[t]  ns == GetTimeNs(Ticks(c), Freq(c))
         IN  ns \in Nat /\ ns <= now
<1> DEFINE c == returned[t]
<1> DEFINE d == now - Epoch[c]
<1>1. c \in Clocks /\ BestOf(c, NumClocks) /\ X86Ready
  BY DEF ClockInv, ChosenInv, ReadyInv, TypeOK
<1>2. Freq(c) \in Nat /\ Freq(c) > 0
  BY <1>1, FreqTrue, FreqNat DEF BestOf, ClockInv, Clocks, NULL
<1>3. Epoch[c] \in 0..StartNow
  BY <1>1, RevalidateAssumption
<1>4. d \in Nat /\ d <= now
  BY <1>3, RevalidateAssumption DEF RInv
<1>5. Ticks(c) = (d * Freq(c)) \div NsPerSec
  BY DEF Ticks
<1> HIDE DEF c, d
<1> DEFINE f == Freq(c)
<1>6. f \in Nat \ {0}
  BY <1>2
<1> HIDE DEF f
<1>7. /\ GetTimeNs((d * f) \div NsPerSec, f) \in Nat
      /\ GetTimeNs((d * f) \div NsPerSec, f) <= d
  BY <1>4, <1>6, ReadingNotAhead
<1>8. GetTimeNs(Ticks(c), Freq(c)) = GetTimeNs((d * f) \div NsPerSec, f)
  BY <1>5 DEF f
<1>9. GetTimeNs(Ticks(c), Freq(c)) \in Nat /\ GetTimeNs(Ticks(c), Freq(c)) <= now
  BY <1>4, <1>7, <1>8 DEF RInv
<1> QED
  BY <1>9 DEF c

LEMMA RNextInv == ClockInv /\ RInv /\ [RNext]_rvars => RInv'
<1> SUFFICES ASSUME ClockInv, RInv, [RNext]_rvars PROVE RInv'
  OBVIOUS
<1>1. ASSUME NEW t \in Threads, NEW rel \in Reltimes, ReadClock(t, rel) PROVE RInv'
  <2> DEFINE ns == GetTimeNs(Ticks(returned[t]), Freq(returned[t]))
  <2> DEFINE abs == TimespecAdd(GetTimeTs(ns), rel)
  <2> DEFINE w == [wait[t] EXCEPT !.at = "ready", !.reltime = rel,
                                  !.reading = ns, !.abstime = abs]
  <2>1. wait' = [wait EXCEPT ![t] = w] /\ now' = now /\ returned[t] # NULL
    BY <1>1 DEF ReadClock
  <2>2. ns \in Nat /\ ns <= now
    BY <2>1, ReadingOK
  <2>3. rel \in Nat
    BY RevalidateAssumption
  <2> HIDE DEF ns
  <2>4. /\ abs \in [tv_sec : Nat, tv_nsec : Nat]
        /\ abs.tv_nsec \in 0..(NsPerSec - 1) /\ ToNs(abs) = ns + rel
    BY <2>2, <2>3, AddExact
  <2> HIDE DEF abs
  <2>5. WaitOK(w)
    <3>1. /\ w \in Wait /\ w.at = "ready" /\ w.abstime = abs
          /\ w.reading = ns /\ w.reltime = rel
      BY <2>2, <2>3, <2>4 DEF RInv, Wait
    <3> HIDE DEF w
    <3> QED
      BY <2>2, <2>4, <3>1 DEF WaitOK
  <2> HIDE DEF w
  <2> QED
    BY <2>1, <2>5, WaitUpdate
<1>2. ASSUME NEW t \in Threads, CndTimedwait(t) PROVE RInv'
  <2> DEFINE ts == wait[t].abstime
  <2> DEFINE end == IF Windows THEN now + Timespec2Msec(ts) * NsPerMs ELSE ToNs(ts)
  <2> DEFINE w == [wait[t] EXCEPT !.at = "waiting", !.from = now, !.until = end]
  <2>1. wait[t].at = "ready" /\ wait' = [wait EXCEPT ![t] = w] /\ now' = now
    BY <1>2 DEF CndTimedwait
  <2>2. /\ wait[t] \in Wait /\ ts \in [tv_sec : Nat, tv_nsec : Nat]
        /\ now \in Nat
    BY DEF RInv, Wait
  <2>3. /\ ts.tv_nsec \in 0..(NsPerSec - 1)
        /\ ToNs(ts) = wait[t].reading + wait[t].reltime
        /\ wait[t].reading <= now
    BY <2>1 DEF RInv, DeadlineExact, ReadingInv
  <2>4. end \in Nat /\ (~ Windows => end = wait[t].reading + wait[t].reltime)
    <3>1. ToNs(ts) \in Nat
      BY <2>2, <2>3 DEF Wait
    <3>2. now + Timespec2Msec(ts) * NsPerMs \in Nat
      BY <2>2, MsecNat
    <3> QED
      BY <2>3, <3>1, <3>2
  <2> HIDE DEF end
  <2>5. WaitOK(w)
    <3>1. /\ w \in Wait /\ w.at = "waiting" /\ w.abstime = ts
          /\ w.reading = wait[t].reading /\ w.reltime = wait[t].reltime
          /\ w.from = now /\ w.until = end
      BY <2>2, <2>4 DEF Wait
    <3> HIDE DEF w
    <3> QED
      BY <2>2, <2>3, <2>4, <3>1 DEF WaitOK
  <2> HIDE DEF w
  <2> QED
    BY <2>1, <2>5, WaitUpdate
<1>3. ASSUME NEW t \in Threads, NextRound(t) PROVE RInv'
  <2>1. WaitOK(Loop)
    BY DEF WaitOK, Loop, Wait
  <2> QED
    BY <1>3, <2>1, WaitUpdate DEF NextRound
<1>4. CASE TimePasses
  <2>1. now' = now + 1 /\ wait' = wait
    BY <1>4 DEF TimePasses
  <2>2. \A t \in Threads : wait[t].at = "waiting" => now < wait[t].until
    BY <1>4 DEF TimePasses
  <2>3. now \in Nat /\ StartNow \in Nat /\ wait \in [Threads -> Wait]
    BY RevalidateAssumption DEF RInv
  <2>4. DeadlineExact'
    BY <2>1 DEF RInv, DeadlineExact
  <2>5. ReadingInv' /\ WaitingInv'
    <3> SUFFICES ASSUME NEW t \in Threads
                 PROVE  (/\ wait[t].at # "loop" => wait[t].reading <= now
                         /\ wait[t].at = "waiting" =>
                              /\ wait[t].reading <= wait[t].from
                              /\ wait[t].from <= now
                              /\ ~ Windows => wait[t].until = wait[t].reading
                                                              + wait[t].reltime
                              /\ now = wait[t].from \/ now <= wait[t].until)'
      BY DEF ReadingInv, WaitingInv
    <3>1. /\ wait[t].reading \in Nat /\ wait[t].from \in Nat
          /\ wait[t].until \in Nat
      BY <2>3 DEF Wait
    <3> QED
      BY <2>1, <2>2, <2>3, <3>1 DEF RInv, ReadingInv, WaitingInv
  <2> QED
    BY <2>1, <2>3, <2>4, <2>5 DEF RInv
<1>5. CASE UNCHANGED <<now, wait>>
  BY <1>5 DEF RInv, DeadlineExact, ReadingInv, WaitingInv
<1> QED
  BY <1>1, <1>2, <1>3, <1>4, <1>5 DEF RNext, Clock, rvars

(* The clock's invariant and the deadlines' hold together. *)
THEOREM RevalidateCorrect == RSpec => [](ClockInv /\ RInv)
<1>1. RSpec => []ClockInv
  BY StepsOfMuClock, ClockCorrect, PTL
<1> QED
  BY <1>1, RInitInv, RNextInv, PTL DEF RSpec

(* The types of muclock's variables, in the system that uses the clock. *)
THEOREM ClockTypes == RSpec => []TypeOK
BY RevalidateCorrect, PTL DEF ClockInv

(***************************************************************************)
(* Every deadline passed to cnd_timedwait is a proper timespec and names   *)
(* exactly the clock's reading plus the time-out.                          *)
(***************************************************************************)
THEOREM DeadlinesExact == RSpec => []DeadlineExact
BY RevalidateCorrect, PTL DEF RInv

(***************************************************************************)
(* With the POSIX cnd_timedwait no timed wait lasts longer than the        *)
(* time-out, whatever clock was chosen, whatever its epoch, and also after *)
(* the 64-bit product of muclock_gettime_ns has wrapped around.            *)
(***************************************************************************)
THEOREM PosixRevalidates == RSpec => [](~ Windows => RevalidatesSoon)
<1>1. RInv => (~ Windows => RevalidatesSoon)
  <2> SUFFICES ASSUME RInv, ~ Windows, NEW t \in Threads, wait[t].at = "waiting"
               PROVE  now <= wait[t].from + wait[t].reltime
    BY DEF RevalidatesSoon
  <2>1. /\ wait[t].reading \in Nat /\ wait[t].from \in Nat
        /\ wait[t].reltime \in Nat /\ now \in Nat
    BY DEF RInv, Wait
  <2> QED
    BY <2>1 DEF RInv, WaitingInv
<1> QED
  BY <1>1, RevalidateCorrect, PTL

(* The choice of the clock, in the system that uses it. *)
THEOREM ClockForAll == RSpec => []ChosenIsBest /\ ChosenForGood
BY StepsOfMuClock, DefaultIsBest, DefaultForGood, PTL
=============================================================================
