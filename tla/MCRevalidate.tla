---------------------------- MODULE MCRevalidate ----------------------------
(***************************************************************************)
(* clock-std, clock-posix and clock-x86 of a Linux build on x86, or        *)
(* clock-std, clock-win32 and clock-x86 of a Windows build, with a second  *)
(* of 4 nanoseconds and 2 milliseconds.                                    *)
(***************************************************************************)
EXTENDS Revalidate

MCFrequency == <<1, NsPerSec, 0>>

(* CLOCK_REALTIME begins in 1970, clock() with the process, TSC at boot. *)
MCEpoch == <<StartNow, IF Windows THEN 4 ELSE 0, 4>>

(***************************************************************************)
(* A processor that tells its frequency, slower or faster than clock 2;    *)
(* one whose leaf 0x16 is there but zero in the low half; a hypervisor     *)
(* that tells it; one that tells nothing useful.                           *)
(***************************************************************************)
MCCpuids ==
  {[leaf16 |-> 2,     leafVM |-> 0],
   [leaf16 |-> 6,     leafVM |-> 0],
   [leaf16 |-> 65536, leafVM |-> 200000],
   [leaf16 |-> 0,     leafVM |-> 101000],
   [leaf16 |-> 0,     leafVM |-> 100000]}
=============================================================================
