---------------------------- MODULE MuClockProofs ----------------------------
(***************************************************************************)
(* Theorems about the race for the default clock, for any threads, number  *)
(* of clocks, frequencies and machines.                                    *)
(***************************************************************************)
EXTENDS MuClock, TLAPS

(* No frequency is missing: init() of clock-x86 has run, or need not run. *)
X86Ready == X86 = 0 \/ base_freq = X86Frequency

(* Clock b, or none of them (NULL), is the best among the first k. *)
BestOf(b, k) ==
  \/ b = NULL /\ \A d \in 1..k : TrueFreq(d) = 0
  \/ /\ b \in 1..k
     /\ TrueFreq(b) > 0
     /\ \A d \in 1..k : TrueFreq(d) <= TrueFreq(b)
     /\ \A d \in 1..(b - 1) : TrueFreq(d) < TrueFreq(b)

(***************************************************************************)
(* A lost bit of muclock_inited only makes somebody run init() again: the  *)
(* bit of clock-x86, in muclock_inited or in a thread's copy of it, is     *)
(* always put there after init() has stored the frequency, and a thread    *)
(* that is past clock-x86 has seen the bit or run init() itself.           *)
(***************************************************************************)
ReadyInv ==
  /\ X86 \in muclock_inited => X86Ready
  /\ chosen_clock # NULL => X86Ready
  /\ \A t \in Threads :
       /\ X86 \in bits[t] => X86Ready
       /\ pc[t] \in {"load_bits", "store_bits"} /\ n[t] = X86 => X86Ready
       /\ pc[t] \in {"test", "init", "load_bits", "store_bits"} /\ n[t] > X86
            => X86Ready
       /\ pc[t] \in {"choose", "store"} => X86Ready

(* The comparison of frequencies is right about the clocks it has seen. *)
CompareInv ==
  \A t \in Threads :
    /\ pc[t] \in {"test", "init", "load_bits", "store_bits"} => best[t] = NULL
    /\ pc[t] = "choose" => BestOf(best[t], n[t] - 1)
    /\ pc[t] = "store" => BestOf(best[t], NumClocks)

(* The clock published, and what muclock_get_default returned, is the best. *)
ChosenInv ==
  /\ chosen_clock # NULL => BestOf(chosen_clock, NumClocks)
  /\ \A t \in Threads : returned[t] \in {NULL, chosen_clock}

ClockInv == TypeOK /\ ReadyInv /\ CompareInv /\ ChosenInv

LEMMA X86FrequencyNat == TypeOK => X86Frequency \in Nat
<1> SUFFICES ASSUME TypeOK PROVE X86Frequency \in Nat
  OBVIOUS
<1>1. cpuid.leaf16 \in Nat /\ cpuid.leafVM \in Nat
  BY MuClockAssumption DEF TypeOK
<1> QED
  BY <1>1 DEF X86Frequency

LEMMA FreqNat ==
  ASSUME TypeOK, NEW c \in Clocks
  PROVE  TrueFreq(c) \in Nat /\ Freq(c) \in Nat
BY X86FrequencyNat, MuClockAssumption DEF TrueFreq, Freq, TypeOK

(* freq() tells the truth when clock-x86 is ready. *)
LEMMA FreqTrue ==
  ASSUME X86Ready, NEW c \in Clocks PROVE Freq(c) = TrueFreq(c)
BY MuClockAssumption DEF X86Ready, Freq, TrueFreq, Clocks

(* There is one best clock. *)
LEMMA BestUnique ==
  ASSUME TypeOK, NEW b, NEW c, b # NULL,
         BestOf(b, NumClocks), BestOf(c, NumClocks)
  PROVE  b = c
<1>1. b \in Clocks
  BY DEF BestOf, Clocks
<1>2. c # NULL
  BY <1>1, FreqNat DEF BestOf, Clocks, NULL
<1>3. c \in Clocks
  BY <1>2 DEF BestOf, Clocks
<1>4. TrueFreq(b) = TrueFreq(c)
  BY <1>1, <1>2, <1>3, FreqNat DEF BestOf, Clocks
<1>5. ~ (b < c) /\ ~ (c < b)
  BY <1>1, <1>2, <1>3, <1>4, FreqNat, MuClockAssumption DEF BestOf, Clocks
<1> QED
  BY <1>1, <1>3, <1>5, MuClockAssumption DEF Clocks

(* One round of the loop in choose_clock extends the best by one clock. *)
LEMMA BestStep ==
  ASSUME TypeOK, X86Ready, NEW k \in Clocks, NEW b, BestOf(b, k - 1)
  PROVE  BestOf(IF Freq(k) > (IF b = NULL THEN 0 ELSE Freq(b)) THEN k ELSE b, k)
<1>1. Freq(k) = TrueFreq(k) /\ TrueFreq(k) \in Nat
  BY FreqTrue, FreqNat
<1>2. \A d \in 1..k : d \in Clocks /\ TrueFreq(d) \in Nat
  BY FreqNat, MuClockAssumption DEF Clocks
<1>3. k \in Nat /\ k > 0 /\ \A d \in 1..k : d = k \/ d \in 1..(k - 1)
  BY MuClockAssumption DEF Clocks
<1>4. CASE b = NULL
  BY <1>1, <1>2, <1>3, <1>4 DEF BestOf, NULL
<1>5. CASE b # NULL
  <2>1. b \in 1..(k - 1) /\ b \in 1..k
    BY <1>3, <1>5 DEF BestOf
  <2>2. Freq(b) = TrueFreq(b)
    BY <1>2, <2>1, FreqTrue
  <2>3. CASE TrueFreq(k) > TrueFreq(b)
    <3>1. \A d \in 1..(k - 1) : TrueFreq(d) < TrueFreq(k)
      BY <1>2, <1>3, <1>5, <2>1, <2>3 DEF BestOf
    <3> QED
      BY <1>1, <1>2, <1>3, <1>5, <2>1, <2>2, <2>3, <3>1 DEF BestOf
  <2>4. CASE ~ (TrueFreq(k) > TrueFreq(b))
    <3>1. TrueFreq(k) <= TrueFreq(b)
      BY <1>2, <1>3, <2>1, <2>4
    <3> QED
      BY <1>1, <1>2, <1>3, <1>5, <2>1, <2>2, <2>4, <3>1 DEF BestOf
  <2> QED
    BY <2>3, <2>4
<1> QED
  BY <1>4, <1>5

-----------------------------------------------------------------------------
LEMMA ClockInitInv == Init => ClockInv
<1> USE MuClockAssumption DEF Init, NULL, Clocks
<1>1. Init => TypeOK
  BY DEF TypeOK
<1>2. Init => ReadyInv
  BY DEF ReadyInv, X86Ready
<1>3. Init => CompareInv /\ ChosenInv
  BY DEF CompareInv, ChosenInv
<1> QED
  BY <1>1, <1>2, <1>3 DEF ClockInv

(* The machine does not change, nor do the frequencies it would give. *)
LEMMA SameMachine ==
  ASSUME cpuid' = cpuid
  PROVE  /\ X86Frequency' = X86Frequency
         /\ \A c : TrueFreq(c)' = TrueFreq(c)
         /\ \A b, k : BestOf(b, k)' = BestOf(b, k)
<1>1. X86Frequency' = X86Frequency
  BY DEF X86Frequency
<1>2. \A c : TrueFreq(c)' = TrueFreq(c)
  BY <1>1 DEF TrueFreq
<1>3. \A b, k : BestOf(b, k)' = BestOf(b, k)
  BY <1>2 DEF BestOf
<1> QED
  BY <1>1, <1>2, <1>3

(* base_freq, once there, is stored again only with the same value. *)
LEMMA ReadyStays ==
  ASSUME cpuid' = cpuid, X86Ready, base_freq' \in {base_freq, X86Frequency}
  PROVE  X86Ready'
BY SameMachine DEF X86Ready

(* Going on to the following clock keeps the index in range. *)
LEMMA NextIndexInRange ==
  ASSUME TypeOK, NEW t \in Threads, NextIndex(t)
  PROVE  /\ n' \in [Threads -> Clocks]
         /\ n'[t] = IF n[t] < NumClocks THEN n[t] + 1 ELSE 1
         /\ \A u \in Threads : u # t => n'[u] = n[u]
BY MuClockAssumption DEF TypeOK, NextIndex, Clocks

(***************************************************************************)
(* The end of a round of muclock_get_definitions, by a bit that was set or *)
(* by the store of a bit: the thread is past this clock.                   *)
(***************************************************************************)
LEMMA RoundInv ==
  ASSUME ClockInv, NEW t \in Threads, pc[t] \in {"test", "store_bits"},
         pc' = [pc EXCEPT ![t] = Following(t)], NextIndex(t),
         n[t] = X86 => X86Ready, n[t] \in muclock_inited',
         muclock_inited' \subseteq Clocks, X86 \in muclock_inited' => X86Ready,
         UNCHANGED <<cpuid, base_freq, chosen_clock, bits, best, default, returned>>
  PROVE  ClockInv'
<1> USE MuClockAssumption DEF ClockInv
<1>1. X86Ready' = X86Ready
  BY SameMachine DEF X86Ready
<1>2. /\ n' \in [Threads -> Clocks]
      /\ n'[t] = IF n[t] < NumClocks THEN n[t] + 1 ELSE 1
      /\ \A u \in Threads : u # t => n'[u] = n[u] /\ pc'[u] = pc[u]
  BY NextIndexInRange DEF TypeOK
<1>3. n[t] \in 1..NumClocks /\ NumClocks \in Nat /\ X86 \in Nat
  BY DEF TypeOK, Clocks
<1>4. /\ pc'[t] = Following(t)
      /\ Following(t) \in {"test", "choose", "idle"}
      /\ Following(t) = "test" => n[t] < NumClocks
      /\ Following(t) = "choose" => n[t] = NumClocks
  BY <1>3 DEF Following, TypeOK
<1>5. TypeOK'
  BY <1>2, <1>4 DEF TypeOK
<1>6. n[t] >= X86 => X86Ready
  BY <1>3 DEF ReadyInv, TypeOK
<1>7. ReadyInv'
  <2>1. (X86 \in muclock_inited => X86Ready)' /\ (chosen_clock # NULL => X86Ready)'
    BY <1>1 DEF ReadyInv
  <2>2. ASSUME NEW u \in Threads
        PROVE  /\ X86 \in bits'[u] => X86Ready'
               /\ pc'[u] \in {"load_bits", "store_bits"} /\ n'[u] = X86 => X86Ready'
               /\ pc'[u] \in {"test", "init", "load_bits", "store_bits"}
                    /\ n'[u] > X86 => X86Ready'
               /\ pc'[u] \in {"choose", "store"} => X86Ready'
    <3>1. CASE u = t
      BY <1>1, <1>2, <1>3, <1>4, <1>6, <3>1 DEF ReadyInv
    <3>2. CASE u # t
      BY <1>1, <1>2, <3>2 DEF ReadyInv
    <3> QED
      BY <3>1, <3>2
  <2> QED
    BY <2>1, <2>2 DEF ReadyInv
<1>8. CompareInv'
  <2> SUFFICES ASSUME NEW u \in Threads
               PROVE  (/\ pc[u] \in {"test", "init", "load_bits", "store_bits"}
                            => best[u] = NULL
                       /\ pc[u] = "choose" => BestOf(best[u], n[u] - 1)
                       /\ pc[u] = "store" => BestOf(best[u], NumClocks))'
    BY DEF CompareInv
  <2>1. CASE u = t
    <3>1. best'[t] = NULL /\ pc'[t] # "store"
      BY <1>4 DEF CompareInv
    <3>2. pc'[t] = "choose" => n'[t] - 1 = 0
      BY <1>2, <1>3, <1>4
    <3> QED
      BY <2>1, <3>1, <3>2 DEF BestOf
  <2>2. CASE u # t
    BY <1>2, <2>2, SameMachine DEF CompareInv
  <2> QED
    BY <2>1, <2>2
<1>9. ChosenInv'
  BY SameMachine DEF ChosenInv
<1> QED
  BY <1>5, <1>7, <1>8, <1>9

LEMMA ClockNextInv == ClockInv /\ [Next]_vars => ClockInv'
<1> SUFFICES ASSUME ClockInv, [Next]_vars PROVE ClockInv'
  OBVIOUS
<1> USE MuClockAssumption DEF ClockInv, globals, loc, Goto
<1>1. ASSUME NEW t \in Threads,
             \/ GetDefinitions(t)
             \/ GetDefault(t)
      PROVE  ClockInv'
  <2>1. /\ UNCHANGED globals /\ UNCHANGED <<bits, returned>>
        /\ n' = [n EXCEPT ![t] = 1] /\ best' = [best EXCEPT ![t] = NULL]
        /\ pc' \in [Threads -> {"idle", "test", "init", "load_bits",
                                "store_bits", "choose", "store", "return"}]
        /\ pc'[t] \in {"test", "return"}
        /\ \A u \in Threads : u # t => pc'[u] = pc[u]
        /\ default' \in [Threads -> BOOLEAN]
    BY <1>1 DEF GetDefinitions, GetDefault, Begin, TypeOK
  <2>2. TypeOK'
    BY <2>1 DEF TypeOK, Clocks, NULL
  <2>3. ReadyInv'
    <3>1. X86Ready' = X86Ready
      BY <2>1, SameMachine DEF X86Ready
    <3>2. n'[t] = 1 /\ \A u \in Threads : u # t => n'[u] = n[u]
      BY <2>1 DEF TypeOK
    <3>3. 1 > X86 => X86Ready
      BY DEF X86Ready
    <3> QED
      BY <2>1, <3>1, <3>2, <3>3 DEF ReadyInv
  <2>4. CompareInv'
    BY <2>1, SameMachine DEF CompareInv, TypeOK
  <2>5. ChosenInv'
    BY <2>1, SameMachine DEF ChosenInv
  <2> QED
    BY <2>2, <2>3, <2>4, <2>5
<1>2. ASSUME NEW t \in Threads, TestBit(t) PROVE ClockInv'
  <2>1. CASE n[t] \in muclock_inited
    BY <1>2, <2>1, RoundInv DEF TestBit, ReadyInv, TypeOK
  <2>2. CASE n[t] \notin muclock_inited
    <3>1. pc[t] = "test" /\ pc' = [pc EXCEPT ![t] = "init"]
       /\ UNCHANGED <<globals, loc, returned>>
      BY <1>2, <2>2 DEF TestBit
    <3>2. X86Ready' = X86Ready
      BY <3>1, SameMachine DEF X86Ready
    <3>3. TypeOK' /\ ReadyInv'
      BY <3>1, <3>2 DEF TypeOK, ReadyInv
    <3>4. CompareInv' /\ ChosenInv'
      BY <3>1, SameMachine DEF TypeOK, CompareInv, ChosenInv
    <3> QED
      BY <3>3, <3>4
  <2> QED
    BY <2>1, <2>2
<1>3. ASSUME NEW t \in Threads, RunInit(t) PROVE ClockInv'
  <2>1. /\ pc[t] = "init" /\ pc' = [pc EXCEPT ![t] = "load_bits"]
        /\ base_freq' = IF n[t] = X86 THEN X86Frequency ELSE base_freq
        /\ UNCHANGED <<cpuid, muclock_inited, chosen_clock, loc, returned>>
    BY <1>3 DEF RunInit
  <2>2. TypeOK'
    BY <2>1, X86FrequencyNat DEF TypeOK
  <2>3. X86Ready => X86Ready'
    BY <2>1, ReadyStays
  <2>4. n[t] = X86 => X86Ready'
    BY <2>1, SameMachine DEF X86Ready
  <2>5. ReadyInv'
    BY <2>1, <2>3, <2>4 DEF ReadyInv, TypeOK
  <2>6. CompareInv' /\ ChosenInv'
    BY <2>1, SameMachine DEF TypeOK, CompareInv, ChosenInv
  <2> QED
    BY <2>2, <2>5, <2>6
<1>4. ASSUME NEW t \in Threads, LoadBits(t) PROVE ClockInv'
  <2>1. /\ pc[t] = "load_bits" /\ pc' = [pc EXCEPT ![t] = "store_bits"]
        /\ bits' = [bits EXCEPT ![t] = muclock_inited]
        /\ UNCHANGED <<globals, n, best, default, returned>>
    BY <1>4 DEF LoadBits
  <2>2. X86Ready' = X86Ready
    BY <2>1, SameMachine DEF X86Ready
  <2>3. TypeOK' /\ ReadyInv'
    BY <2>1, <2>2 DEF TypeOK, ReadyInv
  <2>4. CompareInv' /\ ChosenInv'
    BY <2>1, SameMachine DEF TypeOK, CompareInv, ChosenInv
  <2> QED
    BY <2>3, <2>4
<1>5. ASSUME NEW t \in Threads, StoreBits(t) PROVE ClockInv'
  <2>1. muclock_inited' = bits[t] \union {n[t]} /\ pc[t] = "store_bits"
    BY <1>5 DEF StoreBits
  <2>2. n[t] = X86 => X86Ready
    BY <2>1 DEF ReadyInv
  <2>3. /\ n[t] \in muclock_inited' /\ muclock_inited' \subseteq Clocks
        /\ X86 \in muclock_inited' => X86Ready
    BY <2>1, <2>2 DEF ReadyInv, TypeOK
  <2> QED
    BY <1>5, <2>1, <2>2, <2>3, RoundInv DEF StoreBits
<1>6. ASSUME NEW t \in Threads, Compare(t) PROVE ClockInv'
  <2>1. pc[t] = "choose" /\ UNCHANGED <<globals, bits, default, returned>>
    BY <1>6 DEF Compare
  <2>2. n[t] \in Clocks /\ best[t] \in Clocks \union {NULL}
    BY DEF TypeOK
  <2>3. BestOf(best[t], n[t] - 1) /\ X86Ready
    BY <2>1 DEF CompareInv, ReadyInv
  <2>4. best'[t] = (IF Freq(n[t]) > (IF best[t] = NULL THEN 0 ELSE Freq(best[t]))
                   THEN n[t] ELSE best[t])
    BY <1>6 DEF Compare, BestFreq, TypeOK
  <2>5. BestOf(best'[t], n[t])
    BY <2>2, <2>3, <2>4, BestStep
  <2>6. /\ n' \in [Threads -> Clocks]
        /\ n'[t] = IF n[t] < NumClocks THEN n[t] + 1 ELSE 1
        /\ \A u \in Threads : u # t => /\ n'[u] = n[u] /\ pc'[u] = pc[u]
                                       /\ best'[u] = best[u]
    BY <1>6, NextIndexInRange DEF Compare, TypeOK
  <2>7. TypeOK'
    BY <1>6, <2>1, <2>6 DEF Compare, TypeOK
  <2>8. pc'[t] = (IF n[t] < NumClocks THEN "choose" ELSE "store")
    BY <1>6 DEF Compare, TypeOK
  <2>9. X86Ready' = X86Ready
    BY <2>1, SameMachine DEF X86Ready
  <2>10. ReadyInv'
    BY <2>1, <2>3, <2>6, <2>8, <2>9 DEF ReadyInv
  <2>11. CompareInv'
    <3>1. pc'[t] = "choose" => n'[t] - 1 = n[t]
      BY <2>2, <2>6, <2>8 DEF Clocks
    <3>2. pc'[t] = "store" => n[t] = NumClocks
      BY <2>2, <2>8 DEF Clocks
    <3>3. \A b, k : BestOf(b, k)' = BestOf(b, k)
      BY <2>1, SameMachine
    <3> SUFFICES ASSUME NEW u \in Threads
                 PROVE  (/\ pc[u] \in {"test", "init", "load_bits", "store_bits"}
                              => best[u] = NULL
                         /\ pc[u] = "choose" => BestOf(best[u], n[u] - 1)
                         /\ pc[u] = "store" => BestOf(best[u], NumClocks))'
      BY DEF CompareInv
    <3>4. CASE u = t
      BY <2>5, <2>8, <3>1, <3>2, <3>3, <3>4
    <3>5. CASE u # t
      BY <2>6, <3>3, <3>5 DEF CompareInv
    <3> QED
      BY <3>4, <3>5
  <2>12. ChosenInv'
    BY <2>1, SameMachine DEF ChosenInv
  <2> QED
    BY <2>7, <2>10, <2>11, <2>12
<1>7. ASSUME NEW t \in Threads, StoreChosen(t) PROVE ClockInv'
  <2>1. /\ pc[t] = "store" /\ pc' = [pc EXCEPT ![t] = "return"]
        /\ chosen_clock' = best[t]
        /\ UNCHANGED <<cpuid, muclock_inited, base_freq, loc, returned>>
    BY <1>7 DEF StoreChosen
  <2>2. X86Ready /\ X86Ready' /\ BestOf(best[t], NumClocks)
    BY <2>1, SameMachine DEF ReadyInv, CompareInv, X86Ready
  <2>3. chosen_clock # NULL => chosen_clock' = chosen_clock
    BY <2>1, <2>2, BestUnique DEF ChosenInv
  <2>4. TypeOK' /\ ReadyInv'
    BY <2>1, <2>2 DEF TypeOK, ReadyInv
  <2>5. CompareInv'
    BY <2>1, SameMachine DEF TypeOK, CompareInv
  <2>6. ChosenInv'
    BY <2>1, <2>2, <2>3, SameMachine DEF ChosenInv
  <2> QED
    BY <2>4, <2>5, <2>6
<1>8. ASSUME NEW t \in Threads, Return(t) PROVE ClockInv'
  <2>1. /\ pc[t] = "return" /\ pc' = [pc EXCEPT ![t] = "idle"]
        /\ returned' = [returned EXCEPT ![t] = chosen_clock]
        /\ UNCHANGED <<globals, loc>>
    BY <1>8 DEF Return
  <2>2. X86Ready' = X86Ready
    BY <2>1, SameMachine DEF X86Ready
  <2>3. TypeOK' /\ ReadyInv'
    BY <2>1, <2>2 DEF TypeOK, ReadyInv
  <2>4. CompareInv' /\ ChosenInv'
    BY <2>1, SameMachine DEF TypeOK, CompareInv, ChosenInv
  <2> QED
    BY <2>3, <2>4
<1>9. CASE UNCHANGED vars
  <2>1. UNCHANGED <<cpuid, muclock_inited, base_freq, chosen_clock, pc, n, bits,
                    best, default, returned>>
    BY <1>9 DEF vars
  <2>2. X86Ready' = X86Ready
    BY <2>1, SameMachine DEF X86Ready
  <2>3. TypeOK' /\ ReadyInv'
    BY <2>1, <2>2 DEF TypeOK, ReadyInv
  <2>4. CompareInv' /\ ChosenInv'
    BY <2>1, SameMachine DEF CompareInv, ChosenInv
  <2> QED
    BY <2>3, <2>4
<1> QED
  BY <1>1, <1>2, <1>3, <1>4, <1>5, <1>6, <1>7, <1>8, <1>9 DEF Next, Step

(* The race for the default clock keeps the invariant. *)
THEOREM ClockCorrect == Spec => []ClockInv
BY ClockInitInv, ClockNextInv, PTL DEF Spec

(***************************************************************************)
(* However many threads race through muclock_get_default, the clock that   *)
(* is published is the fastest of the machine, and it is initialised.      *)
(***************************************************************************)
THEOREM DefaultIsBest == Spec => []ChosenIsBest
<1>1. ClockInv => ChosenIsBest
  <2> SUFFICES ASSUME ClockInv, chosen_clock # NULL
               PROVE  IsBest(chosen_clock)
                      /\ Freq(chosen_clock) = TrueFreq(chosen_clock)
    BY DEF ChosenIsBest
  <2>1. chosen_clock \in Clocks /\ BestOf(chosen_clock, NumClocks) /\ X86Ready
    BY DEF ClockInv, ChosenInv, ReadyInv, TypeOK
  <2>2. Freq(chosen_clock) = TrueFreq(chosen_clock)
    BY <2>1, FreqTrue
  <2> QED
    BY <2>1, <2>2, MuClockAssumption DEF BestOf, IsBest, Clocks
<1> QED
  BY <1>1, ClockCorrect, PTL

(***************************************************************************)
(* The second and every later store to chosen_clock writes what is there   *)
(* already: the clock is never exchanged for another.                      *)
(***************************************************************************)
LEMMA ChosenStays ==
  ClockInv /\ [Next]_vars => (chosen_clock # NULL => chosen_clock' = chosen_clock)
<1> SUFFICES ASSUME ClockInv, [Next]_vars, chosen_clock # NULL
             PROVE  chosen_clock' = chosen_clock
  OBVIOUS
<1>1. ASSUME NEW t \in Threads, StoreChosen(t) PROVE chosen_clock' = chosen_clock
  <2>1. chosen_clock' = best[t] /\ BestOf(best[t], NumClocks)
    BY <1>1 DEF StoreChosen, Goto, ClockInv, CompareInv
  <2> QED
    BY <2>1, BestUnique DEF ClockInv, ChosenInv
<1> QED
  BY <1>1 DEF Next, Step, GetDefinitions, GetDefault, Begin, TestBit, RunInit,
              LoadBits, StoreBits, Compare, Return, vars, globals

(* The default clock, once muclock_get_default has stored it, never changes. *)
THEOREM DefaultForGood == Spec => ChosenForGood
<1>1. ClockInv /\ [Next]_vars
        => [chosen_clock # NULL => chosen_clock' = chosen_clock]_vars
  BY ChosenStays
<1> QED
  BY <1>1, ClockCorrect, PTL DEF Spec, ChosenForGood
=============================================================================
