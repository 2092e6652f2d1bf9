---------------------------- MODULE MCCondWin32 ----------------------------
(* Small instances of CondWin32 for TLC. *)
EXTENDS CondWin32, TLC

Symmetry == Permutations(Waiters) \union Permutations(Signallers)
=============================================================================
