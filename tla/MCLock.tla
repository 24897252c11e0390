------------------------------- MODULE MCLock -------------------------------
(* Small instances of Lock for TLC. *)
EXTENDS Lock, TLC

Perms == Permutations(Procs)
=============================================================================
