------------------------------ MODULE MCSched ------------------------------
(***************************************************************************)
(* Model values and symmetry for checking Sched.                           *)
(***************************************************************************)
EXTENDS Sched, TLC

Perms == Permutations(Tasks)
=============================================================================
