------------------------- MODULE MCDaemonLifecycle -------------------------
(***************************************************************************)
(* DaemonLifecycle for TLC: processes are interchangeable.                 *)
(***************************************************************************)
EXTENDS DaemonLifecycle, TLC

Symmetry == Permutations(Daemons)
=============================================================================
