---------------------------- MODULE MCTimerManager ----------------------------
(* Instances of TimerManager for TLC. *)
EXTENDS TimerManager, TLC

\* Clients and idle threads are interchangeable.
Symmetry == Permutations(Clients) \union Permutations(Idlers)
================================================================================
