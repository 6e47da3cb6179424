------------------------------ MODULE MCScheduler ------------------------------
(* Instances of Scheduler for TLC. *)
EXTENDS Scheduler, TLC

\* Threads without pins, and fiber objects, are interchangeable.
Symmetry == Permutations(Workers) \union Permutations(Fibers)
================================================================================
