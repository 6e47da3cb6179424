------------------------------ MODULE MCFdEvents ------------------------------
(* Instances of FdEvents for TLC. *)
EXTENDS FdEvents, TLC

\* Descriptors, waiters and idle threads are interchangeable.
Symmetry == Permutations(Fds) \union Permutations(Waiters) \union Permutations(Idlers)
================================================================================
