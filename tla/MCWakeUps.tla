------------------------------- MODULE MCWakeUps -------------------------------
(* Instances of WakeUps for TLC. *)
EXTENDS WakeUps, TLC

CONSTANTS k1, k2, k3, t1

\* One task is for a certain thread, the others for any.
OnePinned == k1 :> t1 @@ k2 :> None @@ k3 :> None
================================================================================
