----------------------------- MODULE MCScheduler ------------------------------
(***************************************************************************)
(* Scheduler for TLC: service bodies call the interface in any order, with *)
(* few addresses, descriptors, flags and timers.                           *)
(***************************************************************************)
EXTENDS Scheduler, TLC

\* Addresses and descriptors are interchangeable.
Symm == Permutations(Svc) \cup Permutations(Fd)
===============================================================================
