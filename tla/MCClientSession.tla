-------------------------- MODULE MCClientSession --------------------------
(* ClientSession for TLC: application threads are interchangeable. *)
EXTENDS ClientSession, TLC

Symmetry == Permutations(AppThreads)
=============================================================================
