----------------------------- MODULE MCTracking -----------------------------
(* Two interchangeable threads that share a descriptor.  The addresses     *)
(* differ in the port only, so that the report cannot tell them apart.     *)
EXTENDS Tracking, TLC

CONSTANTS t1, t2

MCAddrs == {<<1, 1>>, <<1, 2>>}
MCThreads == {t1, t2}
MCFds == {3}
Symmetry == Permutations(MCThreads)
=============================================================================
