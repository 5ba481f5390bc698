------------------------------ MODULE MCMplex -------------------------------
(* Both ends may open a stream, both with the same number. *)
EXTENDS Mplex
MCNums == {1}
=============================================================================
