----------------------------- MODULE MCDatabase -----------------------------
(* Two peers. *)
EXTENDS Database
CONSTANTS a1, a2
MCAddrs == {a1, a2}
MCAddr == {a1}
=============================================================================
