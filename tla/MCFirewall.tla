----------------------------- MODULE MCFirewall -----------------------------
(* Two interchangeable CPUs, packets of one address in both directions.     *)
EXTENDS Firewall, TLC
CONSTANTS i1, i2, d4, d6, p1, c1, c2
MCIps == {i1}
MCDefault == {i2}
MCDsts == {d4, d6}
MCV6 == {d6}
MCPorts == {p1}
MCCpus == {c1, c2}
Symmetry == Permutations(MCCpus)
=============================================================================
