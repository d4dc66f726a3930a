---------------------------- MODULE MCShieldPort ----------------------------
(* ShieldPort with three processes that connect and disconnect at will. *)
EXTENDS ShieldPort, TLC

CONSTANTS a, b, c, m

MCClient == {a, b, c}
MCMessage == {m}
Symmetry == Permutations(MCClient)
=============================================================================
