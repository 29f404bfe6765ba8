---------------------------- MODULE MCOracleXA ----------------------------
(* Small instances of OracleXA for TLC. *)
EXTENDS OracleXA, TLC

Symmetry == Permutations(Conn) \cup Permutations(Worker)
=============================================================================
