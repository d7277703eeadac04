----------------------------- MODULE MCCustodian -----------------------------
(* Two interchangeable oracles and 4-bit integers in place of 64-bit ones.   *)
EXTENDS Custodian, TLC

OraclePermutations == Permutations(Oracles)

=============================================================================
