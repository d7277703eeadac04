------------------------------ MODULE MCKeyGen ------------------------------
(* One process more than a session has parties, so that sign-ups that read   *)
(* an old value can give a number to two processes.                          *)
EXTENDS KeyGen

=============================================================================
