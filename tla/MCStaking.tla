------------------------------ MODULE MCStaking ------------------------------
(* Memos that ask for no period and for too many, and one that wraps to one  *)
(* period.                                                                   *)
EXTENDS Staking

MCMemos == {0, 11, 65537}

=============================================================================
