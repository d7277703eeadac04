------------------------------- MODULE MCToken -------------------------------
(* Instance of Token: the contract (issuer of its token), the treasury, one  *)
(* user, and one name that is not an account (it can only have a row opened  *)
(* for it).                                                                  *)
EXTENDS Token

MCAccounts == {1, 2, 3}
MCLevels == {2} \X {"active", "spend"}

=============================================================================
