--------------------------- MODULE MCDistribution ---------------------------
(* Two nodes and two rules, one meant to have no standby nodes and one with  *)
(* a standby amount of 0, which the token contract refuses to transfer.      *)
EXTENDS Distribution

MCRules == {
    [reward_id |-> 2, reward_period |-> 2, reward_amount |-> 2, standby_amount |-> 1,
     rank_threshold |-> 1, standby_rank_threshold |-> 0],
    [reward_id |-> 2, reward_period |-> 1, reward_amount |-> 1, standby_amount |-> 0,
     rank_threshold |-> 1, standby_rank_threshold |-> 2]}

MCRankings == {<<1>>, <<1, 2>>, <<2, 1>>}

=============================================================================
