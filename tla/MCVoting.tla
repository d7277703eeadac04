------------------------------ MODULE MCVoting ------------------------------
(* Three accounts, all of which may be producers; the tokens are with the first.  One VTX  *)
(* is two units; a vote is counted in twelfths.  The ballots hold repeated   *)
(* names, the empty list, and a list over the limit.                         *)
EXTENDS Voting

MCSqrt == [t \in 0..9 |->
    CASE t < 1 -> 0 [] t < 4 -> 12 [] t < 9 -> 24 [] OTHER -> 36]
MCBallots == {<<>>, <<2, 3>>, <<3, 3>>, <<1, 1>>, <<1, 3, 3>>}
MCJobs == {{2}, {3}}
MCFunds == <<13, 0, 0>>

=============================================================================
