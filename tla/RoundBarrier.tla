---------------------------- MODULE RoundBarrier ----------------------------
(***************************************************************************)
(* What a multi-party protocol that advances in rounds promises: in each   *)
(* session, a member posts its message of the next round only when every   *)
(* member has posted its message of the current one.  No secret that a     *)
(* round reveals is on the board before all commitments to it are.         *)
(***************************************************************************)
EXTENDS Integers

CONSTANTS
    Sessions,   \* uuids
    Members,    \* party numbers
    LastRound   \* number of rounds

VARIABLE level  \* level[s][i]: rounds member i of session s has posted

Init == level = [s \in Sessions |-> [i \in Members |-> 0]]

Post(s, i) ==
    /\ level[s][i] < LastRound
    /\ \A j \in Members : level[s][j] >= level[s][i]
    /\ level' = [level EXCEPT ![s][i] = @ + 1]

Next == \E s \in Sessions, i \in Members : Post(s, i)

Spec == Init /\ [][Next]_level

=============================================================================
