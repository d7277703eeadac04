------------------------------- MODULE MCSign -------------------------------
(* Signers with the key files of one key generation and the same message;     *)
(* and three mistakes on the command line of the second: the key file of the  *)
(* first, the file of another key, and another message.                       *)
EXTENDS Sign

CONSTANTS p1, p2, p3

Files(second) ==
    [p \in Procs |-> IF p = p1 THEN [party_id |-> 1, key |-> 1]
                     ELSE IF p = p2 THEN second
                     ELSE [party_id |-> 3, key |-> 1]]

Messages(second) == [p \in Procs |-> IF p = p2 THEN second ELSE 0]

Good == [file |-> Files([party_id |-> 2, key |-> 1]), message |-> Messages(0)]

MCSetups ==
    {Good,
     [file |-> Files([party_id |-> 1, key |-> 1]), message |-> Messages(0)],
     [file |-> Files([party_id |-> 2, key |-> 2]), message |-> Messages(0)],
     [file |-> Files([party_id |-> 2, key |-> 1]), message |-> Messages(1)]}

GoodSetups == {Good}

=============================================================================
