-------------------------------- MODULE Sign --------------------------------
(***************************************************************************)
(* sign: t + 1 processes with key files of generate_key sign a message in  *)
(* ten rounds, over the board of a vDexNode server.                        *)
(*                                                                         *)
(* The cryptography is ideal: commitments bind, ciphertexts open under     *)
(* their own key, proofs are sound, and a sum of values that were not      *)
(* computed to fit each other does not pass a check by accident.           *)
(* ThresholdEcdsa shows, over a small group, that the checks of phase 5    *)
(* accept exactly the sums taken here to be valid.                         *)
(***************************************************************************)
EXTENDS Client

CONSTANT Setups  \* command lines: key file (party_id and key) and message of each process

ASSUME SetupsAssumption ==
    \A s \in Setups :
        /\ DOMAIN s = {"file", "message"}
        /\ \A p \in Procs : /\ DOMAIN s.file[p] = {"party_id", "key"}
                            /\ s.message[p] \in Nat

Rounds == 0..9

VARIABLE setup  \* one of Setups

vars == <<clientVars, setup>>

Init == ClientInit(Rounds, -1) /\ setup \in Setups

file(p) == setup.file[p]
message(p) == setup.message[p]

Others(p) == Numbers \ {party[p].number}

-----------------------------------------------------------------------------
\* signers_vec: the party_id that each party posted in round 0.
signers_vec(p) == [i \in Numbers |-> file(View(p, 0)[i]).party_id]

\* map_share_to_new_params: the Lagrange coefficient of `id` in signers_vec is
\* determined by how often each other id occurs.
Lagrange(id, signers) ==
    [other \in {signers[i] : i \in Numbers} \ {id} |->
        Cardinality({i \in Numbers : signers[i] = other})]

\* w_i of SignKeys::create, a multiple of the share x_i in the key file.
w(p) == <<file(p), Lagrange(file(p).party_id, signers_vec(p))>>

\* update_commitments_to_xi: the commitment to w_i that p expects of party i.
g_w(p, i) ==
    <<[party_id |-> signers_vec(p)[i], key |-> file(p).key],
      Lagrange(signers_vec(p)[i], signers_vec(p))>>

\* verify_proofs_get_alpha: q multiplied what p encrypted, with the Paillier
\* key of p.
AlphaVerifies(p, q) ==
    /\ View(q, 1)[party[p].number] = p
    /\ [party_id |-> signers_vec(q)[party[p].number], key |-> file(q).key] = file(p)

\* "wrong dlog or m_b", and assert_eq!(m_b.b_proof.pk, g_w_i).
MessagesBVerify(p) ==
    \A i \in Others(p) : /\ AlphaVerifies(p, View(p, 2)[i])
                         /\ w(View(p, 2)[i]) = g_w(p, i)

\* phase4: g_gamma_i is that of the message B and opens the commitment.
GammasOpen(p) ==
    \A i \in Others(p) : /\ View(p, 4)[i] = View(p, 2)[i]
                         /\ View(p, 4)[i] = View(p, 1)[i]

\* R: the sum of all g_gamma_i, times the inverse of the sum of all delta_i.
R(p) == <<View(p, 4), View(p, 3)>>

\* phase5c: the commitments open, and each ElGamal proof is about the own R.
ElGamalVerifies(p) ==
    \A i \in Others(p) : /\ View(p, 6)[i] = View(p, 5)[i]
                         /\ R(View(p, 6)[i]) = R(p)

\* The parts of the processes of the vector `signers` fit: they multiplied
\* each other's values, and hold as many shares of one key as signers_vec
\* has entries.
PartsFit(signers) ==
    /\ \A i \in Numbers : /\ View(signers[i], 1) = signers
                          /\ View(signers[i], 2) = signers
                          /\ R(signers[i]) = <<signers, signers>>
                          /\ file(signers[i]).key = file(signers[1]).key
                          /\ signers_vec(signers[i]) = signers_vec(signers[1])
    /\ Cardinality({file(signers[i]).party_id : i \in Numbers}) = Limit

\* The s_i of `signers` add up to a signature on the message of each of them.
SumIsSignature(signers) ==
    /\ PartsFit(signers)
    /\ \A i \in Numbers : message(signers[i]) = message(signers[1])

\* Fault: only the commitments of round 7 are checked.
CommitmentsOnly(p) == View(p, 8) = View(p, 7)

\* phase5d: the commitments open, and the sum of t_i + B_i - u_i vanishes, that
\* is all took the same A_i, B_i, V_i and the V_i add up to a signature.
SumVanishes(p) ==
    /\ View(p, 8) = View(p, 7)
    /\ \A i \in Numbers : View(View(p, 8)[i], 6) = View(p, 6)
    /\ View(p, 6) = View(p, 8)
    /\ SumIsSignature(View(p, 8))

\* output_signature: the sum of s_i verifies.
SignatureVerifies(p) == View(p, 9) = View(p, 6) /\ SumIsSignature(View(p, 9))

-----------------------------------------------------------------------------
\* Round 0: the own party_id.
round0(p) ==
    /\ status[p] = "run" /\ round[p] = -1
    /\ broadcast(p, 0)

\* Round 1: SignKeys::create, the commitment to gamma_i and the message A.
phase1_broadcast(p) ==
    /\ Completed(p, 0)
    /\ broadcast(p, 1)

\* Round 2: the messages B, one party after the other.
send_m_b(p) ==
    /\ Completed(p, 1) \/ (status[p] = "run" /\ round[p] = 2)
    /\ sendp2p(p, 2)

\* Round 3: delta_i.
phase2_delta(p) ==
    /\ Completed(p, 2)
    /\ Expect(p, MessagesBVerify(p), broadcast(p, 3))

\* Round 4: g_gamma_i.
decommit(p) ==
    /\ Completed(p, 3)
    /\ broadcast(p, 4)

\* Round 5: phase4, the local signature, and the commitment of phase 5a.
phase4_phase5a(p) ==
    /\ Completed(p, 4)
    /\ Expect(p, GammasOpen(p), broadcast(p, 5))

\* Round 6: phase 5b.
phase5b(p) ==
    /\ Completed(p, 5)
    /\ broadcast(p, 6)

\* Round 7: phase 5c.
phase5c(p) ==
    /\ Completed(p, 6)
    /\ Expect(p, ElGamalVerifies(p), broadcast(p, 7))

\* Round 8: the decommitment of phase 5d.
decommit5d(p) ==
    /\ Completed(p, 7)
    /\ broadcast(p, 8)

\* Round 9: phase 5d, which reveals s_i.
phase5d(p) ==
    /\ Completed(p, 8)
    /\ Expect(p, SumVanishes(p), broadcast(p, 9))

\* The signature is verified and saved.
output_signature(p) ==
    /\ Completed(p, 9)
    /\ Expect(p, SignatureVerifies(p), finish(p))

\* The program of a process, without faults.
Step(p) ==
    /\ \/ signup(p)
       \/ round0(p)
       \/ \E r \in Rounds \ {2} : poll_for_broadcasts(p, r)
       \/ poll_for_p2p(p, 2)
       \/ phase1_broadcast(p)
       \/ send_m_b(p)
       \/ phase2_delta(p)
       \/ decommit(p)
       \/ phase4_phase5a(p)
       \/ phase5b(p)
       \/ phase5c(p)
       \/ decommit5d(p)
       \/ phase5d(p)
       \/ output_signature(p)
       \/ refused(p)
    /\ UNCHANGED setup

Next == \E p \in Procs : Step(p) \/ (Fail(p) /\ UNCHANGED setup)

\* The operating system runs every process, and a poll is repeated until the
\* value that was put arrives.
Fairness == \A p \in Procs : WF_vars(Step(p))

Spec == Init /\ [][Next]_vars /\ Fairness

-----------------------------------------------------------------------------
\* The ranges of the variables of the server and of the processes.
TypeOK == ClientTypeOK(Rounds, -1) /\ setup \in Setups

\* A process reveals its part s_i (round 9) only if t + 1 processes that hold
\* different shares of its key were started with its message and took part in
\* its session, whatever command lines, numbers and faults there were.
RevealNeedsQuorum ==
    \A e \in board : e.round = 9 =>
        \E Q \in SUBSET Joined :
            /\ e.by \in Q
            /\ Cardinality({file(q).party_id : q \in Q}) = Limit
            /\ \A q \in Q : /\ message(q) = message(e.by)
                            /\ file(q).key = file(e.by).key
                            /\ party[q].uuid = e.uuid

\* Processes with the same message and different shares of one key in session s.
Honest(s) ==
    \A p, q \in Joined : party[p].uuid = s /\ party[q].uuid = s =>
        /\ message(p) = message(q)
        /\ file(p).key = file(q).key
        /\ p # q => file(p).party_id # file(q).party_id

\* sign implements the round barrier: no party posts before all others have
\* posted the round before, so nobody learns a value that it should have
\* committed to first.
Barrier == INSTANCE RoundBarrier WITH
    Members <- Numbers,
    LastRound <- 10,
    level <- [s \in Sessions |-> [i \in Numbers |-> Posted(s, i, 0)]]

ImplementsBarrier == Barrier!Spec

\* Once t + 1 honest processes have signed up in a session, they all output a
\* signature, unless there is a fault.
FullSessionsSign ==
    \A s \in Sessions :
        Full(s) /\ Honest(s)
            ~> (history.faults > 0 \/ \A p \in Joined : party[p].uuid = s => status[p] = "done")

\* "Once t+1 parties join the protocol will run and will output to screen
\* signatue (R,s)" (vDexNode/README.md), as long as no process is killed.
JoinedThenSigned ==
    \A P \in SUBSET Procs :
        Cardinality(P) = Limit =>
            (P \subseteq Joined /\ \A p \in P : status[p] # "panic")
                ~> \E p \in Procs : status[p] = "panic" \/ (p \in P /\ status[p] = "done")

=============================================================================
