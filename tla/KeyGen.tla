------------------------------- MODULE KeyGen -------------------------------
(***************************************************************************)
(* generate_key: processes that sign up at a vDexNode server and generate  *)
(* the shares of a common key in five rounds, over the server's board.     *)
(*                                                                         *)
(* The cryptography is ideal: a commitment opens only to what was          *)
(* committed, a ciphertext opens only under its key, and a share verifies  *)
(* only against the scheme it was made with.                               *)
(***************************************************************************)
EXTENDS Client

Rounds == 1..5

vars == clientVars

Init == ClientInit(Rounds, 0)

\* The vectors bc1_vec, decom_vec, party_shares and vss_scheme_vec of process
\* p: who wrote the value it holds for each party.
bc1_vec(p) == View(p, 1)
decom_vec(p) == View(p, 2)
party_shares(p) == View(p, 3)
vss_scheme_vec(p) == View(p, 4)

-----------------------------------------------------------------------------
\* Keys::create and round 1: commitment to y_i, and the Paillier key.
commit(p) ==
    /\ status[p] = "run" /\ round[p] = 0
    /\ broadcast(p, 1)

\* Round 2: the decommitment.
decommit(p) ==
    /\ Completed(p, 1)
    /\ broadcast(p, 2)

\* phase1_verify_com_phase3_verify_correct_key_phase2_distribute: the
\* decommitment of every party opens its commitment.
CommitmentsOpen(p) == \A i \in Numbers : decom_vec(p)[i] = bc1_vec(p)[i]

\* Round 3: a share for every other party, one after the other; what was
\* checked before the first does not change.
distribute(p) ==
    /\ Completed(p, 2) \/ (status[p] = "run" /\ round[p] = 3)
    /\ Expect(p, CommitmentsOpen(p), sendp2p(p, 3))

\* enc_keys: the share for party i is encrypted under the sum of y_i and the
\* own y.
EncKey(p, i) == {p, decom_vec(p)[i]}

\* Fault: a ciphertext that does not decrypt is taken as it is.
AnyShares(p) == TRUE

\* assert!(result): every share decrypts, so its sender used the same key.
SharesDecrypt(p) ==
    \A i \in Numbers \ {party[p].number} :
        EncKey(party_shares(p)[i], party[p].number) = EncKey(p, i)

\* Round 4: the commitments to the polynomial.
publish_vss(p) ==
    /\ Completed(p, 3)
    /\ Expect(p, SharesDecrypt(p), broadcast(p, 4))

\* phase2_verify_vss_construct_keypair_phase3_pok_dlog: every share is on the
\* polynomial its scheme commits to, which is that of y_i.
SharesVerify(p) ==
    \A i \in Numbers : /\ vss_scheme_vec(p)[i] = party_shares(p)[i]
                       /\ vss_scheme_vec(p)[i] = decom_vec(p)[i]

\* Round 5: the proof of knowledge of x_i.
prove(p) ==
    /\ Completed(p, 4)
    /\ Expect(p, SharesVerify(p), broadcast(p, 5))

\* verify_dlog_proofs compares nothing with y_vec, and a proof is valid on its
\* own; the key file is written.
save(p) ==
    /\ Completed(p, 5)
    /\ finish(p)

\* The program of a process, without faults.
Step(p) ==
    \/ signup(p)
    \/ commit(p)
    \/ \E r \in Rounds \ {3} : poll_for_broadcasts(p, r)
    \/ poll_for_p2p(p, 3)
    \/ decommit(p)
    \/ distribute(p)
    \/ publish_vss(p)
    \/ prove(p)
    \/ save(p)
    \/ refused(p)

Next == \E p \in Procs : Step(p) \/ Fail(p)

\* The operating system runs every process, and a poll is repeated until the
\* value that was put arrives.
Fairness == \A p \in Procs : WF_vars(Step(p))

Spec == Init /\ [][Next]_vars /\ Fairness

-----------------------------------------------------------------------------
\* The ranges of the variables of the server and of the processes.
TypeOK == ClientTypeOK(Rounds, 0)

\* As long as every sign-up saw the party put before it, no two processes hold
\* the same number in the same session, however requests, lost answers and
\* crashes interleave.
NumbersUnique ==
    ~history.stale => \A p, q \in Joined : party[p] = party[q] => p = q

\* A process that wrote its key file added up shares of exactly the processes
\* whose public parts make up its public key, and each of those counted it as
\* the holder of its number; even if stale sign-ups gave a number to several.
SharesMutual ==
    \A p \in Procs : status[p] = "done" =>
        \A i \in Numbers \ {party[p].number} :
            LET q == decom_vec(p)[i]
            IN  /\ bc1_vec(p)[i] = q /\ party_shares(p)[i] = q /\ vss_scheme_vec(p)[i] = q
                /\ party[q] = [number |-> i, uuid |-> party[p].uuid]
                /\ decom_vec(q)[party[p].number] = p

\* A single process of session s holds number i.
Sole(s, i) ==
    \A p, q \in Procs : party[p] = [number |-> i, uuid |-> s] /\ party[q] = party[p] => p = q

\* Key files of one session agree on the public key, on every Paillier key and
\* on every scheme if one of the session's numbers was not given twice, even if
\* all others were and some processes crashed: the shares of the holder of that
\* number decrypt for one process of each number only.
KeysAgree ==
    \A p, q \in Procs :
        /\ status[p] = "done" /\ status[q] = "done"
        /\ party[p].uuid = party[q].uuid
        /\ \E i \in Numbers : Sole(party[p].uuid, i)
        => /\ decom_vec(p) = decom_vec(q)
           /\ bc1_vec(p) = bc1_vec(q)
           /\ vss_scheme_vec(p) = vss_scheme_vec(q)

\* generate_key implements the round barrier: in particular no decommitment is
\* on the board before all commitments of the session are.
Barrier == INSTANCE RoundBarrier WITH
    Members <- Numbers,
    LastRound <- 5,
    level <- [s \in Sessions |-> [i \in Numbers |-> Posted(s, i, 1)]]

ImplementsBarrier == Barrier!Spec

\* Once the parties of a session have all signed up, they all write their key
\* files, unless a process crashes, an answer is lost or a sign-up is stale.
FullSessionsFinish ==
    \A s \in Sessions :
        Full(s) ~> (history.faults > 0 \/ \A p \in Joined : party[p].uuid = s => status[p] = "done")

=============================================================================
