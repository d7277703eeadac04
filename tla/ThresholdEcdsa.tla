--------------------------- MODULE ThresholdEcdsa ---------------------------
(***************************************************************************)
(* The arithmetic of generate_key and sign, between parties that receive   *)
(* what the others sent: Keys, SignKeys and LocalSignature of              *)
(* key_gen_utils.rs and the multiplication to addition of sign_utils.rs.   *)
(*                                                                         *)
(* FE is the field of Q elements.  GE, the group of order Q, is written    *)
(* additively by discrete logarithms: a is the point a * G.  A Paillier    *)
(* plaintext is a number modulo N.  A signer is a position of signers_vec. *)
(* A value that no later step reads is dropped from `data`.                *)
(***************************************************************************)
EXTENDS Integers, FiniteSets, FiniteSetsExt

CONSTANTS
    Q,            \* order of the group, a prime
    N,            \* Paillier modulus
    SHARE_COUNT,  \* parties of the key, fewer than Q
    THRESHOLD,    \* t: one signer more can sign
    Coefficients, \* bound: coefficients of the polynomials of key generation
    Nonces,       \* bound: k_i, gamma_i, l_i and rho_i
    BetaTags,     \* bound: samples below N
    Signers,      \* values of signers_vec, possibly with an id twice
    Messages      \* the messages of the signers, possibly not all the same

FE == 0..(Q - 1)
Ids == 1..SHARE_COUNT
Positions == 1..(THRESHOLD + 1)

ASSUME EcdsaAssumption ==
    /\ Q \in Nat /\ N \in Nat /\ N > Q * Q
    /\ SHARE_COUNT \in 1..(Q - 1)
    /\ THRESHOLD \in 1..(SHARE_COUNT - 1)
    /\ Coefficients \subseteq FE /\ Nonces \subseteq FE
    /\ BetaTags \subseteq 0..(N - 1)
    /\ Signers \subseteq [Positions -> Ids]
    /\ Messages \subseteq [Positions -> FE]

VARIABLES
    phase,  \* the step the parties are at, or "failed"
    key,    \* after key generation: shares x, their commitments, public key y
    data    \* the values of the signers

vars == <<phase, key, data>>

\* Arithmetic of FE.
Sum(f(_), S) == MapThenSumSet(f, S) % Q
Product(f(_), S) == MapThenFoldSet(LAMBDA a, b : (a * b) % Q, 1, f, LAMBDA s : CHOOSE x \in s : TRUE, S)
Invert(a) == CHOOSE b \in FE : (a * b) % Q = 1
Neg(a) == (Q - a) % Q

\* The x coordinate of a point modulo Q: the same for a point and its negative.
x_coor(point) == (point * point) % Q

-----------------------------------------------------------------------------
(* Key generation.  polynomials[j][0] is u_j, and each polynomial has        *)
(* THRESHOLD further coefficients.                                           *)

\* VerifiableSS::share: the share of party i in u_j.
Share(polynomial, i) ==
    Sum(LAMBDA d : polynomial[d] * i^d, DOMAIN polynomial)

\* get_point_commitment: the same, computed from the commitments.
get_point_commitment(commitments, i) ==
    Sum(LAMBDA d : commitments[d] * i^d, DOMAIN commitments)

\* phase2_verify_vss_construct_keypair: x_i is the sum of the shares received.
construct_x(polynomials) ==
    [i \in Ids |-> Sum(LAMBDA j : Share(polynomials[j], i), Ids)]

construct_y(polynomials) == Sum(LAMBDA j : polynomials[j][0], Ids)

get_commitments_to_xi(polynomials) ==
    [i \in Ids |-> Sum(LAMBDA j : get_point_commitment(polynomials[j], i), Ids)]

-----------------------------------------------------------------------------
(* Signing, up to the multiplications.                                       *)

\* map_share_to_new_params: the coefficient of `id` in Lagrange interpolation
\* at 0, over the entries of s other than id.
map_share_to_new_params(id, s) ==
    LET others == {i \in Positions : s[i] # id}
    IN  (Product(LAMBDA i : s[i], others)
           * Invert(Product(LAMBDA i : (s[i] + Q - id) % Q, others))) % Q

\* SignKeys::create: w_i.
create_w(s) == [i \in Positions |-> (map_share_to_new_params(s[i], s) * key.x[s[i]]) % Q]

\* update_commitments_to_xi: the commitment to w_i that the others expect.
g_w(s) == [i \in Positions |-> (key.commitments[s[i]] * map_share_to_new_params(s[i], s)) % Q]

\* MessageA: the ciphertext of k_i.  MessageB: its product with b, plus
\* beta_tag, all modulo N.
MessageB(a, b, beta_tag) == (a * b + beta_tag) % N

\* Fault: the dlog proofs are checked but not the decrypted value.
AnyAlpha(a, b, beta_tag) == TRUE

\* verify_proofs_get_alpha: what was decrypted is b * a + beta_tag in FE too.
\* If the plaintext wrapped around N it is not.
AlphaVerifies(a, b, beta_tag) ==
    MessageB(a, b, beta_tag) % Q = (b * a + beta_tag) % Q

Pairs == {pair \in Positions \X Positions : pair[1] # pair[2]}

\* phase2_delta_i and phase2_sigma_i for b = gamma_i and b = w_i: the own
\* product, the alpha of each message received and the beta of each sent.
PartOfProduct(i, k, b, tags) ==
    (k[i] * b[i]
       + Sum(LAMBDA j : MessageB(k[i], b[j], tags[<<j, i>>]) % Q, Positions \ {i})
       + Sum(LAMBDA j : Neg(tags[<<i, j>>] % Q), Positions \ {i})) % Q

-----------------------------------------------------------------------------
(* Signing, phase 5.                                                         *)

\* Fault: r is not multiplied in.
WithoutR(k, m, R, sigma) == [i \in Positions |-> (m[i] * k[i] + sigma[i]) % Q]

\* phase5_local_sig: s_i.
phase5_local_sig(k, m, R, sigma) ==
    [i \in Positions |-> (m[i] * k[i] + x_coor(R) * sigma[i]) % Q]

\* V_i, A_i and B_i of phase5a_broadcast_5b_zkproof.
V_i(d, l, i) == (d.R * d.s[i] + l[i]) % Q
A_i(rho, i) == rho[i]
B_i(l, rho, i) == (l[i] * rho[i]) % Q

\* phase5c: u_i and t_i.
u_i(d, l, rho, i) ==
    ((Sum(LAMBDA j : V_i(d, l, j), Positions)
        + Neg(d.m[i]) + Neg((key.y * x_coor(d.R)) % Q)) * rho[i]) % Q
t_i(l, rho, i) == (Sum(LAMBDA j : A_i(rho, j), Positions \ {i}) * l[i]) % Q

\* Fault: B_i is left out of the sum.
WithoutB(d, l, rho) ==
    Sum(LAMBDA i : t_i(l, rho, i) + Neg(u_i(d, l, rho, i)), Positions) = 0

\* phase5d: g plus the sum of t_i + B_i - u_i is g.
phase5d_accepts(d, l, rho) ==
    Sum(LAMBDA i : t_i(l, rho, i) + B_i(l, rho, i) + Neg(u_i(d, l, rho, i)), Positions) = 0

\* Fault: every signature is taken to be one.
AnySignature(r, s, y, m) == TRUE

\* verify: the ECDSA equation.  `s` must have an inverse and the point an x
\* coordinate.
verify(r, s, y, m) ==
    /\ s # 0
    /\ LET point == (m * Invert(s) + y * ((r * Invert(s)) % Q)) % Q
       IN  point # 0 /\ x_coor(point) = r

-----------------------------------------------------------------------------
Init ==
    /\ phase = "keygen"
    /\ key = <<>>
    /\ data = <<>>

generate_key ==
    /\ phase = "keygen"
    /\ \E polynomials \in [Ids -> [0..THRESHOLD -> Coefficients]] :
          key' = [x |-> construct_x(polynomials),
                  commitments |-> get_commitments_to_xi(polynomials),
                  y |-> construct_y(polynomials)]
    /\ phase' = "create"
    /\ UNCHANGED data

\* SignKeys::create on every signer, with its share and its message.
create ==
    /\ phase = "create"
    /\ \E s \in Signers, m \in Messages, k, gamma \in [Positions -> Nonces] :
          data' = [signers |-> s, m |-> m, k |-> k, gamma |-> gamma, w |-> create_w(s)]
    /\ phase' = "mta"
    /\ UNCHANGED key

\* Rounds 1 to 3: the multiplications, "wrong dlog or m_b", and the comparison
\* of each g_w_i with the commitments of the key file.
multiply ==
    /\ phase = "mta"
    /\ \E tags_gamma, tags_w \in [Pairs -> BetaTags] :
          IF /\ \A pair \in Pairs :
                    /\ AlphaVerifies(data.k[pair[2]], data.gamma[pair[1]], tags_gamma[pair])
                    /\ AlphaVerifies(data.k[pair[2]], data.w[pair[1]], tags_w[pair])
             /\ data.w = g_w(data.signers)
          THEN /\ phase' = "phase4"
               /\ data' = [signers |-> data.signers, m |-> data.m, k |-> data.k,
                           gamma |-> data.gamma,
                           delta |-> [i \in Positions |->
                               PartOfProduct(i, data.k, data.gamma, tags_gamma)],
                           sigma |-> [i \in Positions |->
                               PartOfProduct(i, data.k, data.w, tags_w)]]
          ELSE /\ phase' = "failed"
               /\ data' = [why |-> IF data.w = g_w(data.signers) THEN "wrap" ELSE "g_w"]
    /\ UNCHANGED key

\* phase3_reconstruct_delta, phase4 and phase5_local_sig.  A delta of zero has
\* no inverse, and the point R must have an x coordinate.
phase4 ==
    /\ phase = "phase4"
    /\ LET delta == Sum(LAMBDA i : data.delta[i], Positions)
           gamma == Sum(LAMBDA i : data.gamma[i], Positions)
           R == (gamma * Invert(delta)) % Q
       IN  IF delta # 0 /\ gamma # 0
           THEN /\ phase' = "phase5a"
                /\ data' = [signers |-> data.signers, m |-> data.m, R |-> R,
                            s |-> phase5_local_sig(data.k, data.m, R, data.sigma)]
           ELSE /\ phase' = "failed"
                /\ data' = [why |-> "zero"]
    /\ UNCHANGED key

\* Rounds 5 to 9: blind, exchange, and reveal s_i only if the sum vanishes.
phase5 ==
    /\ phase = "phase5a"
    /\ \E l, rho \in [Positions -> Nonces] :
          IF phase5d_accepts(data, l, rho)
          THEN /\ phase' = "revealed"
               /\ data' = data
          ELSE /\ phase' = "failed"
               /\ data' = [why |-> "5d", signers |-> data.signers, m |-> data.m]
    /\ UNCHANGED key

\* The signature of party i, or "verification failed".
output_signature ==
    /\ phase = "revealed"
    /\ LET r == x_coor(data.R)
           s == Sum(LAMBDA i : data.s[i], Positions)
       IN  IF \A i \in Positions : verify(r, s, key.y, data.m[i])
           THEN /\ phase' = "signed"
                /\ data' = [r |-> r, s |-> s, m |-> data.m]
           ELSE /\ phase' = "failed"
                /\ data' = [why |-> "verify", signers |-> data.signers, m |-> data.m, s |-> s]
    /\ UNCHANGED key

Next ==
    \/ generate_key
    \/ create
    \/ multiply
    \/ phase4
    \/ phase5
    \/ output_signature

Spec == Init /\ [][Next]_vars

-----------------------------------------------------------------------------
Distinct(s) == \A i, j \in Positions : i # j => s[i] # s[j]
SameMessage(m) == \A i, j \in Positions : m[i] = m[j]

\* When every message B was accepted, the parts delta_i and sigma_i add up to
\* the products of the sums, although some plaintext may come close to N.
PartsAddUp ==
    phase = "phase4" =>
        LET k == Sum(LAMBDA i : data.k[i], Positions)
        IN  /\ Sum(LAMBDA i : data.delta[i], Positions)
                  = (k * Sum(LAMBDA i : data.gamma[i], Positions)) % Q
            /\ Distinct(data.signers) =>
                  Sum(LAMBDA i : data.sigma[i], Positions) = (k * key.y) % Q

\* The equation that the parts s_i must satisfy for the message of signer i.
Fits(i) ==
    (data.R * Sum(LAMBDA j : data.s[j], Positions)) % Q
        = (data.m[i] + x_coor(data.R) * key.y) % Q

\* Phase 5d is complete and sound: parts that fit pass whatever the blinding,
\* and parts that do not fit (a share used twice, different messages) pass for
\* one in Q choices of rho at most, whatever l is.
BlindingIsSound ==
    phase = "phase5a" =>
        \A l \in [Positions -> Nonces] :
            LET accepted == {rho \in [Positions -> FE] : phase5d_accepts(data, l, rho)}
            IN  IF \A i \in Positions : Fits(i)
                THEN accepted = [Positions -> FE]
                ELSE Cardinality(accepted) * Q <= Cardinality([Positions -> FE])

\* Different signers of one message fail only if a plaintext wraps around N,
\* the sum of k_i or of gamma_i is zero, or s is zero.
HonestSign ==
    phase = "failed" =>
        \/ data.why \in {"wrap", "zero"}
        \/ ~Distinct(data.signers)
        \/ ~SameMessage(data.m)
        \/ data.why = "verify" /\ data.s = 0

\* What is output is an ECDSA signature of every signer's message under the
\* public key: it has the secret key's s for the nonce that r belongs to.
SignatureIsValid ==
    phase = "signed" =>
        \A i \in Positions : \E k \in FE \ {0} :
            /\ x_coor(Invert(k)) = data.r
            /\ data.s = (k * (data.m[i] + data.r * key.y)) % Q

=============================================================================
