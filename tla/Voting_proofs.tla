--------------------------- MODULE Voting_proofs ---------------------------
(***************************************************************************)
(* Proofs about volentixvote for any number of accounts, any ballots and   *)
(* any weights the square root may give.                                   *)
(***************************************************************************)
EXTENDS Voting, TotalTheorems, FiniteSetTheorems

\* A name is on a ballot a natural number of times.
LEMMA OccurrencesType ==
    ASSUME NEW S, NEW ballot \in Seq(S), NEW p
    PROVE  Occurrences(p, ballot) \in Nat
  <1> DEFINE T == {i \in 1..Len(ballot) : ballot[i] = p}
  <1>1. Len(ballot) \in Nat
    OBVIOUS
  <1>2. IsFiniteSet(1..Len(ballot))
    BY <1>1, FS_Interval
  <1>3. T \subseteq 1..Len(ballot)
    OBVIOUS
  <1>4. IsFiniteSet(T)
    BY <1>2, <1>3, FS_Subset
  <1>5. Cardinality(T) \in Nat
    BY <1>4, FS_CardinalityType
  <1>6. QED
    BY <1>5 DEF Occurrences

\* An amount that fits is a number of tokens that has a square root.
LEMMA TokensType ==
    ASSUME NEW amount \in 0..(MaxTokens * vtx_precision)
    PROVE  TokensOf(amount) \in 0..MaxTokens
  <1> DEFINE q == amount \div vtx_precision
             r == amount % vtx_precision
  <1>1. /\ vtx_precision \in Nat /\ vtx_precision > 0 /\ MaxTokens \in Nat
        /\ MaxTokens * vtx_precision \in Nat
    BY VotingAssumption
  <1>2. /\ q \in Int /\ r \in 0..(vtx_precision - 1)
        /\ amount = vtx_precision * q + r
    BY <1>1
  <1> HIDE DEF q, r
  <1>3. q >= 0
    <2>1. CASE q <= -1
      <3>1. vtx_precision * q <= -vtx_precision
        BY <1>1, <1>2, <2>1, Z3
      <3>2. QED
        BY <1>1, <1>2, <3>1
    <2>2. QED
      BY <2>1, <1>2
  <1>4. q <= MaxTokens
    <2>1. CASE q >= MaxTokens + 1
      <3>1. vtx_precision * q >= vtx_precision * (MaxTokens + 1)
        BY <1>1, <1>2, <2>1, Z3
      <3>2. vtx_precision * (MaxTokens + 1) = MaxTokens * vtx_precision + vtx_precision
        BY <1>1, Z3
      <3>3. QED
        BY <1>1, <1>2, <3>1, <3>2
    <2>2. QED
      BY <2>1, <1>1, <1>2
  <1>5. QED
    BY <1>1, <1>2, <1>3, <1>4 DEF TokensOf, q

\* The weight of a ballot is a number of votes, or the infinity of an empty one.
LEMMA WeightType ==
    ASSUME NEW tokens \in 0..MaxTokens, NEW size \in Nat
    PROVE  VotesPerProd(tokens, size) \in Nat \cup {Infinity}
  <1>1. CASE size = 0
    BY <1>1 DEF VotesPerProd
  <1>2. CASE size # 0
    <2> DEFINE x == Sqrt[tokens]
               q == x \div size
               r == x % size
    <2>1. x \in Nat
      BY VotingAssumption
    <2> HIDE DEF x
    <2>2. q \in Int /\ r \in 0..(size - 1) /\ x = size * q + r
      BY <1>2, <2>1
    <2> HIDE DEF q, r
    <2>3. q >= 0
      <3>1. CASE q <= -1
        <4>1. size * q <= -size
          BY <1>2, <2>2, <3>1, Z3
        <4>2. QED
          BY <1>2, <2>1, <2>2, <4>1
      <3>2. QED
        BY <3>1, <2>2
    <2>4. QED
      BY <1>2, <2>2, <2>3 DEF VotesPerProd, q, x
  <1>3. QED
    BY <1>1, <1>2

-----------------------------------------------------------------------------
ProducerRow == [registered : BOOLEAN, is_active : BOOLEAN,
                job_ids : SUBSET (1..2), total_votes : Int]
VoterRow == [voted : BOOLEAN, producers : Seq(Accounts),
             votes_per_prod : Nat \cup {Infinity}, tokens : 0..MaxTokens]
Amount == 0..(MaxTokens * vtx_precision)

\* The inductive invariant: the tally cannot be shown to survive a recount
\* without knowing that the recount's checks pass.
VotingInv == TypeOK /\ TallyExact /\ RecountPasses

\* TypeOK as separate facts about the five tables.
LEMMA TypeParts ==
    TypeOK <=> /\ producers \in [Accounts -> ProducerRow]
               /\ voters \in [Accounts -> VoterRow]
               /\ staked \in [Accounts -> Amount]
               /\ stakedOld \in [Accounts -> Amount]
               /\ liquid \in [Accounts -> Amount]
  BY DEF TypeOK, ProducerRow, VoterRow, Amount

\* The share of a voter in a producer's votes is an integer.
LEMMA ShareType ==
    ASSUME TypeOK, NEW p \in Accounts, NEW v \in Accounts
    PROVE  Share(p, v) \in Int
  <1>1. /\ voters[v].producers \in Seq(Accounts)
        /\ voters[v].votes_per_prod \in Int
    BY TypeParts DEF VoterRow, Infinity
  <1>2. Occurrences(p, voters[v].producers) \in Nat
    BY <1>1, OccurrencesType
  <1>3. QED
    BY <1>1, <1>2 DEF Share

\* The initial tables satisfy the invariant.
LEMMA VotingInvInit == Init => VotingInv
  <1> SUFFICES ASSUME Init PROVE VotingInv
    OBVIOUS
  <1>0. <<>> \in Seq(Accounts) /\ Len(<<>>) = 0 /\ NumAccounts \in Nat /\ MaxTokens \in Nat
    BY VotingAssumption
  <1>1. NoProducer \in ProducerRow
    BY DEF NoProducer, ProducerRow
  <1>2. NoVoter \in VoterRow
    BY <1>0 DEF NoVoter, VoterRow
  <1>3. 0 \in Amount
    BY VotingAssumption DEF Amount
  <1>4. TypeOK
    <2>1. producers \in [Accounts -> ProducerRow] /\ voters \in [Accounts -> VoterRow]
      BY <1>1, <1>2 DEF Init
    <2>2. liquid \in [Accounts -> Amount]
      BY VotingAssumption DEF Init, Amount, Accounts
    <2>3. staked \in [Accounts -> Amount] /\ stakedOld \in [Accounts -> Amount]
      BY <1>3 DEF Init
    <2>4. QED
      BY <2>1, <2>2, <2>3, TypeParts
  <1>5. \A v \in Accounts : voters[v].producers = <<>>
    BY DEF Init, NoVoter
  <1>6. RecountPasses
    BY <1>0, <1>5 DEF RecountPasses, CanCount
  <1>7. TallyExact
    <2> SUFFICES ASSUME NEW p \in Accounts
                 PROVE  producers[p].total_votes
                           = Total([v \in Accounts |-> Share(p, v)], NumAccounts)
      BY DEF TallyExact
    <2> DEFINE f == [v \in Accounts |-> Share(p, v)]
    <2>1. producers[p].total_votes = 0
      BY DEF Init, NoProducer
    <2>2. \A v \in Accounts : voters[v].votes_per_prod = 0
      BY DEF Init, NoVoter
    <2>3. \A v \in Accounts : Share(p, v) = 0
      <3> SUFFICES ASSUME NEW v \in Accounts PROVE Share(p, v) = 0
        OBVIOUS
      <3>1. Occurrences(p, voters[v].producers) \in Nat
        BY <1>0, <1>5, OccurrencesType
      <3>2. QED
        BY <2>2, <3>1 DEF Share
    <2>4. f \in [1..NumAccounts -> Int] /\ \A k \in 1..NumAccounts : f[k] = 0
      BY <2>3 DEF Accounts
    <2> HIDE DEF f
    <2>5. Total(f, NumAccounts) = 0
      BY <1>0, <2>4, TotalZero
    <2>6. QED
      BY <2>1, <2>5 DEF f
  <1>8. QED
    BY <1>4, <1>6, <1>7 DEF VotingInv

\* A step that changes neither votes nor ballots, and unregisters nobody,
\* keeps the tally and the recount.
LEMMA QuietStep ==
    ASSUME VotingInv, TypeOK', voters' = voters,
           \A p \in Accounts : /\ producers'[p].total_votes = producers[p].total_votes
                               /\ producers[p].registered => producers'[p].registered
    PROVE  VotingInv'
  <1>1. \A p, v \in Accounts : Share(p, v)' = Share(p, v)
    BY DEF Share
  <1>2. TallyExact'
    <2> SUFFICES ASSUME NEW p \in Accounts
                 PROVE  producers'[p].total_votes
                           = Total([v \in Accounts |-> Share(p, v)'], NumAccounts)
      BY DEF TallyExact
    <2>1. [v \in Accounts |-> Share(p, v)'] = [v \in Accounts |-> Share(p, v)]
      BY <1>1
    <2>2. QED
      BY <2>1 DEF VotingInv, TallyExact
  <1>3. RecountPasses'
    <2> SUFFICES ASSUME NEW v \in Accounts, NEW i \in 1..Len(voters[v].producers)
                 PROVE  /\ voters[v].producers[i] # v
                        /\ producers'[voters[v].producers[i]].registered
      BY DEF RecountPasses, CanCount
    <2>1. voters[v].producers[i] \in Accounts
      BY TypeParts DEF VotingInv, VoterRow
    <2>2. voters[v].producers[i] # v /\ producers[voters[v].producers[i]].registered
      BY DEF VotingInv, RecountPasses, CanCount
    <2>3. QED
      BY <2>1, <2>2
  <1>4. QED
    BY <1>2, <1>3 DEF VotingInv

\* vote keeps the tables typed, the tally exact, and the new ballot countable.
LEMMA VoteStep ==
    ASSUME VotingInv, NEW voter \in Accounts, NEW ballot \in Seq(Accounts),
           NEW tokens \in 0..MaxTokens, vote(voter, ballot, tokens)
    PROVE  /\ producers' \in [Accounts -> ProducerRow]
           /\ voters' \in [Accounts -> VoterRow]
           /\ TallyExact'
           /\ RecountPasses'
  <1> DEFINE old == voters[voter]
             w == VotesPerProd(tokens, Len(ballot))
             row == [voted |-> TRUE, producers |-> ballot,
                     votes_per_prod |-> w, tokens |-> tokens]
  <1>0. NumAccounts \in Nat
    BY VotingAssumption
  <1>1. TypeOK /\ producers \in [Accounts -> ProducerRow] /\ voters \in [Accounts -> VoterRow]
    BY TypeParts DEF VotingInv
  <1>2. Len(ballot) \in Nat
    OBVIOUS
  <1>3. w \in Nat \cup {Infinity}
    BY <1>2, WeightType
  <1>4. old.producers \in Seq(Accounts) /\ old.votes_per_prod \in Int
    BY <1>1 DEF VoterRow, Infinity
  <1>5. /\ CanCount(voter, ballot)
        /\ voters' = [voters EXCEPT ![voter] = row]
        /\ producers' = [p \in Accounts |-> [producers[p] EXCEPT
                            !.total_votes = Recounted(p, old, ballot, w)]]
    BY DEF vote
  <1> HIDE DEF w
  <1>6. row \in VoterRow
    BY <1>3 DEF VoterRow
  <1>7. /\ row.producers = ballot
        /\ row.votes_per_prod = w
    OBVIOUS
  <1> HIDE DEF row
  <1>8. voters' \in [Accounts -> VoterRow]
    BY <1>1, <1>5, <1>6
  <1>9. /\ voters'[voter] = row
        /\ \A v \in Accounts : v # voter => voters'[v] = voters[v]
    BY <1>1, <1>5
  <1>10. \A p \in Accounts :
           /\ Occurrences(p, ballot) \in Nat
           /\ Occurrences(p, old.producers) \in Nat
    BY <1>4, OccurrencesType
  <1>11. w \in Int
    BY <1>3 DEF Infinity
  <1>12. \A p \in Accounts : Recounted(p, old, ballot, w) \in Int
    <2> SUFFICES ASSUME NEW p \in Accounts PROVE Recounted(p, old, ballot, w) \in Int
      OBVIOUS
    <2>1. producers[p].total_votes \in Int
      BY <1>1 DEF ProducerRow
    <2>2. /\ Occurrences(p, ballot) * w \in Int
          /\ Occurrences(p, old.producers) * old.votes_per_prod \in Int
      BY <1>4, <1>10, <1>11
    <2>3. QED
      BY <2>1, <2>2 DEF Recounted
  <1>13. \A p \in Accounts :
           /\ producers'[p] \in ProducerRow
           /\ producers'[p].total_votes = Recounted(p, old, ballot, w)
           /\ producers'[p].registered = producers[p].registered
    <2> SUFFICES ASSUME NEW p \in Accounts
                 PROVE  /\ producers'[p] \in ProducerRow
                        /\ producers'[p].total_votes = Recounted(p, old, ballot, w)
                        /\ producers'[p].registered = producers[p].registered
      OBVIOUS
    <2> DEFINE x == Recounted(p, old, ballot, w)
    <2>1. x \in Int /\ producers[p] \in ProducerRow
      BY <1>1, <1>12
    <2>2. producers'[p] = [producers[p] EXCEPT !.total_votes = x]
      BY <1>5
    <2> HIDE DEF x
    <2>3. QED
      BY <2>1, <2>2, Zenon DEF ProducerRow, x
  <1>14. producers' \in [Accounts -> ProducerRow]
    <2>1. DOMAIN producers' = Accounts /\ producers' = [p \in Accounts |-> producers'[p]]
      BY <1>5
    <2>2. QED
      BY <2>1, <1>13
  <1>15. TallyExact'
    <2> SUFFICES ASSUME NEW p \in Accounts
                 PROVE  producers'[p].total_votes
                           = Total([v \in Accounts |-> Share(p, v)'], NumAccounts)
      BY DEF TallyExact
    <2> DEFINE f == [v \in Accounts |-> Share(p, v)]
               h == [v \in Accounts |-> Share(p, v)']
    <2>1. f \in [1..NumAccounts -> Int]
      BY <1>1, ShareType DEF Accounts
    <2>2. Share(p, voter)' = Occurrences(p, ballot) * w
      BY <1>7, <1>9 DEF Share
    <2>3. \A v \in Accounts : v # voter => Share(p, v)' = Share(p, v)
      BY <1>9 DEF Share
    <2>4. Occurrences(p, ballot) * w \in Int
      BY <1>10, <1>11
    <2>5. h \in [1..NumAccounts -> Int]
      <3>1. \A v \in Accounts : Share(p, v)' \in Int
        BY <1>1, <2>2, <2>3, <2>4, ShareType
      <3>2. QED
        BY <3>1 DEF Accounts
    <2>6. /\ f[voter] = Occurrences(p, old.producers) * old.votes_per_prod
          /\ h[voter] = Occurrences(p, ballot) * w
          /\ \A k \in 1..NumAccounts : k # voter => h[k] = f[k]
          /\ voter \in 1..NumAccounts
      BY <2>2, <2>3 DEF Share, Accounts
    <2>7. producers[p].total_votes = Total(f, NumAccounts)
      BY DEF VotingInv, TallyExact
    <2>8. h = [v \in Accounts |-> Share(p, v)']
      OBVIOUS
    <2> HIDE DEF f, h
    <2>9. Total(h, NumAccounts) = Total(f, NumAccounts) + (h[voter] - f[voter])
      BY <1>0, <2>1, <2>5, <2>6, TotalUpdate
    <2>10. producers'[p].total_votes
             = producers[p].total_votes - f[voter] + h[voter]
      BY <1>13, <2>6 DEF Recounted
    <2>11. /\ Total(f, NumAccounts) \in Int
           /\ f[voter] \in Int /\ h[voter] \in Int
      BY <1>0, <2>1, <2>5, <2>6, TotalInt
    <2>12. producers'[p].total_votes = Total(h, NumAccounts)
      BY <2>7, <2>9, <2>10, <2>11
    <2>13. QED
      BY <2>8, <2>12
  <1>16. RecountPasses'
    <2> SUFFICES ASSUME NEW v \in Accounts, NEW i \in 1..Len(voters'[v].producers)
                 PROVE  /\ voters'[v].producers[i] # v
                        /\ producers'[voters'[v].producers[i]].registered
      BY DEF RecountPasses, CanCount
    <2>1. voters'[v].producers[i] \in Accounts
      BY <1>8 DEF VoterRow
    <2>2. CASE v = voter
      BY <1>5, <1>7, <1>9, <1>13, <2>1, <2>2 DEF CanCount
    <2>3. CASE v # voter
      BY <1>9, <1>13, <2>1, <2>3 DEF VotingInv, RecountPasses, CanCount
    <2>4. QED
      BY <2>2, <2>3
  <1>17. QED
    BY <1>8, <1>14, <1>15, <1>16

\* Registration, and leaving or re-entering the election, keep all votes.
LEMMA ProducerStep ==
    ASSUME VotingInv, NEW p \in Accounts, NEW row \in ProducerRow,
           producers' = [producers EXCEPT ![p] = row],
           row.total_votes = producers[p].total_votes,
           producers[p].registered => row.registered,
           UNCHANGED <<voters, money>>
    PROVE  VotingInv'
  <1>1. producers' \in [Accounts -> ProducerRow]
    BY TypeParts DEF VotingInv
  <1>2. TypeOK'
    BY <1>1, TypeParts DEF VotingInv, money, TypeOK, ProducerRow
  <1>3. \A q \in Accounts : /\ producers'[q].total_votes = producers[q].total_votes
                            /\ producers[q].registered => producers'[q].registered
    BY TypeParts DEF VotingInv
  <1>4. QED
    BY <1>2, <1>3, QuietStep

\* Moving tokens keeps all votes.
LEMMA MoneyStep ==
    ASSUME VotingInv, UNCHANGED <<producers, voters>>,
           staked' \in [Accounts -> Amount], stakedOld' \in [Accounts -> Amount],
           liquid' \in [Accounts -> Amount]
    PROVE  VotingInv'
  <1>1. TypeOK'
    BY TypeParts DEF VotingInv, TypeOK, Amount
  <1>2. QED
    BY <1>1, QuietStep

\* An amount that arrives is checked to fit; one that leaves was there.
LEMMA MoveTypes ==
    ASSUME NEW f \in [Accounts -> Amount], NEW a \in Accounts, NEW q \in Quantities
    PROVE  /\ f[a] >= q => [f EXCEPT ![a] = @ - q] \in [Accounts -> Amount]
           /\ Fits(f[a] + q) => [f EXCEPT ![a] = @ + q] \in [Accounts -> Amount]
  <1>1. /\ q \in Nat /\ MaxTokens * vtx_precision \in Nat
        /\ f[a] \in 0..(MaxTokens * vtx_precision)
    BY VotingAssumption DEF Amount
  <1>2. /\ f[a] >= q => f[a] - q \in Amount
        /\ Fits(f[a] + q) => f[a] + q \in Amount
    BY <1>1 DEF Amount, Fits
  <1>3. QED
    BY <1>2

\* Every step preserves the invariant.
LEMMA VotingInvNext == VotingInv /\ [Next]_vars => VotingInv'
  <1> SUFFICES ASSUME VotingInv, [Next]_vars PROVE VotingInv'
    OBVIOUS
  <1>0. /\ producers \in [Accounts -> ProducerRow]
        /\ voters \in [Accounts -> VoterRow]
        /\ staked \in [Accounts -> Amount]
        /\ stakedOld \in [Accounts -> Amount]
        /\ liquid \in [Accounts -> Amount]
    BY TypeParts DEF VotingInv
  <1>1. ASSUME NEW p \in Accounts, NEW j \in JobLists, regproducer(p, j) PROVE VotingInv'
    <2> DEFINE row == [producers[p] EXCEPT !.registered = TRUE, !.is_active = TRUE,
                                           !.job_ids = j]
    <2>1. producers[p] \in ProducerRow /\ j \in SUBSET (1..2)
      BY <1>0, <1>1 DEF regproducer, jobs_valid
    <2>2. /\ row \in ProducerRow
          /\ row.total_votes = producers[p].total_votes
          /\ row.registered
      BY <2>1, Zenon DEF ProducerRow
    <2>3. producers' = [producers EXCEPT ![p] = row] /\ UNCHANGED <<voters, money>>
      BY <1>1 DEF regproducer
    <2> HIDE DEF row
    <2>4. QED
      BY <2>2, <2>3, ProducerStep
  <1>2. ASSUME NEW p \in Accounts, unregprod(p) PROVE VotingInv'
    <2> DEFINE row == [producers[p] EXCEPT !.is_active = FALSE]
    <2>1. producers[p] \in ProducerRow
      BY <1>0
    <2>2. /\ row \in ProducerRow
          /\ row.total_votes = producers[p].total_votes
          /\ row.registered = producers[p].registered
      BY <2>1, Zenon DEF ProducerRow
    <2>3. producers' = [producers EXCEPT ![p] = row] /\ UNCHANGED <<voters, money>>
      BY <1>2 DEF unregprod
    <2> HIDE DEF row
    <2>4. QED
      BY <2>2, <2>3, ProducerStep
  <1>3. ASSUME NEW p \in Accounts, activateprod(p) PROVE VotingInv'
    <2> DEFINE row == [producers[p] EXCEPT !.is_active = TRUE]
    <2>1. producers[p] \in ProducerRow
      BY <1>0
    <2>2. /\ row \in ProducerRow
          /\ row.total_votes = producers[p].total_votes
          /\ row.registered = producers[p].registered
      BY <2>1, Zenon DEF ProducerRow
    <2>3. producers' = [producers EXCEPT ![p] = row] /\ UNCHANGED <<voters, money>>
      BY <1>3 DEF activateprod
    <2> HIDE DEF row
    <2>4. QED
      BY <2>2, <2>3, ProducerStep
  <1>4. CASE UNCHANGED vars
    BY <1>0, <1>4, MoneyStep DEF vars, money
  <1>5. ASSUME NEW v \in Accounts, NEW b \in Ballots, voteproducer(v, b) PROVE VotingInv'
    <2>1. b \in Seq(Accounts)
      BY VotingAssumption DEF Accounts
    <2>2. TokensOf(staked[v]) \in 0..MaxTokens
      BY <1>0, TokensType DEF Amount
    <2>3. vote(v, b, TokensOf(staked[v])) /\ UNCHANGED money
      BY <1>5 DEF voteproducer
    <2>4. /\ producers' \in [Accounts -> ProducerRow]
          /\ voters' \in [Accounts -> VoterRow]
          /\ TallyExact'
          /\ RecountPasses'
      BY <2>1, <2>2, <2>3, VoteStep
    <2>5. TypeOK'
      BY <1>0, <2>3, <2>4 DEF TypeOK, ProducerRow, VoterRow, Amount, money
    <2>6. QED
      BY <2>4, <2>5 DEF VotingInv
  <1>6. ASSUME NEW a \in Accounts, NEW q \in Quantities, stake(a, q) PROVE VotingInv'
    BY <1>0, <1>6, MoveTypes, MoneyStep DEF stake
  <1>7. ASSUME NEW a \in Accounts, NEW q \in Quantities, unstake(a, q) PROVE VotingInv'
    BY <1>0, <1>7, MoveTypes, MoneyStep DEF unstake
  <1>8. ASSUME NEW a \in Accounts, NEW q \in Quantities, stakeOld(a, q) PROVE VotingInv'
    BY <1>0, <1>8, MoveTypes, MoneyStep DEF stakeOld
  <1>9. ASSUME NEW a \in Accounts, NEW q \in Quantities, onUnstake(a, q) PROVE VotingInv'
    <2>1. /\ staked' \in [Accounts -> Amount]
          /\ stakedOld' \in [Accounts -> Amount]
          /\ liquid' \in [Accounts -> Amount]
      BY <1>0, <1>9, MoveTypes DEF onUnstake
    <2>2. CASE UNCHANGED <<producers, voters>>
      BY <2>1, <2>2, MoneyStep
    <2>3. CASE vote(a, voters[a].producers, TokensOf(liquid[a]))
      <3>1. voters[a].producers \in Seq(Accounts)
        BY <1>0 DEF VoterRow
      <3>2. TokensOf(liquid[a]) \in 0..MaxTokens
        BY <1>0, TokensType DEF Amount
      <3>3. /\ producers' \in [Accounts -> ProducerRow]
            /\ voters' \in [Accounts -> VoterRow]
            /\ TallyExact'
            /\ RecountPasses'
        BY <2>3, <3>1, <3>2, VoteStep
      <3>4. TypeOK'
        BY <2>1, <3>3 DEF TypeOK, ProducerRow, VoterRow, Amount
      <3>5. QED
        BY <3>3, <3>4 DEF VotingInv
    <2>4. QED
      BY <1>9, <2>2, <2>3 DEF onUnstake, updatevote
  <1>10. ASSUME NEW a \in Holders, NEW b \in Holders, NEW q \in Quantities, transfer(a, b, q)
         PROVE  VotingInv'
    <2> DEFINE mid == [liquid EXCEPT ![a] = @ - q]
    <2>1. a \in Accounts /\ b \in Accounts
      BY VotingAssumption DEF Accounts
    <2>2. mid \in [Accounts -> Amount]
      BY <1>0, <1>10, <2>1, MoveTypes DEF transfer
    <2>3. /\ mid[b] = liquid[b]
          /\ liquid' = [mid EXCEPT ![b] = @ + q]
      BY <1>0, <1>10, <2>1 DEF transfer
    <2>4. Fits(mid[b] + q)
      BY <1>10, <2>3 DEF transfer
    <2> HIDE DEF mid
    <2>5. liquid' \in [Accounts -> Amount]
      BY <2>1, <2>2, <2>3, <2>4, MoveTypes
    <2>6. QED
      BY <1>0, <1>10, <2>5, MoneyStep DEF transfer
  <1>11. QED
    BY <1>1, <1>2, <1>3, <1>4, <1>5, <1>6, <1>7, <1>8, <1>9, <1>10
       DEF Next, unregprodall, deluserinfo

\* The tables of volentixvote keep their types.
THEOREM VotingTypeCorrect == Spec => []TypeOK
  <1>1. VotingInv => TypeOK
    BY DEF VotingInv
  <1>2. QED
    BY VotingInvInit, VotingInvNext, <1>1, PTL DEF Spec

\* After any sequence of votes, changes, recounts and registrations, the votes
\* of every producer are the sum of the shares of the standing ballots.
THEOREM TallyCorrect == Spec => []TallyExact
  <1>1. VotingInv => TallyExact
    BY DEF VotingInv
  <1>2. QED
    BY VotingInvInit, VotingInvNext, <1>1, PTL DEF Spec

\* The checks of update_producers never reject the recount that onUnstake
\* makes, so a vote never keeps a stake from being withdrawn.
THEOREM RecountCorrect == Spec => []RecountPasses
  <1>1. VotingInv => RecountPasses
    BY DEF VotingInv
  <1>2. QED
    BY VotingInvInit, VotingInvNext, <1>1, PTL DEF Spec

-----------------------------------------------------------------------------
(* The weight of all votes.                                                  *)

\* How often a name is among the first m of a ballot.
Among(p, ballot, m) == Cardinality({i \in 1..m : ballot[i] = p})

\* One more entry of the ballot is one more occurrence of one name.
LEMMA AmongNext ==
    ASSUME NEW ballot \in Seq(Accounts), NEW m \in Nat, m + 1 <= Len(ballot), NEW p
    PROVE  /\ Among(p, ballot, m) \in Nat
           /\ Among(p, ballot, m + 1)
                 = Among(p, ballot, m) + (IF ballot[m + 1] = p THEN 1 ELSE 0)
  <1> DEFINE S == {i \in 1..m : ballot[i] = p}
             T == {i \in 1..(m + 1) : ballot[i] = p}
  <1>1. IsFiniteSet(1..m)
    BY FS_Interval
  <1>2. IsFiniteSet(S)
    BY <1>1, FS_Subset
  <1>3. Cardinality(S) \in Nat
    BY <1>2, FS_CardinalityType
  <1>4. CASE ballot[m + 1] = p
    <2>1. T = S \cup {m + 1} /\ m + 1 \notin S
      BY <1>4
    <2>2. Cardinality(T) = Cardinality(S) + 1
      BY <1>2, <2>1, FS_AddElement
    <2>3. QED
      BY <1>3, <1>4, <2>2 DEF Among
  <1>5. CASE ballot[m + 1] # p
    <2>1. T = S
      BY <1>5
    <2>2. Among(p, ballot, m + 1) = Among(p, ballot, m) /\ Among(p, ballot, m) \in Nat
      BY <1>3, <2>1, Zenon DEF Among
    <2>3. QED
      BY <1>5, <2>2
  <1>6. QED
    BY <1>4, <1>5

\* All names together occur as often as the ballot has entries.
LEMMA OccurrencesTotal ==
    ASSUME NEW ballot \in Seq(Accounts)
    PROVE  Total([p \in Accounts |-> Occurrences(p, ballot)], NumAccounts) = Len(ballot)
  <1> DEFINE L == Len(ballot)
             f(m) == [p \in Accounts |-> Among(p, ballot, m)]
             Bad == {m \in 0..L : Total(f(m), NumAccounts) # m}
  <1>0. NumAccounts \in Nat /\ L \in Nat /\ Accounts = 1..NumAccounts
    BY VotingAssumption DEF Accounts
  <1>1. \A m \in 0..L : f(m) \in [1..NumAccounts -> Int]
    <2>1. ASSUME NEW m \in 0..L, NEW p
          PROVE  Among(p, ballot, m) \in Nat
      <3>1. IsFiniteSet(1..m)
        BY FS_Interval
      <3>2. IsFiniteSet({i \in 1..m : ballot[i] = p})
        BY <3>1, FS_Subset
      <3>3. QED
        BY <3>2, FS_CardinalityType DEF Among
    <2>2. QED
      BY <1>0, <2>1
  <1>2. Bad = {}
    <2>1. SUFFICES ASSUME Bad # {} PROVE FALSE
      OBVIOUS
    <2>2. Bad \in SUBSET Nat
      BY <1>0
    <2>3. PICK m \in Bad : \A k \in Bad : m <= k
      BY <2>1, <2>2, LeastNat
    <2>4. m # 0
      <3>1. \A p : {i \in 1..0 : ballot[i] = p} = {}
        OBVIOUS
      <3>2. \A p : Among(p, ballot, 0) = 0
        BY <3>1, FS_EmptySet DEF Among
      <3>3. f(0) = [k \in 1..NumAccounts |-> 0]
        BY <1>0, <3>2
      <3>4. Total(f(0), NumAccounts) = 0
        BY <1>0, <3>3, TotalZero
      <3>5. QED
        BY <3>4
    <2>5. /\ m \in Nat /\ m - 1 \in Nat /\ m - 1 \in 0..L /\ m \in 0..L
          /\ (m - 1) + 1 = m /\ (m - 1) + 1 <= L
      BY <1>0, <2>3, <2>4
    <2>6. m - 1 \notin Bad
      BY <2>3, <2>5
    <2>7. Total(f(m - 1), NumAccounts) = m - 1
      BY <2>5, <2>6
    <2>8. PICK c \in 1..NumAccounts : c = ballot[m]
      BY <1>0, <2>4, <2>5
    <2>9. \A p : /\ Among(p, ballot, m - 1) \in Nat
                 /\ Among(p, ballot, m) = Among(p, ballot, m - 1) + (IF c = p THEN 1 ELSE 0)
      BY <2>5, <2>8, AmongNext
    <2>10. /\ f(m)[c] = f(m - 1)[c] + 1 /\ f(m - 1)[c] \in Nat
           /\ \A k \in 1..NumAccounts : k # c => f(m)[k] = f(m - 1)[k]
      <3>1. \A k \in 1..NumAccounts : /\ f(m)[k] = Among(k, ballot, m)
                                      /\ f(m - 1)[k] = Among(k, ballot, m - 1)
        BY <1>0
      <3> HIDE DEF f
      <3>2. \A k \in 1..NumAccounts : f(m)[k] = f(m - 1)[k] + (IF c = k THEN 1 ELSE 0)
        BY <2>9, <3>1
      <3>3. \A k \in 1..NumAccounts : f(m - 1)[k] \in Nat
        BY <2>9, <3>1
      <3>4. QED
        BY <3>2, <3>3
    <2>11. f(m) \in [1..NumAccounts -> Int] /\ f(m - 1) \in [1..NumAccounts -> Int]
      BY <1>1, <2>5
    <2> HIDE DEF f
    <2>12. Total(f(m), NumAccounts) = Total(f(m - 1), NumAccounts) + (f(m)[c] - f(m - 1)[c])
      BY <1>0, <2>8, <2>10, <2>11, TotalUpdate
    <2>13. Total(f(m), NumAccounts) = m
      BY <2>5, <2>7, <2>10, <2>12
    <2>14. QED
      BY <2>3, <2>13
  <1>3. L \in 0..L
    BY <1>0
  <1>4. Total(f(L), NumAccounts) = L
    BY <1>2, <1>3
  <1>5. f(L) = [p \in Accounts |-> Occurrences(p, ballot)]
    BY DEF Among, Occurrences
  <1>6. QED
    BY <1>4, <1>5

\* The votes that voter v casts, on all names of the ballot.
Cast(v) == Len(voters[v].producers) * voters[v].votes_per_prod

\* A standing ballot has the weight that its tokens and its size give it.
WeightsRight ==
    \A v \in Accounts :
        \/ voters[v] = NoVoter
        \/ voters[v].votes_per_prod = VotesPerProd(voters[v].tokens, Len(voters[v].producers))

\* No vote is counted that is not cast, and none is lost.
AllCounted ==
    Total([p \in Accounts |-> producers[p].total_votes], NumAccounts)
        = Total([v \in Accounts |-> Cast(v)], NumAccounts)

\* An account that is active has registered.
ActiveRegistered == \A p \in Accounts : producers[p].is_active => producers[p].registered

PowerInv == VotingInv /\ WeightsRight /\ AllCounted /\ ActiveRegistered

\* Equal parts of a weight do not exceed it.
LEMMA PartsFit ==
    ASSUME NEW x \in Nat, NEW size \in Nat
    PROVE  size # 0 => x \div size \in Nat /\ size * (x \div size) <= x
  <1> SUFFICES ASSUME size # 0
               PROVE  x \div size \in Nat /\ size * (x \div size) <= x
    OBVIOUS
  <1> DEFINE q == x \div size
             r == x % size
  <1>1. q \in Int /\ r \in 0..(size - 1) /\ x = size * q + r
    OBVIOUS
  <1> HIDE DEF q, r
  <1>2. q >= 0
    <2>1. CASE q <= -1
      <3>1. size * q <= -size
        BY <1>1, <2>1, Z3
      <3>2. QED
        BY <1>1, <3>1
    <2>2. QED
      BY <1>1, <2>1
  <1>3. size * q \in Int /\ r >= 0
    BY <1>1
  <1>4. size * q <= x
    BY <1>1, <1>3
  <1>5. QED
    BY <1>1, <1>2, <1>4 DEF q

\* A ballot casts at most the square root of its tokens, and takes no votes away.
LEMMA CastBounds ==
    ASSUME TypeOK, WeightsRight, NEW v \in Accounts
    PROVE  /\ Cast(v) \in Int /\ Cast(v) <= Sqrt[voters[v].tokens]
           /\ Sqrt[voters[v].tokens] \in Nat
           /\ Len(voters[v].producers) # 0 => voters[v].votes_per_prod \in Nat
  <1> DEFINE size == Len(voters[v].producers)
             w == voters[v].votes_per_prod
             x == Sqrt[voters[v].tokens]
  <1>1. voters[v] \in VoterRow
    BY TypeParts
  <1>2. size \in Nat /\ w \in Int /\ x \in Nat
    BY <1>1, VotingAssumption DEF VoterRow, Infinity
  <1>3. CASE size = 0
    <2>1. Cast(v) = 0
      BY <1>2, <1>3 DEF Cast
    <2>2. QED
      BY <1>2, <1>3, <2>1
  <1>4. CASE size # 0
    <2>1. voters[v] # NoVoter
      BY <1>4 DEF NoVoter
    <2>2. w = x \div size
      BY <1>4, <2>1 DEF WeightsRight, VotesPerProd
    <2> HIDE DEF size, w, x
    <2>3. w \in Nat /\ size * w <= x
      BY <1>2, <1>4, <2>2, PartsFit
    <2>4. Cast(v) = size * w
      BY DEF Cast, size, w
    <2>5. size * w \in Int
      BY <1>2
    <2>6. QED
      BY <1>2, <2>3, <2>4, <2>5 DEF size, w, x
  <1>5. QED
    BY <1>3, <1>4

\* The weight of the votes is bounded by that of the tokens.
LEMMA PowerFromCast == TypeOK /\ WeightsRight /\ AllCounted => PowerBounded
  <1> SUFFICES ASSUME TypeOK, WeightsRight, AllCounted PROVE PowerBounded
    OBVIOUS
  <1> DEFINE f == [v \in Accounts |-> Cast(v)]
             h == [v \in Accounts |-> Sqrt[voters[v].tokens]]
  <1>1. NumAccounts \in Nat
    BY VotingAssumption
  <1>2. /\ f \in [1..NumAccounts -> Int] /\ h \in [1..NumAccounts -> Int]
        /\ \A k \in 1..NumAccounts : f[k] <= h[k]
    BY CastBounds DEF Accounts
  <1> HIDE DEF f, h
  <1>3. Total(f, NumAccounts) <= Total(h, NumAccounts)
    BY <1>1, <1>2, TotalMonotone
  <1>4. QED
    BY <1>3 DEF PowerBounded, AllCounted, f, h

\* The votes of one ballot, added up over the names.
LEMMA BallotTotal ==
    ASSUME NEW ballot \in Seq(Accounts), NEW w \in Int
    PROVE  /\ [p \in Accounts |-> Occurrences(p, ballot) * w] \in [1..NumAccounts -> Int]
           /\ Total([p \in Accounts |-> Occurrences(p, ballot) * w], NumAccounts)
                 = Len(ballot) * w
  <1> DEFINE f == [p \in Accounts |-> Occurrences(p, ballot)]
             h == [p \in Accounts |-> Occurrences(p, ballot) * w]
  <1>0. NumAccounts \in Nat /\ Accounts = 1..NumAccounts
    BY VotingAssumption DEF Accounts
  <1>1. \A p : Occurrences(p, ballot) \in Nat
    BY OccurrencesType
  <1>2. \A p : Occurrences(p, ballot) * w \in Int
    BY <1>1
  <1>3. f \in [1..NumAccounts -> Int] /\ h \in [1..NumAccounts -> Int]
    BY <1>0, <1>1, <1>2
  <1>4. \A k \in 1..NumAccounts : h[k] = f[k] * w
    BY <1>0
  <1>5. Total(f, NumAccounts) = Len(ballot)
    BY OccurrencesTotal
  <1> HIDE DEF f, h
  <1>6. Total(h, NumAccounts) = Total(f, NumAccounts) * w
    BY <1>0, <1>3, <1>4, TotalScale
  <1>7. QED
    BY <1>3, <1>5, <1>6 DEF h

\* A vote is counted in full, and the one it replaces is undone in full.
LEMMA VoteCounted ==
    ASSUME VotingInv, WeightsRight, AllCounted, NEW voter \in Accounts,
           NEW ballot \in Seq(Accounts), NEW tokens \in 0..MaxTokens,
           vote(voter, ballot, tokens)
    PROVE  WeightsRight' /\ AllCounted'
  <1> DEFINE N == NumAccounts
             old == voters[voter]
             w == VotesPerProd(tokens, Len(ballot))
             row == [voted |-> TRUE, producers |-> ballot,
                     votes_per_prod |-> w, tokens |-> tokens]
  <1>0. N \in Nat /\ Accounts = 1..N
    BY VotingAssumption DEF Accounts
  <1>1. producers \in [Accounts -> ProducerRow] /\ voters \in [Accounts -> VoterRow]
    BY TypeParts DEF VotingInv
  <1>2. Len(ballot) \in Nat
    OBVIOUS
  <1>3. w \in Int
    BY <1>2, WeightType DEF Infinity
  <1>4. old.producers \in Seq(Accounts) /\ old.votes_per_prod \in Int
    BY <1>1 DEF VoterRow, Infinity
  <1>5. /\ voters' = [voters EXCEPT ![voter] = row]
        /\ producers' = [p \in Accounts |-> [producers[p] EXCEPT
                            !.total_votes = Recounted(p, old, ballot, w)]]
    BY DEF vote
  <1>6. /\ row.producers = ballot /\ row.votes_per_prod = w /\ row.tokens = tokens
    OBVIOUS
  <1>7. w = VotesPerProd(tokens, Len(ballot))
    OBVIOUS
  <1> HIDE DEF w, row
  <1>8. /\ voters'[voter] = row
        /\ \A v \in Accounts : v # voter => voters'[v] = voters[v]
    BY <1>1, <1>5
  <1>9. WeightsRight'
    BY <1>6, <1>7, <1>8 DEF WeightsRight
  <1>10. \A p \in Accounts : producers'[p].total_votes = Recounted(p, old, ballot, w)
    BY <1>1, <1>5 DEF ProducerRow
  <1> DEFINE F == [p \in Accounts |-> producers[p].total_votes]
             H == [p \in Accounts |-> producers'[p].total_votes]
             a == [p \in Accounts |-> Occurrences(p, old.producers) * old.votes_per_prod]
             b == [p \in Accounts |-> Occurrences(p, ballot) * w]
             G == [p \in Accounts |-> H[p] + a[p]]
             C == [v \in Accounts |-> Cast(v)]
             D == [v \in Accounts |-> Cast(v)']
  <1>11. a \in [1..N -> Int] /\ Total(a, N) = Cast(voter)
    BY <1>4, BallotTotal DEF Cast
  <1>12. b \in [1..N -> Int] /\ Total(b, N) = Len(ballot) * w
    BY <1>3, BallotTotal
  <1>13. F \in [1..N -> Int]
    BY <1>0, <1>1 DEF ProducerRow
  <1>14. \A k \in 1..N : H[k] = F[k] - a[k] + b[k]
    BY <1>0, <1>10 DEF Recounted
  <1>15. Cast(voter)' = Len(ballot) * w
    BY <1>6, <1>8 DEF Cast
  <1>16. \A v \in Accounts : v # voter => Cast(v)' = Cast(v)
    BY <1>8 DEF Cast
  <1>17. \A v \in Accounts : Cast(v) \in Int
    <2> SUFFICES ASSUME NEW v \in Accounts PROVE Cast(v) \in Int
      OBVIOUS
    <2>1. Len(voters[v].producers) \in Nat /\ voters[v].votes_per_prod \in Int
      BY <1>1 DEF VoterRow, Infinity
    <2>2. QED
      BY <2>1 DEF Cast
  <1>18. Len(ballot) * w \in Int
    BY <1>2, <1>3
  <1>19. C \in [1..N -> Int] /\ D \in [1..N -> Int]
    <2>1. \A v \in Accounts : Cast(v)' \in Int
      BY <1>15, <1>16, <1>17, <1>18
    <2>2. QED
      BY <1>0, <1>17, <2>1
  <1>20. /\ voter \in 1..N /\ C[voter] = Cast(voter) /\ D[voter] = Len(ballot) * w
         /\ \A k \in 1..N : k # voter => D[k] = C[k]
    BY <1>0, <1>15, <1>16
  <1>21. \A k \in 1..N : G[k] = H[k] + a[k]
    BY <1>0
  <1>22. DOMAIN H = 1..N /\ H = [k \in 1..N |-> H[k]] /\ DOMAIN G = 1..N /\ G = [k \in 1..N |-> G[k]]
    BY <1>0
  <1>23. Total(F, N) = Total(C, N)
    BY DEF AllCounted
  <1> HIDE DEF F, H, a, b, G, C, D, N
  <1>24. \A k \in 1..N : F[k] \in Int /\ a[k] \in Int /\ b[k] \in Int
    BY <1>11, <1>12, <1>13
  <1>25. H \in [1..N -> Int]
    <2>1. \A k \in 1..N : H[k] \in Int
      BY <1>14, <1>24
    <2>2. QED
      BY <1>22, <2>1
  <1>26. G \in [1..N -> Int] /\ \A k \in 1..N : G[k] = F[k] + b[k]
    <2>1. \A k \in 1..N : G[k] = F[k] + b[k] /\ G[k] \in Int
      BY <1>14, <1>21, <1>24
    <2>2. QED
      BY <1>22, <2>1
  <1>27. Total(G, N) = Total(H, N) + Total(a, N)
    BY <1>0, <1>11, <1>21, <1>25, <1>26, TotalSum
  <1>28. Total(G, N) = Total(F, N) + Total(b, N)
    BY <1>0, <1>12, <1>13, <1>26, TotalSum
  <1>29. Total(D, N) = Total(C, N) + (D[voter] - C[voter])
    BY <1>0, <1>19, <1>20, TotalUpdate
  <1>30. /\ Total(F, N) \in Int /\ Total(H, N) \in Int /\ Total(a, N) \in Int
         /\ Total(b, N) \in Int
    BY <1>0, <1>11, <1>12, <1>13, <1>25, TotalInt
  <1>31. Total(H, N) = Total(F, N) + Total(b, N) - Total(a, N)
    BY <1>27, <1>28, <1>30
  <1>32. Total(D, N) = Total(F, N) + (Total(b, N) - Total(a, N))
    BY <1>11, <1>12, <1>20, <1>23, <1>29
  <1>33. Total(H, N) = Total(D, N)
    BY <1>30, <1>31, <1>32
  <1>34. AllCounted'
    BY <1>33 DEF AllCounted, H, D, N
  <1>35. QED
    BY <1>9, <1>34

\* What is not a vote changes neither ballots nor tallies, and makes nobody
\* active that has not registered.
LEMMA VoteOrQuiet ==
    ASSUME TypeOK, ActiveRegistered, [Next]_vars
    PROVE  \/ \E voter \in Accounts, ballot \in Seq(Accounts), tokens \in 0..MaxTokens :
                 vote(voter, ballot, tokens)
           \/ /\ voters' = voters /\ ActiveRegistered'
              /\ \A p \in Accounts : producers'[p].total_votes = producers[p].total_votes
  <1>0. /\ producers \in [Accounts -> ProducerRow]
        /\ voters \in [Accounts -> VoterRow]
        /\ staked \in [Accounts -> Amount]
        /\ liquid \in [Accounts -> Amount]
    BY TypeParts
  <1> DEFINE Quiet == /\ voters' = voters /\ ActiveRegistered'
                      /\ \A p \in Accounts :
                            producers'[p].total_votes = producers[p].total_votes
  <1>1. ASSUME NEW p \in Accounts, NEW j \in JobLists, regproducer(p, j) PROVE Quiet
    BY <1>0, <1>1 DEF regproducer, ActiveRegistered, ProducerRow
  <1>2. ASSUME NEW p \in Accounts, unregprod(p) \/ activateprod(p) PROVE Quiet
    <2>1. PICK b \in BOOLEAN : producers' = [producers EXCEPT ![p].is_active = b]
      BY <1>2 DEF unregprod, activateprod
    <2>2. producers[p].registered /\ voters' = voters
      BY <1>2 DEF unregprod, activateprod
    <2>3. /\ \A x \in Accounts : producers'[x].total_votes = producers[x].total_votes
          /\ \A x \in Accounts : producers'[x].registered = producers[x].registered
          /\ \A x \in Accounts : x # p => producers'[x].is_active = producers[x].is_active
      BY <1>0, <2>1 DEF ProducerRow
    <2>4. QED
      BY <2>2, <2>3 DEF ActiveRegistered
  <1>3. ASSUME UNCHANGED <<producers, voters>> PROVE Quiet
    BY <1>3 DEF ActiveRegistered
  <1>4. CASE UNCHANGED vars
    BY <1>3, <1>4 DEF vars
  <1>5. ASSUME NEW v \in Accounts, NEW b \in Ballots, voteproducer(v, b)
        PROVE  \E voter \in Accounts, ballot \in Seq(Accounts), tokens \in 0..MaxTokens :
                 vote(voter, ballot, tokens)
    <2>1. b \in Seq(Accounts)
      BY VotingAssumption DEF Accounts
    <2>2. TokensOf(staked[v]) \in 0..MaxTokens
      BY <1>0, TokensType DEF Amount
    <2>3. vote(v, b, TokensOf(staked[v]))
      BY <1>5 DEF voteproducer
    <2>4. QED
      BY <2>1, <2>2, <2>3
  <1>6. ASSUME NEW a \in Accounts, NEW q \in Quantities, onUnstake(a, q)
        PROVE  \/ Quiet
               \/ \E voter \in Accounts, ballot \in Seq(Accounts), tokens \in 0..MaxTokens :
                     vote(voter, ballot, tokens)
    <2>1. voters[a].producers \in Seq(Accounts)
      BY <1>0 DEF VoterRow
    <2>2. TokensOf(liquid[a]) \in 0..MaxTokens
      BY <1>0, TokensType DEF Amount
    <2>3. \/ vote(a, voters[a].producers, TokensOf(liquid[a]))
          \/ UNCHANGED <<producers, voters>>
      BY <1>6 DEF onUnstake, updatevote
    <2>4. QED
      BY <1>3, <2>1, <2>2, <2>3
  <1>7. ASSUME NEW a, NEW b, NEW q,
               stake(a, q) \/ unstake(a, q) \/ stakeOld(a, q) \/ transfer(a, b, q)
        PROVE  Quiet
    BY <1>3, <1>7 DEF stake, unstake, stakeOld, transfer
  <1>8. QED
    BY <1>1, <1>2, <1>4, <1>5, <1>6, <1>7 DEF Next, unregprodall, deluserinfo

\* The strengthened invariant holds at the start: there are no votes.
LEMMA PowerInvInit == Init => PowerInv
  <1> SUFFICES ASSUME Init PROVE PowerInv
    OBVIOUS
  <1>1. VotingInv
    BY VotingInvInit
  <1>2. WeightsRight
    BY DEF Init, WeightsRight
  <1>3. ActiveRegistered
    BY DEF Init, ActiveRegistered, NoProducer
  <1>4. AllCounted
    <2>1. /\ \A p \in Accounts : producers[p].total_votes = 0
          /\ \A v \in Accounts : Cast(v) = 0
      BY DEF Init, NoProducer, NoVoter, Cast
    <2>2. [p \in Accounts |-> producers[p].total_votes] = [v \in Accounts |-> Cast(v)]
      BY <2>1
    <2>3. QED
      BY <2>2 DEF AllCounted
  <1>5. QED
    BY <1>1, <1>2, <1>3, <1>4 DEF PowerInv

\* Every step preserves the strengthened invariant.
LEMMA PowerInvNext == PowerInv /\ [Next]_vars => PowerInv'
  <1> SUFFICES ASSUME PowerInv, [Next]_vars PROVE PowerInv'
    OBVIOUS
  <1>0. VotingInv /\ TypeOK /\ WeightsRight /\ AllCounted /\ ActiveRegistered
    BY DEF PowerInv, VotingInv
  <1>1. VotingInv'
    BY <1>0, VotingInvNext
  <1>2. ASSUME NEW voter \in Accounts, NEW ballot \in Seq(Accounts),
               NEW tokens \in 0..MaxTokens, vote(voter, ballot, tokens)
        PROVE  WeightsRight' /\ AllCounted' /\ ActiveRegistered'
    <2>1. \A p \in Accounts : /\ producers'[p].is_active = producers[p].is_active
                              /\ producers'[p].registered = producers[p].registered
      BY <1>0, <1>2, TypeParts DEF vote, ProducerRow
    <2>2. QED
      BY <1>0, <1>2, <2>1, VoteCounted DEF ActiveRegistered
  <1>3. CASE /\ voters' = voters /\ ActiveRegistered'
             /\ \A p \in Accounts : producers'[p].total_votes = producers[p].total_votes
    <2>1. WeightsRight'
      BY <1>0, <1>3 DEF WeightsRight
    <2>2. [p \in Accounts |-> producers'[p].total_votes]
             = [p \in Accounts |-> producers[p].total_votes]
      BY <1>3
    <2>3. [v \in Accounts |-> Cast(v)'] = [v \in Accounts |-> Cast(v)]
      BY <1>3 DEF Cast
    <2>4. AllCounted'
      BY <1>0, <2>2, <2>3 DEF AllCounted
    <2>5. QED
      BY <1>1, <1>3, <2>1, <2>4 DEF PowerInv
  <1>4. QED
    BY <1>0, <1>1, <1>2, <1>3, VoteOrQuiet DEF PowerInv

\* No producer has less than no votes.
LEMMA VotesNat ==
    ASSUME PowerInv, NEW p \in Accounts
    PROVE  producers[p].total_votes \in Nat
  <1> DEFINE f == [v \in Accounts |-> Share(p, v)]
  <1>0. TypeOK /\ WeightsRight /\ TallyExact /\ NumAccounts \in Nat
    BY VotingAssumption DEF PowerInv, VotingInv
  <1>1. ASSUME NEW v \in Accounts
        PROVE  Share(p, v) \in Nat
    <2>1. /\ voters[v].producers \in Seq(Accounts)
          /\ voters[v].votes_per_prod \in Int
      BY <1>0, TypeParts DEF VoterRow, Infinity
    <2>2. Occurrences(p, voters[v].producers) \in Nat
      BY <2>1, OccurrencesType
    <2>3. CASE Len(voters[v].producers) = 0
      <3>1. {i \in 1..Len(voters[v].producers) : voters[v].producers[i] = p} = {}
        BY <2>3
      <3>2. Occurrences(p, voters[v].producers) = 0
        BY <3>1, FS_EmptySet DEF Occurrences
      <3>3. QED
        BY <2>1, <3>2 DEF Share
    <2>4. CASE Len(voters[v].producers) # 0
      <3>1. voters[v].votes_per_prod \in Nat
        BY <1>0, <2>4, CastBounds
      <3>2. QED
        BY <2>2, <3>1 DEF Share
    <2>5. QED
      BY <2>3, <2>4
  <1>2. f \in [1..NumAccounts -> Nat]
    BY <1>1 DEF Accounts
  <1>3. producers[p].total_votes = Total(f, NumAccounts)
    BY <1>0 DEF TallyExact
  <1> HIDE DEF f
  <1>4. QED
    BY <1>0, <1>2, <1>3, TotalNat

\* Active producers with votes come first because votes are naturals.
LEMMA RankFromVotes == PowerInv => ActiveAhead
  <1> SUFFICES ASSUME PowerInv, NEW p \in Accounts, NEW q \in Accounts,
                      producers[p].is_active, producers[p].total_votes > 0,
                      producers[q].registered, ~producers[q].is_active
               PROVE  get_rank(p) < get_rank(q)
    BY DEF ActiveAhead
  <1> DEFINE Before(x) == {y \in Accounts :
                              /\ producers[y].registered
                              /\ \/ by_votes(y) < by_votes(x)
                                 \/ by_votes(y) = by_votes(x) /\ y < x}
  <1>1. \A x \in Accounts : producers[x].total_votes \in Nat
    BY VotesNat
  <1>2. \A x \in Accounts : by_votes(x) \in Int
    BY <1>1 DEF by_votes
  <1>3. by_votes(p) < by_votes(q)
    BY <1>1 DEF by_votes
  <1>4. producers[p].registered
    BY DEF PowerInv, ActiveRegistered
  <1>5. get_rank(p) = Cardinality(Before(p)) /\ get_rank(q) = Cardinality(Before(q))
    BY <1>4 DEF get_rank
  <1>6. Before(p) \subseteq Before(q)
    BY <1>2, <1>3
  <1>7. p \in Before(q)
    BY <1>3, <1>4
  <1>8. p \notin Before(p)
    BY <1>2 DEF Accounts
  <1>9. IsFiniteSet(Before(q))
    <2>1. IsFiniteSet(Accounts)
      BY VotingAssumption, FS_Interval DEF Accounts
    <2>2. QED
      BY <2>1, FS_Subset
  <1>10. PICK A, B : A = Before(p) /\ B = Before(q)
    OBVIOUS
  <1>11. /\ IsFiniteSet(A) /\ Cardinality(A) <= Cardinality(B)
         /\ Cardinality(A) = Cardinality(B) => A = B
    BY <1>6, <1>9, <1>10, FS_Subset
  <1>12. Cardinality(A) \in Nat /\ Cardinality(B) \in Nat
    BY <1>9, <1>10, <1>11, FS_CardinalityType
  <1>13. Cardinality(A) < Cardinality(B)
    BY <1>7, <1>8, <1>10, <1>11, <1>12
  <1>14. QED
    BY <1>5, <1>10, <1>13

\* Repeating a name, spreading a ballot, changing it or having it recounted
\* gains nothing: all votes together weigh no more than the tokens behind them.
THEOREM PowerIsBounded == Spec => []PowerBounded
  <1>1. PowerInv => PowerBounded
    BY PowerFromCast DEF PowerInv, VotingInv
  <1>2. QED
    BY PowerInvInit, PowerInvNext, <1>1, PTL DEF Spec

\* The ranking puts every active producer with votes before every inactive one.
THEOREM ActiveRankAhead == Spec => []ActiveAhead
  BY PowerInvInit, PowerInvNext, RankFromVotes, PTL DEF Spec

=============================================================================
