------------------------ MODULE Distribution_proofs ------------------------
(***************************************************************************)
(* Proofs about vtxdistribut, for any nodes, rules, rankings, deposits and *)
(* time span.                                                              *)
(***************************************************************************)
EXTENDS Distribution, TotalTheorems, SequenceTheorems, FiniteSetTheorems

-----------------------------------------------------------------------------
(* Rewards owed.                                                             *)

\* The rows of a node are a function on their positions.
LEMMA RowsType ==
    ASSUME NEW rows \in Seq(Nat)
    PROVE  rows \in [1..Len(rows) -> Nat] /\ rows \in [1..Len(rows) -> Int] /\ Len(rows) \in Nat
  BY LenProperties

\* What is owed is an amount, and nothing if there is no row.
LEMMA OwedNat ==
    ASSUME NEW rows \in Seq(Nat)
    PROVE  Owed(rows) \in Nat
  BY RowsType, TotalNat DEF Owed

\* A node without rows is owed nothing.
LEMMA OwedNothing ==
    Owed(<<>>) = 0
  <1>1. <<>> \in [1..0 -> Int] /\ Len(<<>>) = 0
    OBVIOUS
  <1>2. QED
    BY <1>1, TotalEmpty DEF Owed

\* One more row is owed on top of the others.
LEMMA OwedAppend ==
    ASSUME NEW rows \in Seq(Nat), NEW amount \in Nat
    PROVE  /\ Append(rows, amount) \in Seq(Nat)
           /\ Owed(Append(rows, amount)) = Owed(rows) + amount
  <1> DEFINE n == Len(rows)
             h == Append(rows, amount)
  <1>1. h \in Seq(Nat) /\ Len(h) = n + 1 /\ n \in Nat
    BY AppendProperties, LenProperties
  <1>2. /\ \A k \in 1..n : h[k] = rows[k]
        /\ h[n + 1] = amount
    BY AppendProperties
  <1>3. rows \in [1..n -> Int] /\ h \in [1..(n + 1) -> Int]
    BY <1>1, RowsType
  <1> HIDE DEF n, h
  <1>4. Total(h, n + 1) = Total(rows, n) + h[n + 1]
    BY <1>1, <1>2, <1>3, TotalExtend
  <1>5. QED
    BY <1>1, <1>2, <1>4 DEF Owed, n, h

-----------------------------------------------------------------------------
(* The shapes of the steps that touch rewards.                               *)

\* The table after calcrewards for each of `jobs`.
RewardedFor(jobs) ==
    [n \in Nodes |-> IF n \in Ranked
                     THEN IF Cardinality(jobs) = 1
                          THEN Append(nodereward[n], RewardFor(n))
                          ELSE Append(Append(nodereward[n], RewardFor(n)), RewardFor(n))
                     ELSE nodereward[n]]

\* The rewards of `jobs` are calculated, and those of the nodes P paid: P is
\* empty for calcrewards, and all producers for uptime.
Calculates(jobs, P) ==
    /\ jobs \in {{j} : j \in JobIds} \cup {{1, 2}} /\ P \subseteq Nodes
    /\ \A j \in jobs : PeriodOver(j)
    /\ rewardhistory' = [j \in JobIds |-> IF j \in jobs THEN now ELSE rewardhistory[j]]
    /\ LET paid == [n \in Nodes |-> IF n \in P THEN Owed(RewardedFor(jobs)[n]) ELSE 0]
       IN  /\ \A n \in P : CanPay(RewardedFor(jobs)[n])
           /\ CanAfford(Total(paid, NumNodes))
           /\ balance' = balance - Total(paid, NumNodes)
           /\ received' = [n \in Nodes |-> received[n] + paid[n]]
    /\ nodereward' = [n \in Nodes |-> IF n \in P THEN <<>> ELSE RewardedFor(jobs)[n]]
    /\ history' = Credited(jobs)
    /\ UNCHANGED <<rewards, ranking, usblacklist, inituptime, now>>

\* Steps that leave rewards and payments alone.
Administers ==
    /\ \/ \E rule \in Rules : rewards' = [rewards EXCEPT ![rule.reward_id] = rule]
       \/ rewards' = rewards
    /\ ranking' \in Rankings \cup {<<>>}
    /\ usblacklist' \subseteq Nodes /\ inituptime' \subseteq Nodes
    /\ now' \in now..Horizon
    /\ \/ UNCHANGED <<balance, history>>
       \/ \E q \in Nat : /\ history.funded + q <= MaxFunds
                         /\ balance' = balance + q
                         /\ history' = [history EXCEPT !.funded = @ + q]
    /\ UNCHANGED <<rewardhistory, nodereward, received>>

\* The sizes of the sets of jobs that are calculated together.
LEMMA JobCounts ==
    /\ \A j \in JobIds : Cardinality({j}) = 1
    /\ Cardinality({1, 2}) = 2
  <1>1. \A j \in JobIds : Cardinality({j}) = 1
    BY FS_Singleton
  <1>2. IsFiniteSet({1}) /\ Cardinality({1}) = 1
    BY FS_Singleton
  <1>3. Cardinality({1} \cup {2}) = 2
    BY <1>2, FS_AddElement
  <1>4. {1} \cup {2} = {1, 2}
    OBVIOUS
  <1>5. QED
    BY <1>1, <1>3, <1>4

\* The types that the lemmas below use.
LEMMA Types ==
    ASSUME TypeOK
    PROVE  /\ NumNodes \in Nat /\ Nodes = 1..NumNodes /\ 1 \in JobIds /\ 2 \in JobIds
           /\ Horizon \in Nat /\ MaxFunds \in Nat /\ now \in 0..Horizon /\ balance \in Nat
           /\ nodereward \in [Nodes -> Seq(Nat)] /\ received \in [Nodes -> Nat]
           /\ rewardhistory \in [JobIds -> (0..Horizon) \cup {Never}]
           /\ ranking \in Seq(Nodes) /\ Ranked \subseteq Nodes
           /\ \A n : RewardFor(n) \in Nat
  <1>1. /\ NumNodes \in Nat /\ Nodes = 1..NumNodes /\ 1 \in JobIds /\ 2 \in JobIds
        /\ MaxFunds \in Nat /\ U32 \in Nat \ {0} /\ Horizon \in 0..(U32 - 1)
        /\ Rules \subseteq Rule /\ Rankings \subseteq Seq(Nodes)
    BY DistributionAssumption DEF Nodes
  <1>2. Horizon \in Nat
    BY <1>1
  <1>3. ranking \in Seq(Nodes)
    <2>1. <<>> \in Seq(Nodes)
      OBVIOUS
    <2>2. QED
      BY <1>1, <2>1 DEF TypeOK
  <1>4. Ranked \subseteq Nodes
    BY <1>3, LenProperties DEF Ranked
  <1>5. \A n : RewardFor(n) \in Nat
    <2>1. rewards[2] \in Rules \cup {NoRule}
      BY <1>1 DEF TypeOK
    <2>2. rewards[2].reward_amount \in Nat /\ rewards[2].standby_amount \in Nat
      BY <1>1, <2>1 DEF Rule, NoRule
    <2>3. QED
      BY <2>2 DEF RewardFor
  <1>6. QED
    BY <1>1, <1>2, <1>3, <1>4, <1>5 DEF TypeOK

\* Every step has one of these shapes, or pays one node.
LEMMA Shapes ==
    ASSUME TypeOK, [Next]_vars
    PROVE  \/ \E jobs, P : Calculates(jobs, P)
           \/ \E n \in Nodes : getreward(n)
           \/ Administers
  <1>1. ASSUME NEW j \in JobIds, calcrewards(j)
        PROVE  Calculates({j}, {})
    <2>1. Cardinality({j}) = 1
      BY JobCounts
    <2>2. nodereward' = [n \in Nodes |-> IF n \in {} THEN <<>> ELSE RewardedFor({j})[n]]
      BY <1>1, <2>1 DEF calcrewards, Rewarded, RewardedFor
    <2>3. rewardhistory' = [i \in JobIds |-> IF i \in {j} THEN now ELSE rewardhistory[i]]
      BY <1>1, Types DEF calcrewards
    <2> DEFINE paid == [n \in Nodes |-> IF n \in {} THEN Owed(RewardedFor({j})[n]) ELSE 0]
    <2>4. Total(paid, NumNodes) = 0
      <3>1. paid = [n \in 1..NumNodes |-> 0]
        BY Types
      <3>2. QED
        BY <3>1, TotalZero, Types
    <2>5. received' = [n \in Nodes |-> received[n] + paid[n]]
      BY <1>1, Types DEF calcrewards
    <2> HIDE DEF paid
    <2>6. CanAfford(Total(paid, NumNodes)) /\ balance' = balance - Total(paid, NumNodes)
      BY <1>1, <2>4, Types DEF calcrewards, CanAfford
    <2>7. QED
      BY <1>1, <2>2, <2>3, <2>5, <2>6 DEF calcrewards, Calculates, paid
  <1>2. ASSUME NEW a \in Nodes, uptime(a)
        PROVE  Calculates({1, 2}, Ranked)
    <2>1. Cardinality({1, 2}) = 2
      BY JobCounts
    <2>2. Rewarded(Rewarded(nodereward)) = RewardedFor({1, 2})
      BY <2>1 DEF Rewarded, RewardedFor
    <2>3. rewardhistory' = [i \in JobIds |-> IF i \in {1, 2} THEN now ELSE rewardhistory[i]]
      BY <1>2, Types DEF uptime
    <2>4. Ranked \subseteq Nodes
      BY Types
    <2>5. QED
      BY <1>2, <2>2, <2>3, <2>4 DEF uptime, PaidByUptime, Calculates
  <1>3. ASSUME \/ \E r \in Rules : setrewardrule(r)
               \/ \E n \in Flagged : addblacklist(n) \/ rmblacklist(n) \/ initup(n) \/ rmup(n)
               \/ \E r \in Rankings : Election(r)
               \/ Tick
               \/ UNCHANGED vars
        PROVE  Administers
    <2>1. Flagged \subseteq Nodes /\ now \in Nat /\ now <= Horizon /\ Horizon \in Nat
      BY Types, DistributionAssumption
    <2>2. /\ usblacklist \subseteq Nodes /\ inituptime \subseteq Nodes
          /\ ranking \in Rankings \cup {<<>>} /\ now \in now..Horizon
      BY <2>1 DEF TypeOK
    <2>3. CASE \E r \in Rules : setrewardrule(r)
      BY <2>2, <2>3 DEF setrewardrule, Administers
    <2>4. CASE \E n \in Flagged : addblacklist(n) \/ rmblacklist(n) \/ initup(n) \/ rmup(n)
      BY <2>1, <2>2, <2>4 DEF addblacklist, rmblacklist, initup, rmup, Administers
    <2>5. CASE \E r \in Rankings : Election(r)
      BY <2>2, <2>5 DEF Election, Administers
    <2>6. CASE Tick
      BY <2>1, <2>2, <2>6 DEF Tick, Administers
    <2>7. CASE UNCHANGED vars
      BY <2>2, <2>7 DEF vars, Administers
    <2>8. QED
      BY <1>3, <2>3, <2>4, <2>5, <2>6, <2>7
  <1>4. ASSUME NEW q \in Deposits, Deposit(q)
        PROVE  Administers
    <2>1. q \in Nat
      BY DistributionAssumption
    <2>2. now \in now..Horizon
      BY Types
    <2>3. QED
      BY <1>4, <2>1, <2>2 DEF Deposit, Administers, TypeOK
  <1>5. QED
    BY <1>1, <1>2, <1>3, <1>4 DEF Next

-----------------------------------------------------------------------------
(* The inductive invariant.                                                  *)

\* Every rule is filed under its own id.
RulesFiled == \A j \in JobIds : rewards[j] = NoRule \/ rewards[j].reward_id = j

\* The record of calculations agrees with rewardhistory, which is never ahead
\* of the time.
Calculated ==
    \A j \in JobIds : /\ history.calcs[j] = 0 <=> rewardhistory[j] = Never
                      /\ rewardhistory[j] <= now

DistributionInv ==
    /\ TypeOK
    /\ RulesFiled
    /\ Calculated
    /\ RewardsConserved

\* What calculating adds to the rows of a node.
LEMMA RewardedRows ==
    ASSUME TypeOK, NEW jobs \in {{j} : j \in JobIds} \cup {{1, 2}}, NEW n \in Nodes
    PROVE  /\ RewardedFor(jobs)[n] \in Seq(Nat)
           /\ Len(RewardedFor(jobs)[n]) >= Len(nodereward[n])
           /\ \A i \in 1..Len(nodereward[n]) :
                 /\ i \in 1..Len(RewardedFor(jobs)[n])
                 /\ RewardedFor(jobs)[n][i] = nodereward[n][i]
           /\ Owed(RewardedFor(jobs)[n]) - Owed(nodereward[n])
                 = IF n \in Ranked THEN Cardinality(jobs) * RewardFor(n) ELSE 0
  <1>1. PICK rows \in Seq(Nat), amount \in Nat :
           rows = nodereward[n] /\ amount = RewardFor(n)
    BY Types
  <1>2. PICK c \in {1, 2} : c = Cardinality(jobs)
    BY JobCounts
  <1>3. RewardedFor(jobs)[n] = IF n \in Ranked
                               THEN IF c = 1 THEN Append(rows, amount)
                                    ELSE Append(Append(rows, amount), amount)
                               ELSE rows
    BY <1>1, <1>2 DEF RewardedFor
  <1>4. /\ Append(rows, amount) \in Seq(Nat)
        /\ Owed(Append(rows, amount)) = Owed(rows) + amount
        /\ Owed(Append(Append(rows, amount), amount)) = Owed(rows) + amount + amount
        /\ Append(Append(rows, amount), amount) \in Seq(Nat)
    BY OwedAppend
  <1>5. Owed(rows) \in Nat
    BY OwedNat
  <1>6. CASE n \notin Ranked
    BY <1>1, <1>3, <1>5, <1>6
  <1>7. CASE n \in Ranked /\ c = 1
    <2>1. /\ Len(Append(rows, amount)) = Len(rows) + 1 /\ Len(rows) \in Nat
          /\ \A i \in 1..Len(rows) : Append(rows, amount)[i] = rows[i]
      BY AppendProperties, LenProperties
    <2>2. RewardedFor(jobs)[n] = Append(rows, amount)
      BY <1>3, <1>7
    <2>3. Owed(Append(rows, amount)) - Owed(rows) = c * amount
      BY <1>4, <1>5, <1>7
    <2>4. QED
      BY <1>1, <1>2, <1>4, <1>7, <2>1, <2>2, <2>3
  <1>8. CASE n \in Ranked /\ c = 2
    <2>1. /\ Len(Append(rows, amount)) = Len(rows) + 1 /\ Len(rows) \in Nat
          /\ \A i \in 1..Len(rows) : Append(rows, amount)[i] = rows[i]
      BY AppendProperties, LenProperties
    <2>2. PICK more \in Seq(Nat) : more = Append(rows, amount)
      BY <1>4
    <2>3. /\ Len(Append(more, amount)) = Len(more) + 1
          /\ \A i \in 1..Len(more) : Append(more, amount)[i] = more[i]
      BY AppendProperties
    <2>4. RewardedFor(jobs)[n] = Append(more, amount)
      BY <1>3, <1>8, <2>2
    <2>5. Owed(Append(more, amount)) - Owed(rows) = c * amount
      BY <1>4, <1>5, <1>8, <2>2
    <2>6. /\ Len(Append(more, amount)) >= Len(rows)
          /\ \A i \in 1..Len(rows) : /\ i \in 1..Len(Append(more, amount))
                                     /\ Append(more, amount)[i] = rows[i]
      BY <2>1, <2>2, <2>3
    <2>7. QED
      BY <1>1, <1>2, <1>4, <1>8, <2>2, <2>4, <2>5, <2>6
  <1>9. QED
    BY <1>6, <1>7, <1>8

\* The record of a calculation.
LEMMA CreditedType ==
    ASSUME TypeOK, NEW jobs \in {{j} : j \in JobIds} \cup {{1, 2}}
    PROVE  /\ Credited(jobs) \in [funded : 0..MaxFunds, credited : [Nodes -> Nat],
                                  calcs : [JobIds -> Nat], first : [JobIds -> 0..Horizon]]
           /\ Credited(jobs).funded = history.funded
           /\ \A n \in Nodes : Credited(jobs).credited[n] =
                 IF n \in Ranked THEN history.credited[n] + Cardinality(jobs) * RewardFor(n)
                 ELSE history.credited[n]
           /\ \A j \in JobIds : Credited(jobs).calcs[j] =
                 IF j \in jobs THEN history.calcs[j] + 1 ELSE history.calcs[j]
           /\ \A j \in JobIds : Credited(jobs).first[j] =
                 IF j \in jobs /\ rewardhistory[j] = Never THEN now ELSE history.first[j]
  <1>1. history \in [funded : 0..MaxFunds, credited : [Nodes -> Nat],
                     calcs : [JobIds -> Nat], first : [JobIds -> 0..Horizon]]
    BY DEF TypeOK
  <1>2. PICK c \in {1, 2} : c = Cardinality(jobs)
    BY JobCounts
  <1> DEFINE credited == [n \in Nodes |-> IF n \in Ranked
                             THEN history.credited[n] + Cardinality(jobs) * RewardFor(n)
                             ELSE history.credited[n]]
             calcs == [j \in JobIds |-> IF j \in jobs THEN history.calcs[j] + 1
                                        ELSE history.calcs[j]]
             first == [j \in JobIds |-> IF j \in jobs /\ rewardhistory[j] = Never THEN now
                                        ELSE history.first[j]]
  <1>3. credited \in [Nodes -> Nat]
    <2>1. \A n \in Nodes : RewardFor(n) \in Nat /\ history.credited[n] \in Nat
      BY <1>1, Types
    <2>2. \A n \in Nodes : Cardinality(jobs) * RewardFor(n) \in Nat
      BY <1>2, <2>1
    <2>3. \A n \in Nodes : history.credited[n] + Cardinality(jobs) * RewardFor(n) \in Nat
      BY <2>1, <2>2
    <2>4. QED
      BY <2>1, <2>3
  <1>4. calcs \in [JobIds -> Nat]
    BY <1>1
  <1>5. first \in [JobIds -> 0..Horizon]
    BY <1>1, Types
  <1>6. Credited(jobs) = [history EXCEPT !.credited = credited, !.calcs = calcs, !.first = first]
    BY DEF Credited
  <1>7. /\ Credited(jobs).funded = history.funded /\ Credited(jobs).credited = credited
        /\ Credited(jobs).calcs = calcs /\ Credited(jobs).first = first
    BY <1>1, <1>6
  <1>8. Credited(jobs) = [funded |-> history.funded, credited |-> credited,
                          calcs |-> calcs, first |-> first]
    BY <1>1, <1>6
  <1>9. history.funded \in 0..MaxFunds
    BY <1>1
  <1>10. Credited(jobs) \in [funded : 0..MaxFunds, credited : [Nodes -> Nat],
                             calcs : [JobIds -> Nat], first : [JobIds -> 0..Horizon]]
    <2> HIDE DEF credited, calcs, first
    <2>1. QED
      BY <1>3, <1>4, <1>5, <1>8, <1>9
  <1>11. QED
    BY <1>7, <1>10

-----------------------------------------------------------------------------
(* The invariant is kept.                                                    *)

\* The amounts that a calculation with payments pays.
LEMMA PaidType ==
    ASSUME TypeOK, NEW jobs, NEW P, Calculates(jobs, P), NEW paid,
           paid = [n \in Nodes |-> IF n \in P THEN Owed(RewardedFor(jobs)[n]) ELSE 0]
    PROVE  /\ paid \in [Nodes -> Nat]
           /\ CanAfford(Total(paid, NumNodes))
           /\ balance' = balance - Total(paid, NumNodes)
           /\ \A n \in Nodes : received'[n] = received[n] + paid[n]
           /\ received' \in [Nodes -> Nat]
           /\ Total(paid, NumNodes) \in Nat
  <1>1. /\ CanAfford(Total(paid, NumNodes))
        /\ balance' = balance - Total(paid, NumNodes)
        /\ received' = [n \in Nodes |-> received[n] + paid[n]]
    BY DEF Calculates
  <1>2. \A n \in Nodes : Owed(RewardedFor(jobs)[n]) \in Nat
    BY RewardedRows, OwedNat DEF Calculates
  <1>3. paid \in [Nodes -> Nat]
    BY <1>2
  <1>4. Total(paid, NumNodes) \in Nat
    BY <1>3, Types, TotalNat
  <1>5. received' \in [Nodes -> Nat]
    BY <1>1, <1>3, Types
  <1>6. QED
    BY <1>1, <1>3, <1>4, <1>5

\* Every step preserves the types; a payment never overdraws the contract.
LEMMA TypeStep ==
    ASSUME TypeOK, [Next]_vars
    PROVE  TypeOK'
  <1>1. ASSUME NEW jobs, NEW P, Calculates(jobs, P)
        PROVE  TypeOK'
    <2>1. PICK paid : paid = [n \in Nodes |-> IF n \in P THEN Owed(RewardedFor(jobs)[n]) ELSE 0]
      OBVIOUS
    <2>2. balance' \in Nat /\ received' \in [Nodes -> Nat]
      <3>1. /\ balance' = balance - Total(paid, NumNodes) /\ balance >= Total(paid, NumNodes)
            /\ Total(paid, NumNodes) \in Nat /\ received' \in [Nodes -> Nat]
        BY <1>1, <2>1, PaidType DEF CanAfford
      <3>2. QED
        BY <3>1, Types
    <2>3. nodereward' \in [Nodes -> Seq(Nat)]
      <3>1. \A n \in Nodes : RewardedFor(jobs)[n] \in Seq(Nat)
        BY <1>1, RewardedRows DEF Calculates
      <3>2. <<>> \in Seq(Nat)
        OBVIOUS
      <3>3. QED
        BY <1>1, <3>1, <3>2 DEF Calculates
    <2>4. rewardhistory' \in [JobIds -> (0..Horizon) \cup {Never}]
      BY <1>1, Types DEF Calculates
    <2>5. history' \in [funded : 0..MaxFunds, credited : [Nodes -> Nat],
                        calcs : [JobIds -> Nat], first : [JobIds -> 0..Horizon]]
      BY <1>1, CreditedType DEF Calculates
    <2>6. QED
      BY <1>1, <2>2, <2>3, <2>4, <2>5 DEF Calculates, TypeOK
  <1>2. ASSUME NEW n \in Nodes, getreward(n)
        PROVE  TypeOK'
    <2>1. Owed(nodereward[n]) \in Nat /\ balance \in Nat /\ received[n] \in Nat
      BY Types, OwedNat
    <2>2. balance' \in Nat /\ received' \in [Nodes -> Nat]
      BY <1>2, <2>1, Types DEF getreward, CanAfford
    <2>3. nodereward' \in [Nodes -> Seq(Nat)]
      <3>1. <<>> \in Seq(Nat)
        OBVIOUS
      <3>2. QED
        BY <1>2, <3>1, Types DEF getreward, Erased
    <2>4. QED
      BY <1>2, <2>2, <2>3 DEF getreward, TypeOK
  <1>3. CASE Administers
    <2>1. rewards' \in [JobIds -> Rules \cup {NoRule}]
      <3>1. \A rule \in Rules : rule.reward_id \in JobIds
        BY DistributionAssumption DEF Rule
      <3>2. QED
        BY <1>3, <3>1 DEF Administers, TypeOK
    <2>2. now' \in 0..Horizon
      BY <1>3, Types DEF Administers
    <2>3. /\ balance' \in Nat
          /\ history' \in [funded : 0..MaxFunds, credited : [Nodes -> Nat],
                           calcs : [JobIds -> Nat], first : [JobIds -> 0..Horizon]]
      <3>1. history.funded \in 0..MaxFunds /\ balance \in Nat /\ MaxFunds \in Nat
        BY Types DEF TypeOK
      <3>2. CASE UNCHANGED <<balance, history>>
        BY <3>2 DEF TypeOK
      <3>3. CASE \E q \in Nat : /\ history.funded + q <= MaxFunds
                                /\ balance' = balance + q
                                /\ history' = [history EXCEPT !.funded = @ + q]
        <4>1. PICK q \in Nat : /\ history.funded + q <= MaxFunds
                               /\ balance' = balance + q
                               /\ history' = [history EXCEPT !.funded = history.funded + q]
          BY <3>3
        <4>2. history.funded + q \in 0..MaxFunds
          BY <3>1, <4>1
        <4>3. history \in [funded : 0..MaxFunds, credited : [Nodes -> Nat],
                           calcs : [JobIds -> Nat], first : [JobIds -> 0..Horizon]]
          BY DEF TypeOK
        <4>4. history' \in [funded : 0..MaxFunds, credited : [Nodes -> Nat],
                            calcs : [JobIds -> Nat], first : [JobIds -> 0..Horizon]]
          BY <4>1, <4>2, <4>3
        <4>5. balance' \in Nat
          BY <3>1, <4>1
        <4>6. QED
          BY <4>4, <4>5
      <3>4. QED
        BY <1>3, <3>2, <3>3 DEF Administers
    <2>4. QED
      BY <1>3, <2>1, <2>2, <2>3 DEF Administers, TypeOK
  <1>4. QED
    BY <1>1, <1>2, <1>3, Shapes

\* A rule replaces only the one with its id.
LEMMA FiledStep ==
    ASSUME TypeOK, RulesFiled, [Next]_vars
    PROVE  RulesFiled'
  <1>1. CASE rewards' = rewards
    BY <1>1 DEF RulesFiled
  <1>2. ASSUME NEW rule \in Rules, rewards' = [rewards EXCEPT ![rule.reward_id] = rule]
        PROVE  RulesFiled'
    <2>1. rewards \in [JobIds -> Rules \cup {NoRule}]
      BY DEF TypeOK
    <2>2. QED
      BY <1>2, <2>1 DEF RulesFiled
  <1>3. QED
    BY <1>1, <1>2, Shapes DEF Calculates, getreward, Administers

\* A calculation enters the time in rewardhistory, and time does not go back.
LEMMA CalculatedStep ==
    ASSUME TypeOK, Calculated, [Next]_vars
    PROVE  Calculated'
  <1>0. /\ \A j \in JobIds : rewardhistory[j] \in (0..Horizon) \cup {Never}
        /\ \A j \in JobIds : history.calcs[j] \in Nat
        /\ now \in 0..Horizon /\ Horizon \in Nat
    BY Types DEF TypeOK
  <1>1. ASSUME NEW jobs, NEW P, Calculates(jobs, P)
        PROVE  Calculated'
    <2>1. ASSUME NEW j \in JobIds
          PROVE  /\ history'.calcs[j] = 0 <=> rewardhistory'[j] = Never
                 /\ rewardhistory'[j] <= now'
      <3>1. /\ history.calcs[j] = 0 <=> rewardhistory[j] = Never
            /\ rewardhistory[j] <= now
        BY DEF Calculated
      <3>2. /\ history'.calcs[j] = IF j \in jobs THEN history.calcs[j] + 1 ELSE history.calcs[j]
            /\ rewardhistory'[j] = IF j \in jobs THEN now ELSE rewardhistory[j]
            /\ now' = now
        BY <1>1, CreditedType DEF Calculates
      <3>3. QED
        BY <1>0, <3>1, <3>2 DEF Never
    <2>2. QED
      BY <2>1 DEF Calculated
  <1>2. CASE UNCHANGED <<rewardhistory, now, history>>
    BY <1>2 DEF Calculated
  <1>3. CASE Administers
    <2>1. history'.calcs = history.calcs
      BY <1>3 DEF Administers, TypeOK
    <2>2. rewardhistory' = rewardhistory /\ now' \in now..Horizon
      BY <1>3 DEF Administers
    <2>3. \A j \in JobIds : rewardhistory[j] <= now'
      BY <1>0, <2>2 DEF Calculated, Never
    <2>4. QED
      BY <2>1, <2>2, <2>3 DEF Calculated
  <1>4. QED
    BY <1>1, <1>2, <1>3, Shapes DEF getreward

\* Payments take from what is owed what they add to what is received, and
\* calculations add to what is owed what they credit.
LEMMA ConservedStep ==
    ASSUME TypeOK, RewardsConserved, [Next]_vars
    PROVE  RewardsConserved'
  <1>0. /\ \A n \in Nodes : Owed(nodereward[n]) \in Nat /\ received[n] \in Nat
        /\ received \in [1..NumNodes -> Int] /\ NumNodes \in Nat /\ Nodes = 1..NumNodes
        /\ balance \in Nat /\ Total(received, NumNodes) \in Int
    <2>1. received \in [1..NumNodes -> Int]
      BY Types
    <2>2. QED
      BY <2>1, Types, OwedNat, TotalInt
  <1>c. \A n \in Nodes : received[n] + Owed(nodereward[n]) = history.credited[n]
    BY DEF RewardsConserved
  <1>f. balance + Total(received, NumNodes) = history.funded
    BY DEF RewardsConserved
  <1>1. ASSUME NEW jobs, NEW P, Calculates(jobs, P)
        PROVE  RewardsConserved'
    <2>1. PICK paid : paid = [n \in Nodes |-> IF n \in P THEN Owed(RewardedFor(jobs)[n]) ELSE 0]
      OBVIOUS
    <2>2. /\ paid \in [Nodes -> Nat] /\ Total(paid, NumNodes) \in Nat
          /\ balance' = balance - Total(paid, NumNodes)
          /\ \A n \in Nodes : received'[n] = received[n] + paid[n]
          /\ received' \in [Nodes -> Nat]
      BY <1>1, <2>1, PaidType
    <2>3. ASSUME NEW n \in Nodes
          PROVE  received'[n] + Owed(nodereward'[n]) = history'.credited[n]
      <3>1. PICK rows : rows = RewardedFor(jobs)[n]
        OBVIOUS
      <3>2. /\ Owed(rows) \in Nat
            /\ Owed(rows) - Owed(nodereward[n])
                  = IF n \in Ranked THEN Cardinality(jobs) * RewardFor(n) ELSE 0
        BY <1>1, <3>1, RewardedRows, OwedNat DEF Calculates
      <3>3. history'.credited[n] =
               IF n \in Ranked THEN history.credited[n] + Cardinality(jobs) * RewardFor(n)
               ELSE history.credited[n]
        BY <1>1, CreditedType DEF Calculates
      <3>4. history.credited[n] \in Nat
        BY DEF TypeOK
      <3>5. history'.credited[n] = history.credited[n] + (Owed(rows) - Owed(nodereward[n]))
        BY <3>2, <3>3, <3>4
      <3>6. nodereward'[n] = IF n \in P THEN <<>> ELSE rows
        BY <1>1, <3>1 DEF Calculates
      <3>7. paid[n] = IF n \in P THEN Owed(rows) ELSE 0
        BY <2>1, <3>1
      <3>8. Owed(nodereward'[n]) = IF n \in P THEN 0 ELSE Owed(rows)
        BY <3>6, OwedNothing
      <3>9. received'[n] + Owed(nodereward'[n]) = received[n] + Owed(rows)
        <4>1. received'[n] = received[n] + paid[n] /\ received[n] \in Nat
          BY <1>0, <2>2
        <4>2. CASE n \in P
          BY <3>2, <3>7, <3>8, <4>1, <4>2
        <4>3. CASE n \notin P
          BY <3>2, <3>7, <3>8, <4>1, <4>3
        <4>4. QED
          BY <4>2, <4>3
      <3>10. QED
        BY <1>0, <1>c, <3>2, <3>5, <3>9
    <2>4. Total(received', NumNodes) = Total(received, NumNodes) + Total(paid, NumNodes)
      <3>1. paid \in [1..NumNodes -> Int] /\ received' \in [1..NumNodes -> Int]
        BY <1>0, <2>2
      <3>2. QED
        BY <1>0, <2>2, <3>1, TotalSum
    <2>5. history'.funded = history.funded
      BY <1>1, CreditedType DEF Calculates
    <2>6. balance' + Total(received', NumNodes) = history'.funded
      BY <1>0, <1>f, <2>2, <2>4, <2>5
    <2>7. QED
      BY <2>3, <2>6 DEF RewardsConserved
  <1>2. ASSUME NEW n \in Nodes, getreward(n)
        PROVE  RewardsConserved'
    <2>1. PICK amount \in Nat : amount = Owed(nodereward[n])
      BY <1>0
    <2>2. /\ balance' = balance - amount
          /\ received' = [received EXCEPT ![n] = received[n] + amount]
          /\ nodereward' = [nodereward EXCEPT ![n] = <<>>]
          /\ history' = history
      BY <1>2, <2>1 DEF getreward, Erased
    <2>3. /\ received' \in [1..NumNodes -> Int] /\ received'[n] = received[n] + amount
          /\ \A k \in 1..NumNodes : k # n => received'[k] = received[k]
      BY <1>0, <2>2
    <2>4. Total(received', NumNodes) = Total(received, NumNodes) + (received'[n] - received[n])
      BY <1>0, <2>3, TotalUpdate
    <2>5. balance' + Total(received', NumNodes) = history'.funded
      BY <1>0, <1>f, <2>2, <2>3, <2>4
    <2>6. ASSUME NEW k \in Nodes
          PROVE  received'[k] + Owed(nodereward'[k]) = history'.credited[k]
      <3>1. CASE k = n
        <4>1. nodereward'[k] = <<>>
          BY <2>2, <3>1, Types
        <4>2. Owed(nodereward'[k]) = 0
          BY <4>1, OwedNothing
        <4>3. QED
          BY <1>0, <1>c, <2>1, <2>2, <2>3, <3>1, <4>2
      <3>2. CASE k # n
        <4>1. nodereward'[k] = nodereward[k] /\ received'[k] = received[k]
          BY <1>0, <2>2, <2>3, <3>2, Types
        <4>2. QED
          BY <1>c, <2>2, <4>1
      <3>3. QED
        BY <3>1, <3>2
    <2>7. QED
      BY <2>5, <2>6 DEF RewardsConserved
  <1>3. CASE Administers
    <2>1. UNCHANGED <<nodereward, received>>
      BY <1>3 DEF Administers
    <2>2. history'.credited = history.credited
      BY <1>3 DEF Administers, TypeOK
    <2>3. balance' - balance = history'.funded - history.funded
      <3>1. history.funded \in Nat
        BY Types DEF TypeOK
      <3>2. CASE UNCHANGED <<balance, history>>
        BY <1>0, <3>1, <3>2
      <3>3. ASSUME NEW q \in Nat, balance' = balance + q,
                   history' = [history EXCEPT !.funded = @ + q]
            PROVE  balance' - balance = history'.funded - history.funded
        <4>1. history'.funded = history.funded + q
          BY <3>3 DEF TypeOK
        <4>2. QED
          BY <1>0, <3>1, <3>3, <4>1
      <3>4. QED
        BY <1>3, <3>2, <3>3 DEF Administers
    <2>4. balance' + Total(received', NumNodes) = history'.funded
      <3>1. balance' \in Nat /\ history'.funded \in Int /\ history.funded \in Int
        <4>1. TypeOK'
          BY TypeStep
        <4>2. \A x \in 0..MaxFunds : x \in Int
          OBVIOUS
        <4>3. balance' \in Nat /\ history'.funded \in 0..MaxFunds
          BY <4>1 DEF TypeOK
        <4>4. history.funded \in 0..MaxFunds
          BY DEF TypeOK
        <4>5. QED
          BY <4>2, <4>3, <4>4
      <3>2. PICK total \in Int : total = Total(received, NumNodes)
        BY <1>0
      <3>3. balance' + total = history'.funded
        <4>1. balance + total = history.funded
          BY <1>f, <3>2
        <4>2. PICK a \in Int, b \in Int, c \in Int, d \in Int :
                 a = balance /\ b = balance' /\ c = history.funded /\ d = history'.funded
          BY <1>0, <3>1
        <4>3. a + total = c /\ b - a = d - c
          BY <2>3, <4>1, <4>2
        <4>4. b + total = d
          BY <4>3
        <4>5. QED
          BY <4>2, <4>4
      <3>4. QED
        BY <2>1, <3>2, <3>3
    <2>5. QED
      BY <1>c, <2>1, <2>2, <2>4 DEF RewardsConserved
  <1>4. QED
    BY <1>1, <1>2, <1>3, Shapes

\* The inductive invariant holds at the start: nothing is owed or paid.
LEMMA InitDistribution ==
    Init => DistributionInv
  <1> SUFFICES ASSUME Init PROVE DistributionInv
    OBVIOUS
  <1>0. /\ NumNodes \in Nat /\ MaxFunds \in Nat /\ U32 \in Nat \ {0} /\ Horizon \in 0..(U32 - 1)
    BY DistributionAssumption
  <1>1. TypeOK
    <2>1. history \in [funded : 0..MaxFunds, credited : [Nodes -> Nat],
                       calcs : [JobIds -> Nat], first : [JobIds -> 0..Horizon]]
      BY <1>0 DEF Init
    <2>2. nodereward \in [Nodes -> Seq(Nat)]
      BY DEF Init
    <2>3. QED
      BY <1>0, <2>1, <2>2 DEF Init, TypeOK
  <1>2. RulesFiled
    BY DEF Init, RulesFiled
  <1>3. Calculated
    BY DEF Init, Calculated, Never
  <1>4. RewardsConserved
    <2>1. received = [k \in 1..NumNodes |-> 0]
      BY DEF Init, Nodes
    <2>2. Total(received, NumNodes) = 0
      BY <1>0, <2>1, TotalZero
    <2>3. balance + Total(received, NumNodes) = history.funded
      BY <2>2 DEF Init
    <2>4. \A n \in Nodes : received[n] + Owed(nodereward[n]) = history.credited[n]
      BY OwedNothing DEF Init
    <2>5. QED
      BY <2>3, <2>4 DEF RewardsConserved
  <1>5. QED
    BY <1>1, <1>2, <1>3, <1>4 DEF DistributionInv

\* Every step preserves the inductive invariant.
LEMMA StepDistribution ==
    DistributionInv /\ [Next]_vars => DistributionInv'
  BY TypeStep, FiledStep, CalculatedStep, ConservedStep DEF DistributionInv

\* The inductive invariant holds in every state of vtxdistribut.
THEOREM DistributionInvariant == Spec => []DistributionInv
  BY InitDistribution, StepDistribution, PTL DEF Spec

\* Every reward is paid once, however getreward, uptime and calcrewards
\* interleave and transactions revert.
THEOREM RewardsAreConserved == Spec => []RewardsConserved
  <1>1. DistributionInv => RewardsConserved
    BY DEF DistributionInv
  <1>2. QED
    BY <1>1, DistributionInvariant, PTL

-----------------------------------------------------------------------------
(* The rate of calculations.                                                 *)

\* The 32-bit sum of a timestamp and a period does not wrap around: the time is
\* as far from the end of the range as the longest period.
PeriodsFit == \A r \in Rules : Horizon + r.reward_period < U32

\* While a rule for id 2 is in force there is a shortest one.
LEMMA ShortestIsLeast ==
    ASSUME TypeOK, RulesFiled, rewards[2] # NoRule
    PROVE  /\ rewards[2] \in Rules /\ rewards[2].reward_period \in Nat
           /\ ShortestPeriod \in Nat /\ ShortestPeriod <= rewards[2].reward_period
  <1> DEFINE periods == {r.reward_period : r \in {s \in Rules : s.reward_id = 2}}
  <1>1. rewards[2] \in Rules /\ rewards[2].reward_id = 2
    BY Types DEF TypeOK, RulesFiled
  <1>2. periods \in SUBSET Nat
    BY DistributionAssumption DEF Rule
  <1>3. rewards[2].reward_period \in periods
    BY <1>1
  <1> HIDE DEF periods
  <1>4. PICK m \in periods : \A q \in periods : m <= q
    BY <1>2, <1>3, LeastNat
  <1>5. (CHOOSE p \in periods : \A q \in periods : p <= q) \in periods
        /\ \A q \in periods : (CHOOSE p \in periods : \A u \in periods : p <= u) <= q
    BY <1>4
  <1>6. ShortestPeriod \in periods /\ \A q \in periods : ShortestPeriod <= q
    BY <1>5 DEF ShortestPeriod, periods
  <1>7. QED
    BY <1>1, <1>2, <1>3, <1>6

\* One more calculation, a period later.
LEMMA OneMorePeriod ==
    ASSUME NEW c \in Nat \ {0}, NEW s \in Nat, NEW last \in Int, NEW begin \in Int,
           NEW t \in Int, (c - 1) * s <= last - begin, last + s <= t
    PROVE  ((c + 1) - 1) * s <= t - begin
  <1>1. ((c + 1) - 1) * s = (c - 1) * s + s
    BY Z3
  <1>2. (c - 1) * s \in Int
    BY Z3
  <1>3. PICK x \in Int : x = (c - 1) * s
    BY <1>2
  <1>4. x + s <= t - begin
    BY <1>3
  <1>5. QED
    BY <1>1, <1>3, <1>4

\* A calculation comes a period after the one before, of the rule in force,
\* which is no shorter than the shortest.
LEMMA RateStep ==
    ASSUME PeriodsFit, DistributionInv, RateLimited, [Next]_vars
    PROVE  RateLimited'
  <1> USE DEF DistributionInv
  <1>0. /\ \A j \in JobIds : rewardhistory[j] \in (0..Horizon) \cup {Never}
        /\ \A j \in JobIds : history.calcs[j] \in Nat /\ history.first[j] \in 0..Horizon
        /\ now \in 0..Horizon /\ Horizon \in Nat /\ U32 \in Nat
    BY Types, DistributionAssumption DEF TypeOK
  <1>1. ASSUME NEW jobs, NEW P, Calculates(jobs, P), NEW j \in JobIds
        PROVE  history'.calcs[j] > 0 =>
                  (history'.calcs[j] - 1) * ShortestPeriod <= rewardhistory'[j] - history'.first[j]
    <2>1. /\ history'.calcs[j] = IF j \in jobs THEN history.calcs[j] + 1 ELSE history.calcs[j]
          /\ history'.first[j] = IF j \in jobs /\ rewardhistory[j] = Never THEN now
                                 ELSE history.first[j]
          /\ rewardhistory'[j] = IF j \in jobs THEN now ELSE rewardhistory[j]
      BY <1>1, CreditedType DEF Calculates
    <2>2. CASE j \notin jobs
      BY <2>1, <2>2 DEF RateLimited
    <2>3. CASE j \in jobs
      <3>1. PeriodOver(j)
        BY <1>1, <2>3 DEF Calculates
      <3>2. PICK s \in Nat : s = ShortestPeriod /\ s <= rewards[2].reward_period
        BY <3>1, ShortestIsLeast DEF PeriodOver
      <3>3. CASE rewardhistory[j] = Never
        <4>1. history.calcs[j] = 0
          BY <3>3 DEF Calculated
        <4>2. history'.calcs[j] - 1 = 0 /\ rewardhistory'[j] - history'.first[j] = 0
          BY <1>0, <2>1, <2>3, <3>3, <4>1
        <4>3. 0 * s = 0
          OBVIOUS
        <4>4. QED
          BY <3>2, <4>2, <4>3
      <3>4. CASE rewardhistory[j] # Never
        <4>1. PICK last \in 0..Horizon, begin \in 0..Horizon, c \in Nat \ {0} :
                 last = rewardhistory[j] /\ begin = history.first[j] /\ c = history.calcs[j]
          BY <1>0, <3>4 DEF Calculated
        <4>2. (c - 1) * s <= last - begin
          BY <3>2, <4>1 DEF RateLimited
        <4>3. PICK period \in Nat : period = rewards[2].reward_period
          BY <3>1, ShortestIsLeast DEF PeriodOver
        <4>4. last + period < U32
          <5>1. Horizon + period < U32
            BY <3>1, <4>3, ShortestIsLeast DEF PeriodOver, PeriodsFit
          <5>2. QED
            BY <1>0, <5>1
        <4>5. (last + period) % U32 = last + period
          BY <1>0, <4>4
        <4>6. now >= last + period
          BY <3>1, <3>4, <4>1, <4>3, <4>5 DEF PeriodOver
        <4>7. last + s <= now
          BY <1>0, <3>2, <4>3, <4>6
        <4>8. ((c + 1) - 1) * s <= now - begin
          BY <1>0, <4>2, <4>7, OneMorePeriod
        <4>9. history'.calcs[j] = c + 1 /\ rewardhistory'[j] = now /\ history'.first[j] = begin
          BY <2>1, <2>3, <3>4, <4>1
        <4>10. QED
          BY <3>2, <4>8, <4>9
      <3>5. QED
        BY <3>3, <3>4
    <2>4. QED
      BY <2>2, <2>3
  <1>2. CASE UNCHANGED <<rewardhistory, history>>
    BY <1>2 DEF RateLimited
  <1>3. CASE Administers
    <2>1. history'.calcs = history.calcs /\ history'.first = history.first
      BY <1>3 DEF Administers, TypeOK
    <2>2. rewardhistory' = rewardhistory
      BY <1>3 DEF Administers
    <2>3. QED
      BY <2>1, <2>2 DEF RateLimited
  <1>4. CASE \E jobs, P : Calculates(jobs, P)
    BY <1>1, <1>4 DEF RateLimited
  <1>5. QED
    BY <1>2, <1>3, <1>4, Shapes DEF getreward

\* The rewards of a job are calculated at most once in the shortest period,
\* however calcrewards and uptime share its history and rules replace each
\* other, as long as the 32-bit sum of time and period does not wrap around.
THEOREM RateIsLimited == PeriodsFit => (Spec => []RateLimited)
  <1> SUFFICES ASSUME PeriodsFit
               PROVE  Spec => []RateLimited
    OBVIOUS
  <1>1. Init => RateLimited
    BY DEF Init, RateLimited
  <1>2. DistributionInv /\ RateLimited /\ [Next]_vars => RateLimited'
    BY RateStep
  <1>3. QED
    BY <1>1, <1>2, DistributionInvariant, PTL DEF Spec

-----------------------------------------------------------------------------
(* Rewards of nothing.                                                       *)

\* A reward of 0, which a rule may set and the token contract refuses to
\* transfer, is never paid, and holds back the rewards before and after it.
THEOREM ZeroRewardsBlock == Spec => ZeroRewardBlocks
  <1>1. ASSUME DistributionInv, [Next]_vars, NEW n \in Nodes,
               NEW i \in 1..Len(nodereward[n]), nodereward[n][i] = 0
        PROVE  received'[n] = received[n] /\ Len(nodereward'[n]) >= Len(nodereward[n])
    <2>0. TypeOK /\ received[n] \in Nat /\ Len(nodereward[n]) \in Nat
      BY <1>1, Types, LenProperties DEF DistributionInv
    <2>1. ASSUME NEW jobs, NEW P, Calculates(jobs, P)
          PROVE  received'[n] = received[n] /\ Len(nodereward'[n]) >= Len(nodereward[n])
      <3>1. PICK rows : rows = RewardedFor(jobs)[n]
        OBVIOUS
      <3>2. Len(rows) >= Len(nodereward[n]) /\ i \in 1..Len(rows) /\ rows[i] = 0
        BY <1>1, <2>0, <2>1, <3>1, RewardedRows DEF Calculates
      <3>3. n \notin P
        BY <2>1, <3>1, <3>2 DEF Calculates, CanPay
      <3>4. nodereward'[n] = rows
        BY <2>1, <3>1, <3>3 DEF Calculates
      <3>5. received'[n] = received[n] + 0
        BY <2>1, <3>3 DEF Calculates
      <3>6. QED
        BY <2>0, <3>2, <3>4, <3>5
    <2>2. ASSUME NEW m \in Nodes, getreward(m)
          PROVE  received'[n] = received[n] /\ Len(nodereward'[n]) >= Len(nodereward[n])
      <3>1. m # n
        BY <1>1, <2>2 DEF getreward, CanPay
      <3>2. received'[n] = received[n] /\ nodereward'[n] = nodereward[n]
        BY <2>0, <2>2, <3>1, Types DEF getreward, Erased
      <3>3. QED
        BY <2>0, <3>2
    <2>3. CASE Administers
      BY <2>0, <2>3 DEF Administers
    <2>4. QED
      BY <1>1, <2>0, <2>1, <2>2, <2>3, Shapes
  <1>2. DistributionInv /\ [Next]_vars
        => [\A n \in Nodes : (\E i \in 1..Len(nodereward[n]) : nodereward[n][i] = 0) =>
              /\ received'[n] = received[n]
              /\ Len(nodereward'[n]) >= Len(nodereward[n])]_vars
    BY <1>1
  <1>3. QED
    BY <1>2, DistributionInvariant, PTL DEF Spec, ZeroRewardBlocks

=============================================================================
