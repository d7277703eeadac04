---------------------------- MODULE Distribution ----------------------------
(***************************************************************************)
(* vtxdistribut, which rewards the elected nodes.  calcrewards writes one  *)
(* reward per producer, at most once in a period for each job id;          *)
(* getreward pays the rewards of a node; uptime does both for everybody in *)
(* one transaction.  Each payment is an inline transfer of the VTX token,  *)
(* and one that the token contract refuses reverts the whole transaction.  *)
(***************************************************************************)
EXTENDS Totals, Sequences, FiniteSets

CONSTANTS
    NumNodes,   \* nodes are the names 1..NumNodes
    JobIds,     \* bound: job ids calcrewards is called with
    Rules,      \* bound: rules the treasury sets
    Rankings,   \* bound: rankings of the producers in volentixvote
    Flagged,    \* bound: accounts that use usblacklist and inituptime
    Deposits,   \* bound: amounts transferred to the contract
    MaxFunds,   \* bound: total of the deposits
    MaxRows,    \* bound: unpaid rewards of one node
    Horizon,    \* bound: the last modelled time
    U32         \* 2^32, the width of timestamps and periods

Nodes == 1..NumNodes

Rule == [reward_id : JobIds \ {0}, reward_period : 0..(U32 - 1), reward_amount : Nat,
         standby_amount : Nat, rank_threshold : Nat, standby_rank_threshold : Nat]

ASSUME DistributionAssumption ==
    /\ NumNodes \in Nat
    /\ {1, 2} \subseteq JobIds
    /\ U32 \in Nat \ {0}
    /\ Rules \subseteq Rule
    /\ Rankings \subseteq Seq(Nodes)
    /\ Flagged \subseteq Nodes
    /\ Deposits \subseteq Nat \ {0}
    /\ MaxFunds \in Nat
    /\ MaxRows \in Nat
    /\ Horizon \in 0..(U32 - 1)

\* No row in rewards.
NoRule == [reward_id |-> 0, reward_period |-> 0, reward_amount |-> 0,
           standby_amount |-> 0, rank_threshold |-> 0, standby_rank_threshold |-> 0]
Never == -1 \* no row in rewardhistory

VARIABLES
    rewards,        \* the rule of each reward id
    rewardhistory,  \* when the rewards of each job were last calculated
    nodereward,     \* the unpaid rewards of each node, oldest first
    ranking,        \* the producers of volentixvote, best first
    balance,        \* VTX of the contract
    received,       \* VTX paid to each node
    usblacklist,
    inituptime,     \* accounts with a row in inituptime
    now,
    history         \* what was credited, and the calculations made; no code reads it

vars == <<rewards, rewardhistory, nodereward, ranking, balance, received,
          usblacklist, inituptime, now, history>>

Init ==
    /\ rewards = [j \in JobIds |-> NoRule]
    /\ rewardhistory = [j \in JobIds |-> Never]
    /\ nodereward = [n \in Nodes |-> <<>>]
    /\ ranking = <<>>
    /\ balance = 0
    /\ received = [n \in Nodes |-> 0]
    /\ usblacklist = {}
    /\ inituptime = {}
    /\ now = 0
    /\ history = [funded |-> 0, credited |-> [n \in Nodes |-> 0],
                  calcs |-> [j \in JobIds |-> 0], first |-> [j \in JobIds |-> 0]]

-----------------------------------------------------------------------------
setrewardrule(rule) ==
    /\ rewards' = [rewards EXCEPT ![rule.reward_id] = rule]
    /\ UNCHANGED <<rewardhistory, nodereward, ranking, balance, received,
                   usblacklist, inituptime, now, history>>

Ranked == {ranking[i] : i \in 1..Len(ranking)}

\* The place of a producer, counted from 0.
get_rank(node) == (CHOOSE i \in 1..Len(ranking) : ranking[i] = node) - 1

\* Every job is rewarded by rule 2.
RewardFor(node) ==
    IF get_rank(node) < rewards[2].rank_threshold
    THEN rewards[2].reward_amount
    ELSE rewards[2].standby_amount

\* Fault: the period is not added to the last timestamp.
AnyTime(job) == rewards[2] # NoRule

\* A 32-bit sum of the last timestamp and the period.
PeriodOver(job) ==
    /\ rewards[2] # NoRule
    /\ \/ rewardhistory[job] = Never
       \/ now >= (rewardhistory[job] + rewards[2].reward_period) % U32

\* add_reward for every producer: get_top_nodes returns all of them.
Rewarded(table) ==
    [n \in Nodes |-> IF n \in Ranked THEN Append(table[n], RewardFor(n)) ELSE table[n]]

\* The record of one calculation of each job in jobs.
Credited(jobs) ==
    [history EXCEPT
        !.credited = [n \in Nodes |->
            IF n \in Ranked THEN @[n] + Cardinality(jobs) * RewardFor(n) ELSE @[n]],
        !.calcs = [j \in JobIds |-> IF j \in jobs THEN @[j] + 1 ELSE @[j]],
        !.first = [j \in JobIds |->
            IF j \in jobs /\ rewardhistory[j] = Never THEN now ELSE @[j]]]

calcrewards(job) ==
    /\ \A n \in Nodes : Len(nodereward[n]) < MaxRows
    /\ PeriodOver(job)
    /\ rewardhistory' = [rewardhistory EXCEPT ![job] = now]
    /\ nodereward' = Rewarded(nodereward)
    /\ history' = Credited({job})
    /\ UNCHANGED <<rewards, ranking, balance, received, usblacklist, inituptime, now>>

-----------------------------------------------------------------------------
Owed(rows) == Total(rows, Len(rows))

\* Fault: transfers of nothing are accepted.
CanPayNothing(rows) == \A i \in 1..Len(rows) : rows[i] >= 0

\* payreward for every row: the token contract transfers positive amounts only.
CanPay(rows) == \A i \in 1..Len(rows) : rows[i] > 0

CanAfford(amount) == balance >= amount

\* Fault: the rows stay in the table.
NotErased(node) == nodereward

Erased(node) == [nodereward EXCEPT ![node] = <<>>]

\* Anybody may call getreward; with nothing to pay it does nothing.
getreward(node) ==
    /\ CanPay(nodereward[node])
    /\ CanAfford(Owed(nodereward[node]))
    /\ balance' = balance - Owed(nodereward[node])
    /\ received' = [received EXCEPT ![node] = @ + Owed(nodereward[node])]
    /\ nodereward' = Erased(node)
    /\ UNCHANGED <<rewards, rewardhistory, ranking, usblacklist, inituptime, now, history>>

\* The nodes uptime pays.
PaidByUptime(account) == Ranked

\* calcrewards for jobs 1 and 2, then getreward for every producer.
uptime(account) ==
    /\ account \in Ranked
    /\ \A n \in Nodes : Len(nodereward[n]) + 1 < MaxRows
    /\ PeriodOver(1) /\ PeriodOver(2)
    /\ rewardhistory' = [rewardhistory EXCEPT ![1] = now, ![2] = now]
    /\ LET rows == Rewarded(Rewarded(nodereward))
           paid == [n \in Nodes |-> IF n \in PaidByUptime(account) THEN Owed(rows[n]) ELSE 0]
       IN  /\ \A n \in PaidByUptime(account) : CanPay(rows[n])
           /\ CanAfford(Total(paid, NumNodes))
           /\ balance' = balance - Total(paid, NumNodes)
           /\ received' = [n \in Nodes |-> received[n] + paid[n]]
           /\ nodereward' = [n \in Nodes |->
                                IF n \in PaidByUptime(account) THEN <<>> ELSE rows[n]]
    /\ history' = Credited({1, 2})
    /\ UNCHANGED <<rewards, ranking, usblacklist, inituptime, now>>

-----------------------------------------------------------------------------
addblacklist(account) ==
    /\ account \notin usblacklist
    /\ usblacklist' = usblacklist \cup {account}
    /\ UNCHANGED <<rewards, rewardhistory, nodereward, ranking, balance, received,
                   inituptime, now, history>>

rmblacklist(account) ==
    /\ account \in usblacklist
    /\ usblacklist' = usblacklist \ {account}
    /\ UNCHANGED <<rewards, rewardhistory, nodereward, ranking, balance, received,
                   inituptime, now, history>>

initup(account) ==
    /\ account \notin inituptime
    /\ inituptime' = inituptime \cup {account}
    /\ UNCHANGED <<rewards, rewardhistory, nodereward, ranking, balance, received,
                   usblacklist, now, history>>

rmup(account) ==
    /\ account \in inituptime
    /\ inituptime' = inituptime \ {account}
    /\ UNCHANGED <<rewards, rewardhistory, nodereward, ranking, balance, received,
                   usblacklist, now, history>>

\* Votes change the ranking; producers never leave the table.
Election(r) ==
    /\ Ranked \subseteq {r[i] : i \in 1..Len(r)}
    /\ ranking' = r
    /\ UNCHANGED <<rewards, rewardhistory, nodereward, balance, received,
                   usblacklist, inituptime, now, history>>

\* The treasury's transfers to the contract.
Deposit(q) ==
    /\ history.funded + q <= MaxFunds
    /\ balance' = balance + q
    /\ history' = [history EXCEPT !.funded = @ + q]
    /\ UNCHANGED <<rewards, rewardhistory, nodereward, ranking, received,
                   usblacklist, inituptime, now>>

Tick ==
    /\ now < Horizon
    /\ now' = now + 1
    /\ UNCHANGED <<rewards, rewardhistory, nodereward, ranking, balance, received,
                   usblacklist, inituptime, history>>

Next ==
    \/ \E r \in Rules : setrewardrule(r)
    \/ \E j \in JobIds : calcrewards(j)
    \/ \E n \in Nodes : getreward(n)
    \/ \E n \in Nodes : uptime(n)
    \/ \E n \in Flagged : addblacklist(n)
    \/ \E n \in Flagged : rmblacklist(n)
    \/ \E n \in Flagged : initup(n)
    \/ \E n \in Flagged : rmup(n)
    \/ \E r \in Rankings : Election(r)
    \/ \E q \in Deposits : Deposit(q)
    \/ Tick

Spec == Init /\ [][Next]_vars

-----------------------------------------------------------------------------
\* Types of the tables.
TypeOK ==
    /\ rewards \in [JobIds -> Rules \cup {NoRule}]
    /\ rewardhistory \in [JobIds -> (0..Horizon) \cup {Never}]
    /\ nodereward \in [Nodes -> Seq(Nat)]
    /\ ranking \in Rankings \cup {<<>>}
    /\ balance \in Nat
    /\ received \in [Nodes -> Nat]
    /\ usblacklist \subseteq Nodes
    /\ inituptime \subseteq Nodes
    /\ now \in 0..Horizon
    /\ history \in [funded : 0..MaxFunds, credited : [Nodes -> Nat],
                    calcs : [JobIds -> Nat], first : [JobIds -> 0..Horizon]]

\* Every reward is paid once: what a node received and is still owed is what it
\* was credited, and what left the contract is what the nodes received, however
\* getreward, uptime and calcrewards interleave and transactions revert.
RewardsConserved ==
    /\ \A n \in Nodes : received[n] + Owed(nodereward[n]) = history.credited[n]
    /\ balance + Total(received, NumNodes) = history.funded

\* The shortest period of a rule for reward id 2.
ShortestPeriod ==
    LET periods == {r.reward_period : r \in {s \in Rules : s.reward_id = 2}}
    IN  CHOOSE p \in periods : \A q \in periods : p <= q

\* However calcrewards and uptime share the history of a job, and whatever rules
\* replace each other, the rewards of a job are calculated at most once in the
\* shortest period.
RateLimited ==
    \A j \in JobIds :
        history.calcs[j] > 0 =>
            (history.calcs[j] - 1) * ShortestPeriod <= rewardhistory[j] - history.first[j]

\* A reward of 0, which a rule may set and the token contract refuses to
\* transfer, is never paid, and holds back the rewards before and after it.
ZeroRewardBlocks ==
    [][\A n \in Nodes : (\E i \in 1..Len(nodereward[n]) : nodereward[n][i] = 0) =>
          /\ received'[n] = received[n]
          /\ Len(nodereward'[n]) >= Len(nodereward[n])]_vars

=============================================================================
