------------------------------- MODULE Voting -------------------------------
(***************************************************************************)
(* volentixvote, the election of the nodes, with the balances it reads.    *)
(* Two deployments of the staking contract matter to it: voteproducer      *)
(* reads stakes in vltxstakenow, while the notification that recounts a    *)
(* vote comes from volentixstak and reads the liquid balance.              *)
(*                                                                         *)
(* Votes are doubles in the code.  Here they are exact integers, multiples *)
(* of a unit fine enough for the divisions made.                           *)
(***************************************************************************)
EXTENDS Totals, Sequences, FiniteSets

CONSTANTS
    NumAccounts,   \* accounts are the names 1..NumAccounts
    MaxProducers,  \* names on one ballot; 21 in the code
    MinTokens,     \* VTX staked to vote; 10000 in the code
    vtx_precision, \* units in one VTX; 10^8 in the code
    MaxTokens,     \* bound: VTX an account may hold in one place
    Sqrt,          \* the square root, in units of a vote
    Ballots,       \* bound: lists of names submitted
    JobLists,      \* bound: sets of job ids submitted
    Quantities,    \* bound: amounts moved
    Holders,       \* bound: accounts that tokens move between
    Funds          \* initial liquid balances

ASSUME VotingAssumption ==
    /\ NumAccounts \in Nat
    /\ MaxProducers \in Nat
    /\ MinTokens \in Nat
    /\ vtx_precision \in Nat \ {0}
    /\ MaxTokens \in Nat
    /\ Sqrt \in [0..MaxTokens -> Nat]
    /\ Ballots \subseteq Seq(1..NumAccounts)
    /\ Quantities \subseteq Nat \ {0}
    /\ Holders \subseteq 1..NumAccounts
    /\ Funds \in [1..NumAccounts -> 0..(MaxTokens * vtx_precision)]

Accounts == 1..NumAccounts
Infinity == -1 \* the double inf, which a division by an empty ballot gives

VARIABLES
    producers,  \* the producers table
    voters,     \* the voters table
    staked,     \* get_staked_amount of vltxstakenow
    stakedOld,  \* the stakes in volentixstak
    liquid      \* balances in the VTX token contract

money == <<staked, stakedOld, liquid>>
vars == <<producers, voters, money>>

NoProducer == [registered |-> FALSE, is_active |-> FALSE, job_ids |-> {}, total_votes |-> 0]
NoVoter == [voted |-> FALSE, producers |-> <<>>, votes_per_prod |-> 0, tokens |-> 0]

Init ==
    /\ producers = [p \in Accounts |-> NoProducer]
    /\ voters = [v \in Accounts |-> NoVoter]
    /\ staked = [v \in Accounts |-> 0]
    /\ stakedOld = [v \in Accounts |-> 0]
    /\ liquid = Funds

-----------------------------------------------------------------------------
jobs_valid(job_ids) == job_ids \subseteq 1..2

\* A new row, or the old one with its votes kept.
regproducer(producer, job_ids) ==
    /\ jobs_valid(job_ids)
    /\ producers' = [producers EXCEPT ![producer] =
          [@ EXCEPT !.registered = TRUE, !.is_active = TRUE, !.job_ids = job_ids]]
    /\ UNCHANGED <<voters, money>>

unregprod(producer) ==
    /\ producers[producer].registered
    /\ producers' = [producers EXCEPT ![producer].is_active = FALSE]
    /\ UNCHANGED <<voters, money>>

activateprod(producer) ==
    /\ producers[producer].registered
    /\ producers' = [producers EXCEPT ![producer].is_active = TRUE]
    /\ UNCHANGED <<voters, money>>

\* Fault: the last erase of unregprodall is not on end().
ErasedProducers ==
    /\ producers' = [p \in Accounts |-> NoProducer]
    /\ UNCHANGED <<voters, money>>

\* After its loop the code erases end(), which fails and rolls the loop back.
unregprodall == UNCHANGED vars

\* As unregprodall, for the voters.
deluserinfo == UNCHANGED vars

-----------------------------------------------------------------------------
\* How often a name is on a ballot: a ballot may repeat names.
Occurrences(name, ballot) == Cardinality({i \in 1..Len(ballot) : ballot[i] = name})

\* Fault: every name on the ballot gets the whole vote.
WholeVote(tokens, size) == IF size = 0 THEN Infinity ELSE Sqrt[tokens]

VotesPerProd(tokens, size) == IF size = 0 THEN Infinity ELSE Sqrt[tokens] \div size

\* What update_producers requires of a ballot.
CanCount(voter, ballot) ==
    \A i \in 1..Len(ballot) : ballot[i] # voter /\ producers[ballot[i]].registered

\* Fault: the previous vote is not undone.
NotUndone(p, old, ballot, votes_per_prod) ==
    producers[p].total_votes + Occurrences(p, ballot) * votes_per_prod

\* update_producers to undo the old ballot, and again to count the new one.
Recounted(p, old, ballot, votes_per_prod) ==
    producers[p].total_votes
        - Occurrences(p, old.producers) * old.votes_per_prod
        + Occurrences(p, ballot) * votes_per_prod

vote(voter, ballot, tokens) ==
    LET old == voters[voter]
        votes_per_prod == VotesPerProd(tokens, Len(ballot))
    IN  /\ CanCount(voter, old.producers)
        /\ CanCount(voter, ballot)
        /\ producers' = [p \in Accounts |-> [producers[p] EXCEPT
              !.total_votes = Recounted(p, old, ballot, votes_per_prod)]]
        /\ voters' = [voters EXCEPT ![voter] =
              [voted |-> TRUE, producers |-> ballot,
               votes_per_prod |-> votes_per_prod, tokens |-> tokens]]

\* A double made from an integer quotient: fractions of a token are lost.
TokensOf(amount) == amount \div vtx_precision

voteproducer(voter, ballot) ==
    /\ Len(ballot) <= MaxProducers
    /\ TokensOf(staked[voter]) >= MinTokens
    /\ vote(voter, ballot, TokensOf(staked[voter]))
    /\ UNCHANGED money

\* The recount when a voter unstakes: the old ballot, with the weight of the
\* liquid balance, unless that is a single token or less.
updatevote(voter) ==
    IF voters[voter].voted /\ TokensOf(liquid[voter]) > 1
    THEN vote(voter, voters[voter].producers, TokensOf(liquid[voter]))
    ELSE UNCHANGED <<producers, voters>>

-----------------------------------------------------------------------------
Fits(amount) == amount <= MaxTokens * vtx_precision

\* A transfer to a staking contract, and the payment of due stakes; subsidies
\* are transfers like any other.  vltxstakenow does not notify volentixvote.
stake(account, q) ==
    /\ liquid[account] >= q /\ Fits(staked[account] + q)
    /\ liquid' = [liquid EXCEPT ![account] = @ - q]
    /\ staked' = [staked EXCEPT ![account] = @ + q]
    /\ UNCHANGED <<producers, voters, stakedOld>>

unstake(account, q) ==
    /\ staked[account] >= q /\ Fits(liquid[account] + q)
    /\ staked' = [staked EXCEPT ![account] = @ - q]
    /\ liquid' = [liquid EXCEPT ![account] = @ + q]
    /\ UNCHANGED <<producers, voters, stakedOld>>

stakeOld(account, q) ==
    /\ liquid[account] >= q /\ Fits(stakedOld[account] + q)
    /\ liquid' = [liquid EXCEPT ![account] = @ - q]
    /\ stakedOld' = [stakedOld EXCEPT ![account] = @ + q]
    /\ UNCHANGED <<producers, voters, staked>>

\* unstake of volentixstak by its owner: onUnstake runs before the inline
\* transfer pays, in the same transaction.
onUnstake(account, q) ==
    /\ stakedOld[account] >= q /\ Fits(liquid[account] + q)
    /\ updatevote(account)
    /\ stakedOld' = [stakedOld EXCEPT ![account] = @ - q]
    /\ liquid' = [liquid EXCEPT ![account] = @ + q]
    /\ UNCHANGED staked

\* Tokens move between accounts at any time.
transfer(from, to, q) ==
    /\ from # to
    /\ liquid[from] >= q /\ Fits(liquid[to] + q)
    /\ liquid' = [liquid EXCEPT ![from] = @ - q, ![to] = @ + q]
    /\ UNCHANGED <<producers, voters, staked, stakedOld>>

Next ==
    \/ \E p \in Accounts, j \in JobLists : regproducer(p, j)
    \/ \E p \in Accounts : unregprod(p)
    \/ \E p \in Accounts : activateprod(p)
    \/ unregprodall
    \/ deluserinfo
    \/ \E v \in Accounts, b \in Ballots : voteproducer(v, b)
    \/ \E a \in Accounts, q \in Quantities : stake(a, q)
    \/ \E a \in Accounts, q \in Quantities : unstake(a, q)
    \/ \E a \in Accounts, q \in Quantities : stakeOld(a, q)
    \/ \E a \in Accounts, q \in Quantities : onUnstake(a, q)
    \/ \E a, b \in Holders, q \in Quantities : transfer(a, b, q)

Spec == Init /\ [][Next]_vars

-----------------------------------------------------------------------------
\* Fault: the key does not look at is_active.
VotesOnly(p) == -producers[p].total_votes

\* by_votes, the key of the ranking, and the place of a producer in it; an
\* account that is not registered gets the first place.
by_votes(p) ==
    IF producers[p].is_active THEN -producers[p].total_votes ELSE producers[p].total_votes

get_rank(p) ==
    IF ~producers[p].registered THEN 0
    ELSE Cardinality({q \in Accounts :
            /\ producers[q].registered
            /\ by_votes(q) < by_votes(p) \/ (by_votes(q) = by_votes(p) /\ q < p)})

\* Types of the tables.
TypeOK ==
    /\ producers \in [Accounts -> [registered : BOOLEAN, is_active : BOOLEAN,
                                   job_ids : SUBSET (1..2), total_votes : Int]]
    /\ voters \in [Accounts -> [voted : BOOLEAN, producers : Seq(Accounts),
                                votes_per_prod : Nat \cup {Infinity},
                                tokens : 0..MaxTokens]]
    /\ \A table \in {staked, stakedOld, liquid} :
          table \in [Accounts -> 0..(MaxTokens * vtx_precision)]

\* What the votes of v add to p.
Share(p, v) == Occurrences(p, voters[v].producers) * voters[v].votes_per_prod

\* The votes of every producer are the sum of the shares of the ballots that
\* stand, in whatever order votes were cast, changed, and recounted by
\* unstakes, and producers were registered and unregistered.
TallyExact ==
    \A p \in Accounts :
        producers[p].total_votes = Total([v \in Accounts |-> Share(p, v)], NumAccounts)

\* The recount never fails: every standing ballot names only registered
\* producers, and never its voter.  A recount that failed would revert the
\* unstake that caused it, and the stake could not be withdrawn.
RecountPasses == \A v \in Accounts : CanCount(v, voters[v].producers)

\* All votes together weigh no more than the tokens they were cast with:
\* repeating a name, or spreading a ballot, gains nothing.
PowerBounded ==
    Total([p \in Accounts |-> producers[p].total_votes], NumAccounts)
        <= Total([v \in Accounts |-> Sqrt[voters[v].tokens]], NumAccounts)

\* A producer that is active and has votes ranks before every inactive one.
ActiveAhead ==
    \A p, q \in Accounts :
        /\ producers[p].is_active /\ producers[p].total_votes > 0
        /\ producers[q].registered /\ ~producers[q].is_active
        => get_rank(p) < get_rank(q)

=============================================================================
