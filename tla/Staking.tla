------------------------------- MODULE Staking -------------------------------
(***************************************************************************)
(* volentixstak, the staking contract, together with the VTX ledger it     *)
(* holds the stakes in.  A user stakes by transferring tokens to the       *)
(* contract with the number of 30-day periods as the memo; the contract is *)
(* notified of the transfer and both happen in one transaction, or neither *)
(* does.  unstake pays every stake that has come due, with its subsidy.    *)
(***************************************************************************)
EXTENDS Ledger

CONSTANTS
    NumUsers,         \* users are the names 1..NumUsers
    MaxRows,          \* bound: ids in the stake table of one account
    MIN_STAKE_AMOUNT, \* 1000 VTX in the code
    MAX_STAKE_AMOUNT, \* 10,000,000 VTX in the code
    STAKE_PERIOD,     \* 30 days in the code
    Quantities,       \* bound: amounts transferred
    Memos,            \* bound: integers that stoi reads from a memo
    Horizon,          \* bound: the last modelled time
    MaxClears,        \* bound: calls of clearstakes and clearglobals
    UserFunds,        \* initial balance of every user
    TokenFunds        \* initial balance of the token account

ASSUME StakingAssumption ==
    /\ NumUsers \in Nat
    /\ MaxRows \in Nat
    /\ MIN_STAKE_AMOUNT \in Nat \ {0}
    /\ MAX_STAKE_AMOUNT \in Nat
    /\ STAKE_PERIOD \in Nat
    /\ Quantities \subseteq Int
    /\ Memos \subseteq Int
    /\ Horizon \in Nat
    /\ MaxClears \in Nat
    /\ UserFunds \in Nat
    /\ TokenFunds \in Nat

Users == 1..NumUsers
Self == NumUsers + 1      \* the account of the staking contract
TOKEN_ACC == NumUsers + 2 \* volentixtsys, whose transfers are not stakes
Names == 1..(NumUsers + 2)
Ids == 1..MaxRows         \* id k of the code is k + 1 here
MaxPeriods == 10

VARIABLES
    balance,    \* the VTX ledger
    stakes,     \* stakes[u][id]: the accountstake table of scope u
    globals,    \* the globalamount singleton
    blacklist,  \* accounts that may not unstake
    now,        \* current_time_point().sec_since_epoch()
    history     \* what went in and out; no code reads it

vars == <<balance, stakes, globals, blacklist, now, history>>

NoRow == [amount |-> 0, subsidy |-> 0, unlock_timestamp |-> 0]

ZeroGlobals(initialised) ==
    [init |-> initialised, currently_staked |-> 0,
     cumulative_staked |-> 0, cumulative_subsidy |-> 0]

Init ==
    /\ balance = [n \in Names |-> IF n \in Users THEN UserFunds
                                  ELSE IF n = TOKEN_ACC THEN TokenFunds ELSE 0]
    /\ stakes = [u \in Users |-> [k \in Ids |-> NoRow]]
    /\ globals = ZeroGlobals(FALSE)
    /\ blacklist = {}
    /\ now = 0
    /\ history = [funded |-> 0, returned |-> 0, subsidyPaid |-> 0,
                  forfeited |-> 0, forfeitedSubsidy |-> 0, reset |-> FALSE, clears |-> 0]

-----------------------------------------------------------------------------
\* uint16_t periods_num = stoi(memo): negative and large numbers wrap.
PeriodsOf(memo) == memo % 65536

check_quantity(quantity) ==
    /\ quantity >= MIN_STAKE_AMOUNT
    /\ quantity <= MAX_STAKE_AMOUNT

\* Fault: any number of periods is accepted.
AnyPeriods(periods_num) == TRUE

\* "max allowed periods num is 10 stake periods"
PeriodsAllowed(periods_num) == periods_num <= MaxPeriods

\* (1 + periods_num / 10.0) / 100 of the amount, computed in double precision
\* and truncated: within one unit of the exact quotient, on either side.
calculate_subsidy(quantity, periods_num) ==
    LET exact == (quantity * (10 + periods_num)) \div 1000
    IN  {s \in (exact - 1)..(exact + 1) : s >= 0}

Present(table) == {k \in Ids : table[k].amount # 0}

\* available_primary_key(): one past the last id in use, the first id if none.
IsNextId(table, id) ==
    /\ id \in Ids
    /\ \A k \in Present(table) : k < id
    /\ id = 1 \/ id - 1 \in Present(table)

\* Fault: the subsidies already promised are left out of the limit.
PrincipalBelowLimit(quantity, subsidy) ==
    globals.cumulative_staked + quantity + subsidy <= MAX_STAKE_AMOUNT

\* "Exceed total limit"
BelowLimit(quantity, subsidy) ==
    globals.cumulative_staked + globals.cumulative_subsidy + quantity + subsidy
        <= MAX_STAKE_AMOUNT

\* Fault: the promised subsidy is not added up.
PrincipalOnly(quantity, subsidy) ==
    [globals EXCEPT !.currently_staked = @ + quantity,
                    !.cumulative_staked = @ + quantity]

\* update_globals(quantity, subsidy, false)
StakedGlobals(quantity, subsidy) ==
    [globals EXCEPT !.currently_staked = @ + quantity,
                    !.cumulative_staked = @ + quantity,
                    !.cumulative_subsidy = @ + subsidy]

\* A transfer of a user to the contract, and the notification it triggers.
onTransfer(from, quantity, memo) ==
    /\ CanTransfer(balance, from, Self, quantity)
    /\ check_quantity(quantity)
    /\ PeriodsAllowed(PeriodsOf(memo))
    /\ globals.init
    /\ \E subsidy \in calculate_subsidy(quantity, PeriodsOf(memo)), id \in Ids :
          /\ BelowLimit(quantity, subsidy)
          /\ IsNextId(stakes[from], id)
          /\ stakes' = [stakes EXCEPT ![from][id] =
                [amount |-> quantity, subsidy |-> subsidy,
                 unlock_timestamp |-> now + PeriodsOf(memo) * STAKE_PERIOD]]
          /\ globals' = StakedGlobals(quantity, subsidy)
    /\ balance' = Transferred(balance, from, Self, quantity)
    /\ UNCHANGED <<blacklist, now, history>>

\* A transfer of the token account: onTransfer returns before it stakes.
\* These tokens are what the subsidies are paid from.
fund(quantity) ==
    /\ CanTransfer(balance, TOKEN_ACC, Self, quantity)
    /\ balance' = Transferred(balance, TOKEN_ACC, Self, quantity)
    /\ history' = [history EXCEPT !.funded = @ + quantity]
    /\ UNCHANGED <<stakes, globals, blacklist, now>>

-----------------------------------------------------------------------------
\* Fault: the lock of a stake is not looked at.
AnyRow(row) == row.amount # 0

\* timestamp >= unlock_timestamp
Due(row) == row.amount # 0 /\ now >= row.unlock_timestamp

DueAmount(table) == [k \in Ids |-> IF Due(table[k]) THEN table[k].amount ELSE 0]
DueSubsidy(table) == [k \in Ids |-> IF Due(table[k]) THEN table[k].subsidy ELSE 0]
Payout(table) == Total(DueAmount(table), MaxRows) + Total(DueSubsidy(table), MaxRows)

\* Fault: the paid rows stay in the table.
NotErased(table) == table

\* The table without its due rows.
Erased(table) == [k \in Ids |-> IF Due(table[k]) THEN NoRow ELSE table[k]]

\* Fault: the principal that leaves is not taken off the global amount.
NoUnstakedGlobals(table) == globals

\* update_globals(..., true) once per erased row: only currently_staked moves.
UnstakedGlobals(table) ==
    [globals EXCEPT !.currently_staked = @ - Total(DueAmount(table), MaxRows)]

\* unstake, called by the owner or by the contract itself, with the inline
\* transfer that pays.  Nothing due, or too small a balance, fails the token's
\* checks and with them the whole transaction.
unstake(owner) ==
    /\ owner \notin blacklist
    /\ globals.init
    /\ CanTransfer(balance, Self, owner, Payout(stakes[owner]))
    /\ balance' = Transferred(balance, Self, owner, Payout(stakes[owner]))
    /\ stakes' = [stakes EXCEPT ![owner] = Erased(@)]
    /\ globals' = UnstakedGlobals(stakes[owner])
    /\ history' = [history EXCEPT
                      !.returned = @ + Total(DueAmount(stakes[owner]), MaxRows),
                      !.subsidyPaid = @ + Total(DueSubsidy(stakes[owner]), MaxRows)]
    /\ UNCHANGED <<blacklist, now>>

-----------------------------------------------------------------------------
initglobal ==
    /\ globals' = IF globals.init THEN globals ELSE ZeroGlobals(TRUE)
    /\ UNCHANGED <<balance, stakes, blacklist, now, history>>

addblacklist(account) ==
    /\ blacklist' = blacklist \cup {account}
    /\ UNCHANGED <<balance, stakes, globals, now, history>>

rmblacklist(account) ==
    /\ blacklist' = blacklist \ {account}
    /\ UNCHANGED <<balance, stakes, globals, now, history>>

Amounts(table) == [k \in Ids |-> table[k].amount]
Subsidies(table) == [k \in Ids |-> table[k].subsidy]

\* Erases the rows of an account; the tokens stay, and so do the globals.
clearstakes(account) ==
    /\ history.clears < MaxClears
    /\ stakes' = [stakes EXCEPT ![account] = [k \in Ids |-> NoRow]]
    /\ history' = [history EXCEPT
                      !.forfeited = @ + Total(Amounts(stakes[account]), MaxRows),
                      !.forfeitedSubsidy = @ + Total(Subsidies(stakes[account]), MaxRows),
                      !.clears = @ + 1]
    /\ UNCHANGED <<balance, globals, blacklist, now>>

clearglobals ==
    /\ history.clears < MaxClears
    /\ globals' = ZeroGlobals(TRUE)
    /\ history' = [history EXCEPT !.reset = TRUE, !.clears = @ + 1]
    /\ UNCHANGED <<balance, stakes, blacklist, now>>

\* The chain's clock.
Tick ==
    /\ now < Horizon
    /\ now' = now + 1
    /\ UNCHANGED <<balance, stakes, globals, blacklist, history>>

Next ==
    \/ \E u \in Users, q \in Quantities, m \in Memos : onTransfer(u, q, m)
    \/ \E q \in Quantities : fund(q)
    \/ \E u \in Users : unstake(u)
    \/ initglobal
    \/ \E u \in Users : addblacklist(u)
    \/ \E u \in Users : rmblacklist(u)
    \/ \E u \in Users : clearstakes(u)
    \/ clearglobals
    \/ Tick

Spec == Init /\ [][Next]_vars

-----------------------------------------------------------------------------
Row == [amount : Nat, subsidy : Nat, unlock_timestamp : Nat]

\* Types of the tables.  currently_staked is signed: after clearglobals it may
\* be driven below zero.
TypeOK ==
    /\ balance \in [Names -> Nat]
    /\ stakes \in [Users -> [Ids -> Row]]
    /\ globals \in [init : BOOLEAN, currently_staked : Int,
                    cumulative_staked : Nat, cumulative_subsidy : Nat]
    /\ blacklist \subseteq Users
    /\ now \in Nat
    /\ history \in [funded : Nat, returned : Nat, subsidyPaid : Nat,
                    forfeited : Nat, forfeitedSubsidy : Nat, reset : BOOLEAN, clears : Nat]

\* Principal and subsidy of all stakes in the tables t, and of the open ones.
PrincipalIn(t) == Total([u \in Users |-> Total(Amounts(t[u]), MaxRows)], NumUsers)
PromisedIn(t) == Total([u \in Users |-> Total(Subsidies(t[u]), MaxRows)], NumUsers)
Principal == PrincipalIn(stakes)
Promised == PromisedIn(stakes)

\* The contract's token balance is what it was funded with, plus the principal
\* of the open stakes and of the erased ones, less the subsidies it has paid:
\* whatever the order of stakes, payouts and administrative clears, principal
\* is never paid twice and never lost.
Backed ==
    balance[Self] + history.subsidyPaid
        = history.funded + history.forfeited + Principal

\* Until clearglobals, the three global amounts agree with the tables they
\* summarise.  clearstakes leaves them alone, so erased stakes keep counting.
GlobalsExact ==
    ~history.reset =>
        /\ globals.currently_staked = Principal + history.forfeited
        /\ globals.cumulative_staked = globals.currently_staked + history.returned
        /\ globals.cumulative_subsidy
              = history.subsidyPaid + Promised + history.forfeitedSubsidy

\* All that was ever staked and promised stays within MAX_STAKE_AMOUNT.
LimitHolds ==
    globals.cumulative_staked + globals.cumulative_subsidy <= MAX_STAKE_AMOUNT

\* If the token account has funded the subsidies promised so far, the contract
\* can pay everybody at once.
Solvent ==
    ~history.reset /\ history.funded >= globals.cumulative_subsidy
        => balance[Self] >= Principal + Promised

\* No memo, however it wraps, locks a stake for more than 10 periods.
LockBounded ==
    \A u \in Users, k \in Ids :
        stakes[u][k].unlock_timestamp <= now + MaxPeriods * STAKE_PERIOD

\* A user's balance grows only by stakes that have come due, which disappear in
\* the same step, by exactly their principal and subsidy, and not while the
\* user is blacklisted.
PaysExactlyTheDue ==
    [][\A u \in Users : balance'[u] > balance[u] =>
          /\ u \notin blacklist
          /\ balance'[u] - balance[u]
                = Total([k \in Ids |->
                     IF stakes[u][k].amount # 0 /\ stakes'[u][k] = NoRow
                     THEN stakes[u][k].amount + stakes[u][k].subsidy ELSE 0], MaxRows)
          /\ \A k \in Ids : stakes'[u][k] # stakes[u][k] =>
                /\ now >= stakes[u][k].unlock_timestamp
                /\ stakes'[u][k] = NoRow]_vars

\* A due stake can always be withdrawn when the subsidies are funded: no
\* history of the contract leaves an unstake that the checks reject.
Withdrawable ==
    \A u \in Users :
        /\ ~history.reset
        /\ history.funded >= globals.cumulative_subsidy
        /\ u \notin blacklist
        /\ \E k \in Ids : Due(stakes[u][k])
        => ENABLED unstake(u)

=============================================================================
