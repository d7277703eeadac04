------------------------------ MODULE Custodian ------------------------------
(***************************************************************************)
(* vltxcstdn, the custodian contract.  Oracles report the VTX balance of   *)
(* the Ethereum pool; the contract keeps a window of recent reports and,   *)
(* when they agree, retires on EOS the VTX that has left the pool and      *)
(* records the new balance.                                                *)
(*                                                                         *)
(* The counter `same` and the value `previous` of updtblnc are read before *)
(* they are written, so their first values are any the build may produce.  *)
(***************************************************************************)
EXTENDS Integers, Sequences, FiniteSets

CONSTANTS
    Oracles,          \* accounts that report
    Window,           \* reports kept; 8 in the code
    U64,              \* 2^64
    Reports,          \* bound: balances reported and initialised
    SameGarbage,      \* values `same` may hold before it is assigned
    PreviousGarbage,  \* values `previous` may hold before it is assigned
    IssuerFunds,      \* VTX the token issuer holds, the most it can retire
    MaxInits          \* bound: calls of initbalance

ASSUME CustodianAssumption ==
    /\ Window \in Nat \ {0}
    /\ U64 \in Nat \ {0}
    /\ Reports \subseteq 0..(U64 - 1)
    /\ SameGarbage \subseteq 0..(U64 - 1)
    /\ PreviousGarbage \subseteq 0..(U64 - 1)
    /\ IssuerFunds \in Nat
    /\ MaxInits \in Nat

NoBalance == -1 \* the currentbal singleton does not exist

VARIABLES
    balances,     \* the reports, oldest first
    currentbal,   \* the recorded balance, or NoBalance
    issuerFunds,  \* the issuer's VTX balance in the token contract
    staked,       \* the oracles with at least 10000 VTX staked
    nodelist,     \* regnodelist
    history       \* [inits, credited, retired]; no code reads it

vars == <<balances, currentbal, issuerFunds, staked, nodelist, history>>

Init ==
    /\ balances = <<>>
    /\ currentbal = NoBalance
    /\ issuerFunds = IssuerFunds
    /\ staked = {}
    /\ nodelist = {}
    /\ history = [inits |-> 0, credited |-> 0, retired |-> 0]

-----------------------------------------------------------------------------
initbalance(balance) ==
    /\ history.inits < MaxInits
    /\ currentbal' = balance
    /\ history' = [history EXCEPT !.inits = @ + 1,
                                  !.credited = balance + history.retired]
    /\ UNCHANGED <<balances, issuerFunds, staked, nodelist>>

clearblnc ==
    /\ balances' = <<>>
    /\ UNCHANGED <<currentbal, issuerFunds, staked, nodelist, history>>

\* How many reports equal the one before them; the first is compared with
\* whatever `previous` held.
Matches(seen, previous) ==
    Cardinality({i \in 1..Len(seen) :
        seen[i].balance = IF i = 1 THEN previous ELSE seen[i - 1].balance})

\* The rows the loop visits.  begin() was taken before the emplace, so with an
\* empty table it is end() and the new row is not visited.
Seen(account, balance) ==
    IF balances = <<>> THEN <<>>
    ELSE Append(balances, [account |-> account, balance |-> balance])

\* The table afterwards: "if size is greater than 8 remove less recent datapoint".
Kept(account, balance) ==
    LET grown == Append(balances, [account |-> account, balance |-> balance])
    IN  IF Len(Seen(account, balance)) > Window THEN Tail(grown) ELSE grown

\* Fault: the quotient is rounded up instead of down.
RoundedUp(seen, same) == seen # <<>> /\ 2 * same >= Len(seen)

\* same / size is an integer quotient: above .666666 only if it is 1 or more.
Agreed(seen, same) == seen # <<>> /\ same \div Len(seen) >= 1

\* Fault: the sign of the difference is lost.
AbsoluteAmount(balance) ==
    IF balance > currentbal THEN balance - currentbal ELSE currentbal - balance

\* An unsigned difference: a report above the recorded balance wraps.
AmountToTransfer(balance) == (currentbal - balance) % U64

\* The asset constructor and retire refuse what does not fit in 62 bits, which
\* includes every amount that is negative as a signed 64-bit integer.
ValidAmount(amount) == 4 * amount < U64

\* The checks of the token's retire, sub_balance included.
Retirable(amount) == ValidAmount(amount) /\ issuerFunds >= amount

\* Fault: the recorded balance is not moved down.
NotRecorded(balance) == currentbal

Recorded(balance) == balance

\* updtblnc with the inline retire, when `same` and `previous` hold same0 and
\* previous0 at first.  A retire that the token contract refuses reverts the
\* report as well.
updtblncFrom(account, balance, same0, previous0) ==
    LET seen == Seen(account, balance)
        same == (same0 + Matches(seen, previous0)) % U64
        amount == AmountToTransfer(balance)
    IN  \/ /\ amount > 0
           /\ Agreed(seen, same)
           /\ Retirable(amount)
           /\ currentbal' = Recorded(balance)
           /\ issuerFunds' = issuerFunds - amount
           /\ history' = [history EXCEPT !.retired = @ + amount]
        \/ /\ amount = 0 \/ ~Agreed(seen, same)
           /\ UNCHANGED <<currentbal, issuerFunds, history>>

updtblnc(account, balance) ==
    /\ account \in staked
    /\ currentbal # NoBalance
    /\ balances' = Kept(account, balance)
    /\ \E same0 \in SameGarbage, previous0 \in PreviousGarbage :
          updtblncFrom(account, balance, same0, previous0)
    /\ UNCHANGED <<staked, nodelist>>

regnode(account) ==
    /\ nodelist' = nodelist \cup {account}
    /\ UNCHANGED <<balances, currentbal, issuerFunds, staked, history>>

rmnode(account) ==
    /\ nodelist' = nodelist \ {account}
    /\ UNCHANGED <<balances, currentbal, issuerFunds, staked, history>>

\* checknode only fails or does nothing; updtblnc does not call it.
checknode(account) ==
    /\ account \in nodelist
    /\ UNCHANGED vars

\* The staking contract vltxstakenow moves an oracle across the threshold.
stake(account) ==
    /\ staked' = staked \cup {account}
    /\ UNCHANGED <<balances, currentbal, issuerFunds, nodelist, history>>

unstake(account) ==
    /\ staked' = staked \ {account}
    /\ UNCHANGED <<balances, currentbal, issuerFunds, nodelist, history>>

Next ==
    \/ \E b \in Reports : initbalance(b)
    \/ clearblnc
    \/ \E o \in Oracles, b \in Reports : updtblnc(o, b)
    \/ \E o \in Oracles : regnode(o)
    \/ \E o \in Oracles : rmnode(o)
    \/ \E o \in Oracles : checknode(o)
    \/ \E o \in Oracles : stake(o)
    \/ \E o \in Oracles : unstake(o)

Spec == Init /\ [][Next]_vars

-----------------------------------------------------------------------------
Report == [account : Oracles, balance : 0..(U64 - 1)]

\* Types of the tables.
TypeOK ==
    /\ balances \in Seq(Report)
    /\ currentbal \in (0..(U64 - 1)) \cup {NoBalance}
    /\ issuerFunds \in Nat
    /\ staked \subseteq Oracles
    /\ nodelist \subseteq Oracles
    /\ history \in [inits : Nat, credited : Nat, retired : Nat]

\* However reports and clears interleave, and although the oldest report is
\* erased only after the new one was counted, the table never holds more than
\* the window.
WindowBounded == Len(balances) <= Window

\* The VTX retired on EOS is what the recorded balance has lost since it was
\* initialised, modulo 2^64, and the issuer paid for all of it: no report
\* retires twice, and a reverted retire leaves no trace in the record.
PegKept ==
    /\ issuerFunds + history.retired = IssuerFunds
    /\ currentbal # NoBalance =>
          (currentbal + history.retired) % U64 = history.credited % U64

\* Outside initbalance the recorded balance goes down, except when a report is
\* more than three quarters of 2^64 above it and the unsigned difference wraps
\* to an amount that the token contract accepts.
RisesOnlyByWrap ==
    [][ /\ currentbal # NoBalance
        /\ currentbal' > currentbal
        /\ history'.inits = history.inits
        => 4 * (currentbal' - currentbal) > 3 * U64 ]_vars

\* When `same` happens to start from zero, a retire needs every report in the
\* table to be the same, the one that triggers it included: one oracle that
\* disagrees, or whose stale report is still in the window, blocks it.
RetireNeedsUnanimity ==
    [][ history'.retired > history.retired =>
          \A o \in Oracles, b \in Reports, previous0 \in PreviousGarbage :
              updtblncFrom(o, b, 0, previous0)
                => \A i \in 1..Len(balances) : balances[i].balance = b ]_vars

-----------------------------------------------------------------------------
(* What the comments and documents say of the contract.                    *)

\* Reports that equal the report before them, among those in the table.
Consecutive(table) ==
    Cardinality({i \in 2..Len(table) : table[i].balance = table[i - 1].balance})

\* vltxcstdn.cpp: "calculate consecutive 2/3 majority".  A retire happens only
\* when two thirds of the reports agree with their predecessor.
MajorityNecessary ==
    [][ history'.retired > history.retired =>
          3 * Consecutive(balances') >= 2 * Len(balances') ]_vars

=============================================================================
