-------------------------- MODULE Ledger_proofs ------------------------------
(***************************************************************************)
(* The two contracts built on Ledger.  The VTX token: conservation of its  *)
(* supply, for every number of names and accounts, every set of            *)
(* restrictions and every amount.  The staking contract: its accounting,   *)
(* for every number of users, rows, amounts, memos and periods.            *)
(***************************************************************************)
EXTENDS Token, Staking, TotalTheorems

-----------------------------------------------------------------------------
(* The VTX token.                                                            *)

\* A name without a row holds nothing.
RowsCover == \A n \in TokenNames \ rows : balances[n] = 0

\* The inductive invariant.  The type of the supply after retire needs the
\* supply to be the sum of the balances, and that sum survives close and a
\* later emplace only because the rows that do not exist are all empty.
TokenInv ==
    /\ TokenTypeOK
    /\ RowsCover
    /\ Total(balances, NumNames) = stat.supply
    /\ stat.supply <= stat.max_supply
    /\ stat.issuer = NoName => stat.supply = 0

\* The inductive invariant implies the conservation of the supply.
LEMMA InvImpliesConserved == TokenInv => SupplyConserved
<1> SUFFICES ASSUME TokenInv
             PROVE  SupplyConserved
  OBVIOUS
<1>1. balances = [n \in TokenNames |-> balances[n]]
  BY DEF TokenInv, TokenTypeOK
<1>2. Held = [n \in TokenNames |-> balances[n]]
  BY DEF Held, TokenInv, RowsCover
<1>3. QED
  BY <1>1, <1>2 DEF TokenInv, SupplyConserved

\* One balance row changes by d.
LEMMA CreditTotal ==
    ASSUME NEW b \in [TokenNames -> Int], NEW n \in TokenNames, NEW d \in Int
    PROVE  /\ Total(add_balance(b, n, d), NumNames) = Total(b, NumNames) + d
           /\ Total(sub_balance(b, n, d), NumNames) = Total(b, NumNames) - d
<1>1. NumNames \in Nat /\ b \in [1..NumNames -> Int] /\ n \in 1..NumNames
  BY TokenAssumption DEF TokenNames
<1>2. b[n] \in Int /\ Total(b, NumNames) \in Int
  BY <1>1, TotalInt
<1> DEFINE up == add_balance(b, n, d)
           down == sub_balance(b, n, d)
<1>3. /\ up \in [1..NumNames -> Int] /\ up[n] = b[n] + d
      /\ down \in [1..NumNames -> Int] /\ down[n] = b[n] - d
      /\ \A k \in 1..NumNames : k # n => up[k] = b[k] /\ down[k] = b[k]
  BY <1>1, <1>2 DEF add_balance, sub_balance
<1> HIDE DEF up, down
<1>4. Total(up, NumNames) = Total(b, NumNames) + (up[n] - b[n])
  BY <1>1, <1>3, TotalUpdate
<1>5. Total(down, NumNames) = Total(b, NumNames) + (down[n] - b[n])
  BY <1>1, <1>3, TotalUpdate
<1>6. QED
  BY <1>2, <1>3, <1>4, <1>5 DEF up, down

\* A transfer leaves the sum of the balances alone.
LEMMA TransferTotal ==
    ASSUME NEW b \in [TokenNames -> Int], NEW from \in TokenNames, NEW to \in TokenNames, NEW q \in Int
    PROVE  Total(Transferred(b, from, to, q), NumNames) = Total(b, NumNames)
<1> DEFINE c == sub_balance(b, from, q)
<1>1. c \in [TokenNames -> Int]
  BY DEF sub_balance
<1>2. Total(c, NumNames) = Total(b, NumNames) - q
  BY CreditTotal
<1>3. Total(add_balance(c, to, q), NumNames) = Total(c, NumNames) + q
  BY <1>1, CreditTotal
<1>4. Total(b, NumNames) \in Int
  BY TokenAssumption, TotalInt DEF TokenNames
<1>5. QED
  BY <1>2, <1>3, <1>4 DEF Transferred

\* The initial state satisfies the invariant.
LEMMA TokenInvInit == TokenInit => TokenInv
<1> SUFFICES ASSUME TokenInit
             PROVE  TokenInv
  OBVIOUS
<1>1. TokenTypeOK /\ RowsCover
  BY TokenAssumption DEF TokenInit, TokenTypeOK, NoStat, RowsCover
<1>2. Total(balances, NumNames) = 0
  BY TokenAssumption, TotalZero DEF TokenInit, TokenNames
<1>3. QED
  BY <1>1, <1>2 DEF TokenInv, TokenInit, NoStat

\* Every step preserves the invariant.
LEMMA TokenInvNext == TokenInv /\ [TokenNext]_tokenVars => TokenInv'
<1> SUFFICES ASSUME TokenInv, [TokenNext]_tokenVars
             PROVE  TokenInv'
  OBVIOUS
<1> USE TokenAssumption
<1>a. /\ balances \in [TokenNames -> Int]
      /\ stat.supply \in Nat /\ stat.max_supply \in Nat
      /\ \A q \in TokenAmounts : q \in Int
  BY DEF TokenInv, TokenTypeOK
<1>0. CASE UNCHANGED tokenVars
  BY <1>0 DEF TokenInv, TokenTypeOK, RowsCover, tokenVars
<1>1. ASSUME NEW auth \in Levels, NEW a \in TokenNames, NEW l \in RestrictLevels,
             arestriction(auth, a, l)
      PROVE  TokenInv'
  BY <1>1 DEF arestriction, TokenInv, TokenTypeOK, RowsCover
<1>2. ASSUME NEW auth \in Levels, NEW a \in TokenNames, erestriction(auth, a)
      PROVE  TokenInv'
  BY <1>2 DEF erestriction, TokenInv, TokenTypeOK, RowsCover
<1>3. ASSUME NEW auth \in Levels, NEW i \in Accounts, NEW m \in MaxSupplies,
             create(auth, i, m)
      PROVE  TokenInv'
  <2>1. stat' = [issuer |-> i, supply |-> 0, max_supply |-> m] /\ m \in Nat
        /\ signer' = auth /\ UNCHANGED <<rows, balances, restrictions>>
    BY <1>3 DEF create
  <2>2. TokenTypeOK' /\ RowsCover'
    BY <2>1 DEF TokenInv, TokenTypeOK, RowsCover
  <2>3. stat.supply = 0
    BY <1>3 DEF create, TokenInv
  <2>4. QED
    BY <2>1, <2>2, <2>3 DEF TokenInv
<1>4. ASSUME NEW auth \in Levels, NEW to \in TokenNames, NEW q \in TokenAmounts,
             issue(auth, to, q)
      PROVE  TokenInv'
  <2>1. TokenTypeOK' /\ RowsCover'
    BY <1>4 DEF issue, TokenInv, TokenTypeOK, RowsCover, add_balance
  <2>2. Total(balances', NumNames) = Total(balances, NumNames) + q
    BY <1>a, <1>4, CreditTotal DEF issue
  <2>3. /\ stat'.supply = stat.supply + q /\ stat'.max_supply = stat.max_supply
        /\ stat'.issuer # NoName
    BY <1>4 DEF issue, TokenInv, TokenTypeOK
  <2>4. q <= stat.max_supply - stat.supply
    BY <1>4 DEF issue
  <2>5. Total(balances', NumNames) = stat'.supply
    BY <2>2, <2>3 DEF TokenInv
  <2>6. stat'.supply <= stat'.max_supply
    BY <1>a, <2>3, <2>4
  <2>7. QED
    BY <2>1, <2>3, <2>5, <2>6 DEF TokenInv
<1>5. ASSUME NEW auth \in Levels, NEW q \in TokenAmounts, retire(auth, q)
      PROVE  TokenInv'
  <2> DEFINE n == stat.issuer
  <2>1. /\ n \in TokenNames /\ q > 0 /\ q <= balances[n] /\ n \in rows
        /\ balances[n] \in Nat
    BY <1>5 DEF retire, TokenInv, TokenTypeOK
  <2>2. balances[n] <= stat.supply
    BY <2>1, EntryAtMostTotal DEF TokenInv, TokenTypeOK, TokenNames
  <2>3. stat' = [stat EXCEPT !.supply = stat.supply - q]
        /\ balances' = sub_balance(balances, n, q)
        /\ UNCHANGED <<rows, restrictions>> /\ signer' = auth
    BY <1>5 DEF retire
  <2>4. stat.supply - q \in Nat
    BY <1>a, <2>1, <2>2
  <2>5. TokenTypeOK' /\ RowsCover'
    BY <2>1, <2>3, <2>4 DEF TokenInv, TokenTypeOK, RowsCover, sub_balance
  <2>6. Total(balances', NumNames) = Total(balances, NumNames) - q
    BY <1>a, <2>1, <2>3, CreditTotal
  <2>7. /\ stat'.supply = stat.supply - q /\ stat'.max_supply = stat.max_supply
        /\ stat'.issuer # NoName
    BY <1>5, <2>3 DEF retire, TokenInv, TokenTypeOK
  <2>8. Total(balances', NumNames) = stat'.supply
    BY <2>6, <2>7 DEF TokenInv
  <2>9. stat.supply <= stat.max_supply
    BY DEF TokenInv
  <2>10. stat'.supply <= stat'.max_supply
    BY <1>a, <2>1, <2>7, <2>9
  <2>11. QED
    BY <2>5, <2>7, <2>8, <2>10 DEF TokenInv
<1>6. ASSUME NEW auth \in Levels, NEW from \in TokenNames, NEW to \in TokenNames,
             NEW q \in TokenAmounts, transfer(auth, from, to, q)
      PROVE  TokenInv'
  <2>1. TokenTypeOK' /\ RowsCover'
    BY <1>6 DEF transfer, TokenInv, TokenTypeOK, RowsCover, CanTransfer, Transferred,
                add_balance, sub_balance
  <2>2. Total(balances', NumNames) = Total(balances, NumNames)
    BY <1>a, <1>6, TransferTotal DEF transfer
  <2>3. QED
    BY <1>6, <2>1, <2>2 DEF transfer, TokenInv
<1>7. ASSUME NEW auth \in Levels, NEW o \in TokenNames, open(auth, o)
      PROVE  TokenInv'
  BY <1>7 DEF open, TokenInv, TokenTypeOK, RowsCover
<1>8. ASSUME NEW auth \in Levels, NEW o \in TokenNames, close(auth, o)
      PROVE  TokenInv'
  BY <1>8 DEF close, TokenInv, TokenTypeOK, RowsCover
<1>9. QED
  BY <1>0, <1>1, <1>2, <1>3, <1>4, <1>5, <1>6, <1>7, <1>8 DEF TokenNext

\* Every table of the contract keeps its type; no balance and no supply goes
\* negative, retire's unchecked subtraction from the supply included.
THEOREM TokenTypeCorrect == TokenSpec => []TokenTypeOK
<1>1. TokenInv => TokenTypeOK
  BY DEF TokenInv
<1>2. QED
  BY <1>1, TokenInvInit, TokenInvNext, PTL DEF TokenSpec

\* The supply is the sum of the balance rows and stays within the maximum.
THEOREM Conservation == TokenSpec => []SupplyConserved
BY InvImpliesConserved, TokenInvInit, TokenInvNext, PTL DEF TokenSpec

\* A restricted account other than the issuer's is spent from only by the
\* level of its restriction.
THEOREM Restriction == TokenSpec => RestrictionHolds
<1>1. ASSUME TokenTypeOK, TokenNext
      PROVE  \A n \in TokenNames \ {stat.issuer} :
                restrictions[n] # Unrestricted /\ balances'[n] < balances[n]
                   => signer' = restrictions[n]
  <2> SUFFICES ASSUME NEW n \in TokenNames, n # stat.issuer,
                      restrictions[n] # Unrestricted, balances'[n] < balances[n]
               PROVE  signer' = restrictions[n]
    OBVIOUS
  <2> USE TokenAssumption
  <2>0. balances \in [TokenNames -> Nat] /\ \A k \in TokenNames : balances[k] \in Int
    BY <1>1 DEF TokenTypeOK
  <2>1. ~ UNCHANGED balances
    BY <2>0
  <2>2. ASSUME NEW auth \in Levels, NEW to \in TokenNames, NEW q \in TokenAmounts,
               issue(auth, to, q)
        PROVE  FALSE
    BY <2>0, <2>2 DEF issue, add_balance
  <2>3. ASSUME NEW auth \in Levels, NEW q \in TokenAmounts, retire(auth, q)
        PROVE  FALSE
    BY <2>0, <2>3 DEF retire, sub_balance
  <2>4. ASSUME NEW auth \in Levels, NEW from \in TokenNames, NEW to \in TokenNames,
               NEW q \in TokenAmounts, transfer(auth, from, to, q)
        PROVE  signer' = restrictions[n]
    <3>1. n = from
      BY <2>0, <2>4 DEF transfer, CanTransfer, Transferred, add_balance, sub_balance
    <3>2. QED
      BY <2>4, <3>1 DEF transfer, require_from
  <2>5. QED
    BY <1>1, <2>1, <2>2, <2>3, <2>4
       DEF TokenNext, arestriction, erestriction, create, open, close
<1>2. QED
  BY <1>1, TokenTypeCorrect, PTL DEF TokenSpec, RestrictionHolds

-----------------------------------------------------------------------------
(* The staking contract.                                                     *)

Tables == [Users -> [Ids -> Row]]

\* A row that does not exist promises nothing.
RowsClean == \A u \in Users, k \in Ids :
                 stakes[u][k].amount = 0 => stakes[u][k].subsidy = 0

\* Nothing is counted before initglobal or clearglobals has created the row.
InitClean == ~globals.init => globals = ZeroGlobals(FALSE)

\* The inductive invariant: GlobalsExact needs Principal and Promised to be
\* sums over rows that exist, and the type of the ledger needs nothing else.
StakingInv ==
    /\ TypeOK
    /\ RowsClean
    /\ InitClean
    /\ Backed
    /\ GlobalsExact
    /\ LimitHolds
    /\ LockBounded

\* The columns of a table are functions to the naturals, and so are their sums.
LEMMA ColumnTypes ==
    ASSUME NEW t \in [Ids -> Row]
    PROVE  /\ Amounts(t) \in [1..MaxRows -> Nat]
           /\ Subsidies(t) \in [1..MaxRows -> Nat]
           /\ Total(Amounts(t), MaxRows) \in Nat
           /\ Total(Subsidies(t), MaxRows) \in Nat
<1>1. /\ Amounts(t) \in [1..MaxRows -> Nat]
      /\ Subsidies(t) \in [1..MaxRows -> Nat]
  BY DEF Amounts, Subsidies, Ids, Row
<1>2. QED
  BY <1>1, TotalNat, StakingAssumption

\* What is due in a table is a natural number of units.
LEMMA DueTypes ==
    ASSUME NEW t \in [Ids -> Row]
    PROVE  /\ DueAmount(t) \in [1..MaxRows -> Nat]
           /\ DueSubsidy(t) \in [1..MaxRows -> Nat]
           /\ Total(DueAmount(t), MaxRows) \in Nat
           /\ Total(DueSubsidy(t), MaxRows) \in Nat
           /\ Payout(t) \in Nat
<1>1. /\ DueAmount(t) \in [1..MaxRows -> Nat]
      /\ DueSubsidy(t) \in [1..MaxRows -> Nat]
  BY DEF DueAmount, DueSubsidy, Ids, Row
<1>2. /\ Total(DueAmount(t), MaxRows) \in Nat
      /\ Total(DueSubsidy(t), MaxRows) \in Nat
  BY <1>1, TotalNat, StakingAssumption
<1>3. QED
  BY <1>1, <1>2 DEF Payout

\* When only the table of u changes, the grand totals change by its change.
LEMMA OneTableChanges ==
    ASSUME NEW s \in Tables, NEW t \in Tables, NEW u \in Users,
           \A v \in Users : v # u => t[v] = s[v]
    PROVE  /\ PrincipalIn(t) = PrincipalIn(s)
                 + (Total(Amounts(t[u]), MaxRows) - Total(Amounts(s[u]), MaxRows))
           /\ PromisedIn(t) = PromisedIn(s)
                 + (Total(Subsidies(t[u]), MaxRows) - Total(Subsidies(s[u]), MaxRows))
<1> DEFINE f(r) == [v \in Users |-> Total(Amounts(r[v]), MaxRows)]
           g(r) == [v \in Users |-> Total(Subsidies(r[v]), MaxRows)]
<1>1. ASSUME NEW r \in Tables
      PROVE  f(r) \in [1..NumUsers -> Int] /\ g(r) \in [1..NumUsers -> Int]
  <2>1. ASSUME NEW v \in Users
        PROVE  /\ Total(Amounts(r[v]), MaxRows) \in Int
               /\ Total(Subsidies(r[v]), MaxRows) \in Int
    <3>1. r[v] \in [Ids -> Row]
      BY DEF Tables
    <3>2. QED
      BY <3>1, ColumnTypes
  <2>2. QED
    BY <2>1 DEF Users
<1>2. NumUsers \in Nat /\ u \in 1..NumUsers
  BY StakingAssumption DEF Users
<1>3. \A v \in 1..NumUsers : v # u => f(t)[v] = f(s)[v] /\ g(t)[v] = g(s)[v]
  BY DEF Users
<1>4. /\ f(t)[u] = Total(Amounts(t[u]), MaxRows) /\ f(s)[u] = Total(Amounts(s[u]), MaxRows)
      /\ g(t)[u] = Total(Subsidies(t[u]), MaxRows) /\ g(s)[u] = Total(Subsidies(s[u]), MaxRows)
  OBVIOUS
<1>5. f(s) \in [1..NumUsers -> Int] /\ f(t) \in [1..NumUsers -> Int]
      /\ g(s) \in [1..NumUsers -> Int] /\ g(t) \in [1..NumUsers -> Int]
  BY <1>1
<1> HIDE DEF f, g
<1>6. Total(f(t), NumUsers) = Total(f(s), NumUsers) + (f(t)[u] - f(s)[u])
  BY <1>2, <1>3, <1>5, TotalUpdate
<1>7. Total(g(t), NumUsers) = Total(g(s), NumUsers) + (g(t)[u] - g(s)[u])
  BY <1>2, <1>3, <1>5, TotalUpdate
<1>8. /\ PrincipalIn(t) = Total(f(t), NumUsers) /\ PrincipalIn(s) = Total(f(s), NumUsers)
      /\ PromisedIn(t) = Total(g(t), NumUsers) /\ PromisedIn(s) = Total(g(s), NumUsers)
  BY DEF PrincipalIn, PromisedIn, f, g
<1>9. QED
  BY <1>4, <1>6, <1>7, <1>8

\* Principal and promised subsidy over all users are naturals.
LEMMA GrandTotalTypes ==
    ASSUME NEW s \in Tables
    PROVE  PrincipalIn(s) \in Nat /\ PromisedIn(s) \in Nat
<1> DEFINE f == [v \in Users |-> Total(Amounts(s[v]), MaxRows)]
           g == [v \in Users |-> Total(Subsidies(s[v]), MaxRows)]
<1>1. ASSUME NEW v \in Users
      PROVE  /\ Total(Amounts(s[v]), MaxRows) \in Nat
             /\ Total(Subsidies(s[v]), MaxRows) \in Nat
  <2>1. s[v] \in [Ids -> Row]
    BY DEF Tables
  <2>2. QED
    BY <2>1, ColumnTypes
<1>2. f \in [1..NumUsers -> Nat] /\ g \in [1..NumUsers -> Nat]
  BY <1>1 DEF Users
<1> HIDE DEF f, g
<1>3. Total(f, NumUsers) \in Nat /\ Total(g, NumUsers) \in Nat
  BY <1>2, TotalNat, StakingAssumption
<1>4. QED
  BY <1>3 DEF PrincipalIn, PromisedIn, f, g

\* emplace: the sums of the columns grow by the row.
LEMMA EmplaceTotals ==
    ASSUME NEW t \in [Ids -> Row], NEW r \in Row, NEW id \in Ids,
           t[id].amount = 0, t[id].subsidy = 0
    PROVE  /\ Total(Amounts([t EXCEPT ![id] = r]), MaxRows)
                 = Total(Amounts(t), MaxRows) + r.amount
           /\ Total(Subsidies([t EXCEPT ![id] = r]), MaxRows)
                 = Total(Subsidies(t), MaxRows) + r.subsidy
<1> DEFINE w == [t EXCEPT ![id] = r]
           a == Amounts(w)
           b == Subsidies(w)
<1>1. w \in [Ids -> Row] /\ id \in 1..MaxRows /\ r.amount \in Nat /\ r.subsidy \in Nat
  BY DEF Ids, Row
<1>2. /\ a[id] = r.amount /\ b[id] = r.subsidy
      /\ Amounts(t)[id] = 0 /\ Subsidies(t)[id] = 0
      /\ \A k \in 1..MaxRows : k # id =>
            a[k] = Amounts(t)[k] /\ b[k] = Subsidies(t)[k]
  BY DEF Amounts, Subsidies, Ids
<1> HIDE DEF w
<1>3. /\ a \in [1..MaxRows -> Int] /\ b \in [1..MaxRows -> Int]
      /\ Amounts(t) \in [1..MaxRows -> Int] /\ Subsidies(t) \in [1..MaxRows -> Int]
      /\ Total(Amounts(t), MaxRows) \in Int /\ Total(Subsidies(t), MaxRows) \in Int
  BY <1>1, ColumnTypes
<1> HIDE DEF a, b
<1>4. Total(a, MaxRows) = Total(Amounts(t), MaxRows) + (a[id] - Amounts(t)[id])
  BY <1>1, <1>2, <1>3, TotalUpdate, StakingAssumption
<1>5. Total(b, MaxRows) = Total(Subsidies(t), MaxRows) + (b[id] - Subsidies(t)[id])
  BY <1>1, <1>2, <1>3, TotalUpdate, StakingAssumption
<1>6. /\ Total(a, MaxRows) = Total(Amounts(t), MaxRows) + r.amount
      /\ Total(b, MaxRows) = Total(Subsidies(t), MaxRows) + r.subsidy
  BY <1>1, <1>2, <1>3, <1>4, <1>5
<1>7. QED
  BY <1>6, Zenon DEF a, b, w

\* erase: the sums of the columns fall by what was due.
LEMMA EraseTotals ==
    ASSUME NEW t \in [Ids -> Row], \A k \in Ids : t[k].amount = 0 => t[k].subsidy = 0
    PROVE  /\ Erased(t) \in [Ids -> Row]
           /\ Total(Amounts(t), MaxRows)
                 = Total(Amounts(Erased(t)), MaxRows) + Total(DueAmount(t), MaxRows)
           /\ Total(Subsidies(t), MaxRows)
                 = Total(Subsidies(Erased(t)), MaxRows) + Total(DueSubsidy(t), MaxRows)
<1>1. Erased(t) \in [Ids -> Row]
  BY DEF Erased, Row, NoRow
<1>2. \A k \in 1..MaxRows : Amounts(t)[k] = Amounts(Erased(t))[k] + DueAmount(t)[k]
  BY <1>1 DEF Amounts, Erased, DueAmount, Row, NoRow, Ids
<1>3. \A k \in 1..MaxRows : Subsidies(t)[k] = Subsidies(Erased(t))[k] + DueSubsidy(t)[k]
  BY <1>1 DEF Subsidies, Erased, DueSubsidy, Row, NoRow, Ids
<1>4. /\ Amounts(t) \in [1..MaxRows -> Int] /\ Subsidies(t) \in [1..MaxRows -> Int]
      /\ Amounts(Erased(t)) \in [1..MaxRows -> Int]
      /\ Subsidies(Erased(t)) \in [1..MaxRows -> Int]
      /\ DueAmount(t) \in [1..MaxRows -> Int] /\ DueSubsidy(t) \in [1..MaxRows -> Int]
  BY <1>1, ColumnTypes, DueTypes
<1>5. QED
  BY <1>1, <1>2, <1>3, <1>4, TotalSum, StakingAssumption

-----------------------------------------------------------------------------
\* An empty table holds no principal and promises no subsidy.
LEMMA EmptyTotals ==
    LET t == [k \in Ids |-> NoRow]
    IN  Total(Amounts(t), MaxRows) = 0 /\ Total(Subsidies(t), MaxRows) = 0
<1> DEFINE t == [k \in Ids |-> NoRow]
<1>1. Amounts(t) = [k \in 1..MaxRows |-> 0] /\ Subsidies(t) = [k \in 1..MaxRows |-> 0]
  BY DEF Amounts, Subsidies, NoRow, Ids
<1>2. Total([k \in 1..MaxRows |-> 0], MaxRows) = 0
  BY TotalZero, StakingAssumption
<1>3. QED
  BY <1>1, <1>2

\* The initial state satisfies the invariant.
LEMMA StakingInvInit == Init => StakingInv
<1> SUFFICES ASSUME Init
             PROVE  StakingInv
  OBVIOUS
<1> USE StakingAssumption
<1>1. TypeOK
  BY DEF Init, TypeOK, NoRow, Row, ZeroGlobals, Names, Users, Self, TOKEN_ACC
<1>2. RowsClean /\ LockBounded
  BY DEF Init, RowsClean, LockBounded, NoRow, MaxPeriods
<1>2a. InitClean
  BY DEF Init, InitClean
<1>3. Principal = 0 /\ Promised = 0
  <2> DEFINE f == [u \in Users |-> Total(Amounts(stakes[u]), MaxRows)]
             g == [u \in Users |-> Total(Subsidies(stakes[u]), MaxRows)]
  <2>1. \A u \in Users : /\ Total(Amounts(stakes[u]), MaxRows) = 0
                         /\ Total(Subsidies(stakes[u]), MaxRows) = 0
    BY EmptyTotals DEF Init
  <2>2. f = [u \in 1..NumUsers |-> 0] /\ g = [u \in 1..NumUsers |-> 0]
    BY <2>1 DEF Users
  <2>3. Total([u \in 1..NumUsers |-> 0], NumUsers) = 0
    BY TotalZero
  <2>4. QED
    BY <2>2, <2>3 DEF Principal, Promised, PrincipalIn, PromisedIn
<1>4. balance[Self] = 0
  BY DEF Init, Self, Users, Names, TOKEN_ACC
<1>5. Backed /\ GlobalsExact /\ LimitHolds
  BY <1>3, <1>4 DEF Init, Backed, GlobalsExact, LimitHolds, ZeroGlobals
<1>6. QED
  BY <1>1, <1>2, <1>2a, <1>5 DEF StakingInv

\* A transfer between two different names, seen from each name.
LEMMA TransferEffect ==
    ASSUME NEW b \in [Names -> Nat], NEW from \in Names, NEW to \in Names, NEW q \in Int,
           CanTransfer(b, from, to, q)
    PROVE  /\ Transferred(b, from, to, q) \in [Names -> Nat]
           /\ Transferred(b, from, to, q)[from] = b[from] - q
           /\ Transferred(b, from, to, q)[to] = b[to] + q
           /\ \A n \in Names \ {from, to} : Transferred(b, from, to, q)[n] = b[n]
BY DEF CanTransfer, Transferred, add_balance, sub_balance

\* The contract, the token account and the users are different names.
LEMMA NamesFacts ==
    /\ Self \in Names /\ TOKEN_ACC \in Names /\ Users \subseteq Names
    /\ Self # TOKEN_ACC /\ Self \notin Users /\ TOKEN_ACC \notin Users
BY StakingAssumption DEF Self, TOKEN_ACC, Users, Names

\* A stake preserves the invariant: ledger, table and globals move together.
LEMMA onTransferInv ==
    ASSUME StakingInv, NEW u \in Users, NEW q \in Quantities, NEW m \in Memos,
           onTransfer(u, q, m)
    PROVE  StakingInv'
<1> USE StakingAssumption
<1>1. PICK s \in calculate_subsidy(q, PeriodsOf(m)), id \in Ids :
          /\ BelowLimit(q, s)
          /\ IsNextId(stakes[u], id)
          /\ stakes' = [stakes EXCEPT ![u][id] =
                [amount |-> q, subsidy |-> s,
                 unlock_timestamp |-> now + PeriodsOf(m) * STAKE_PERIOD]]
          /\ globals' = StakedGlobals(q, s)
  BY DEF onTransfer
<1> DEFINE p == PeriodsOf(m)
           r == [amount |-> q, subsidy |-> s,
                 unlock_timestamp |-> now + p * STAKE_PERIOD]
<1>2. q \in Nat /\ q > 0 /\ p \in Nat /\ p <= MaxPeriods
  BY DEF onTransfer, check_quantity, PeriodsAllowed, PeriodsOf
<1>3. s \in Nat
  BY <1>1 DEF calculate_subsidy
<1>4. now \in Nat /\ p * STAKE_PERIOD \in Nat /\ p * STAKE_PERIOD <= MaxPeriods * STAKE_PERIOD
  BY <1>2 DEF StakingInv, TypeOK, MaxPeriods
<1>5. r \in Row
  BY <1>2, <1>3, <1>4 DEF Row
<1>6. stakes \in Tables /\ stakes[u] \in [Ids -> Row]
  BY DEF StakingInv, TypeOK, Tables
<1>7. stakes[u][id].amount = 0 /\ stakes[u][id].subsidy = 0
  BY <1>1, <1>6 DEF IsNextId, Present, Ids, StakingInv, RowsClean
<1>8. /\ stakes' \in Tables
      /\ stakes'[u] = [stakes[u] EXCEPT ![id] = r]
      /\ \A v \in Users : v # u => stakes'[v] = stakes[v]
  BY <1>1, <1>5, <1>6 DEF Tables
<1> HIDE DEF r, p
<1>9. /\ Total(Amounts(stakes'[u]), MaxRows) = Total(Amounts(stakes[u]), MaxRows) + r.amount
      /\ Total(Subsidies(stakes'[u]), MaxRows) = Total(Subsidies(stakes[u]), MaxRows) + r.subsidy
  BY <1>5, <1>6, <1>7, <1>8, EmplaceTotals
<1>10. r.amount = q /\ r.subsidy = s /\ r.unlock_timestamp = now + p * STAKE_PERIOD
  BY DEF r
<1>11. /\ Total(Amounts(stakes[u]), MaxRows) \in Nat
       /\ Total(Subsidies(stakes[u]), MaxRows) \in Nat
       /\ PrincipalIn(stakes) \in Nat /\ PromisedIn(stakes) \in Nat
  BY <1>6, ColumnTypes, GrandTotalTypes
<1>12. /\ PrincipalIn(stakes') = PrincipalIn(stakes)
            + (Total(Amounts(stakes'[u]), MaxRows) - Total(Amounts(stakes[u]), MaxRows))
       /\ PromisedIn(stakes') = PromisedIn(stakes)
            + (Total(Subsidies(stakes'[u]), MaxRows) - Total(Subsidies(stakes[u]), MaxRows))
  BY <1>6, <1>8, OneTableChanges
<1>13. Principal' = Principal + q /\ Promised' = Promised + s
       /\ Principal \in Nat /\ Promised \in Nat
  BY <1>2, <1>3, <1>9, <1>10, <1>11, <1>12 DEF Principal, Promised
<1>14. /\ balance' \in [Names -> Nat]
       /\ balance'[Self] = balance[Self] + q /\ balance[Self] \in Nat
  <2>1. CanTransfer(balance, u, Self, q) /\ balance' = Transferred(balance, u, Self, q)
    BY DEF onTransfer
  <2>2. balance \in [Names -> Nat] /\ u \in Names
    BY NamesFacts DEF StakingInv, TypeOK
  <2>3. QED
    BY <1>2, <2>1, <2>2, TransferEffect, NamesFacts
<1>15. /\ globals'.init = globals.init
       /\ globals'.currently_staked = globals.currently_staked + q
       /\ globals'.cumulative_staked = globals.cumulative_staked + q
       /\ globals'.cumulative_subsidy = globals.cumulative_subsidy + s
       /\ globals' \in [init : BOOLEAN, currently_staked : Int,
                        cumulative_staked : Nat, cumulative_subsidy : Nat]
       /\ globals.currently_staked \in Int
       /\ globals.cumulative_staked \in Nat /\ globals.cumulative_subsidy \in Nat
  <2> DEFINE G == [init : BOOLEAN, currently_staked : Int,
                   cumulative_staked : Nat, cumulative_subsidy : Nat]
  <2>1. globals \in G
    BY DEF StakingInv, TypeOK
  <2>2. /\ globals.currently_staked \in Int
        /\ globals.cumulative_staked \in Nat /\ globals.cumulative_subsidy \in Nat
    BY <2>1
  <2>3. /\ globals' = [globals EXCEPT
              !.currently_staked = globals.currently_staked + q,
              !.cumulative_staked = globals.cumulative_staked + q,
              !.cumulative_subsidy = globals.cumulative_subsidy + s]
    BY <1>1 DEF StakedGlobals
  <2>4. /\ globals.currently_staked + q \in Int
        /\ globals.cumulative_staked + q \in Nat
        /\ globals.cumulative_subsidy + s \in Nat
    BY <1>2, <1>3, <2>2
  <2>5. /\ globals'.init = globals.init
        /\ globals'.currently_staked = globals.currently_staked + q
        /\ globals'.cumulative_staked = globals.cumulative_staked + q
        /\ globals'.cumulative_subsidy = globals.cumulative_subsidy + s
    BY <2>1, <2>3
  <2>6. globals' \in G
    BY <2>1, <2>3, <2>4, Zenon
  <2>7. QED
    BY <2>2, <2>5, <2>6
<1>16. UNCHANGED <<blacklist, now, history>>
  BY DEF onTransfer
<1>17. /\ history.funded \in Nat /\ history.returned \in Nat /\ history.subsidyPaid \in Nat
       /\ history.forfeited \in Nat /\ history.forfeitedSubsidy \in Nat
  BY DEF StakingInv, TypeOK
<1>18. TypeOK'
  BY <1>8, <1>14, <1>15, <1>16 DEF StakingInv, TypeOK, Tables
<1>19. RowsClean'
  BY <1>2, <1>8, <1>6, <1>10 DEF StakingInv, RowsClean
<1>20. Backed'
  BY <1>13, <1>14, <1>16, <1>17 DEF StakingInv, Backed
<1>21. GlobalsExact'
  BY <1>2, <1>3, <1>13, <1>15, <1>16, <1>17 DEF StakingInv, GlobalsExact
<1>22. LimitHolds'
  BY <1>1, <1>2, <1>3, <1>15 DEF LimitHolds, BelowLimit
<1>23. LockBounded'
  <2> SUFFICES ASSUME NEW v \in Users, NEW k \in Ids
               PROVE  stakes'[v][k].unlock_timestamp <= now + MaxPeriods * STAKE_PERIOD
    BY <1>16 DEF LockBounded
  <2>1. CASE v = u /\ k = id
    BY <1>4, <1>6, <1>8, <1>10, <2>1 DEF MaxPeriods, p
  <2>2. CASE ~(v = u /\ k = id)
    <3>1. stakes'[v][k] = stakes[v][k]
      BY <1>6, <1>8, <2>2
    <3>2. QED
      BY <3>1 DEF StakingInv, LockBounded
  <2>3. QED
    BY <2>1, <2>2
<1>24. InitClean'
  BY <1>15 DEF onTransfer, InitClean
<1>25. QED
  BY <1>18, <1>19, <1>20, <1>21, <1>22, <1>23, <1>24 DEF StakingInv

\* Funding by the token account preserves the invariant.
LEMMA fundInv ==
    ASSUME StakingInv, NEW q \in Quantities, fund(q)
    PROVE  StakingInv'
<1> USE StakingAssumption
<1>1. CanTransfer(balance, TOKEN_ACC, Self, q) /\ balance' = Transferred(balance, TOKEN_ACC, Self, q)
  BY DEF fund
<1>2. balance \in [Names -> Nat] /\ q \in Nat
  BY <1>1 DEF StakingInv, TypeOK, CanTransfer
<1>3. /\ balance' \in [Names -> Nat]
      /\ balance'[Self] = balance[Self] + q /\ balance[Self] \in Nat
  BY <1>1, <1>2, TransferEffect, NamesFacts
<1>4. /\ history' = [history EXCEPT !.funded = history.funded + q]
      /\ UNCHANGED <<stakes, globals, blacklist, now>>
  BY DEF fund
<1>5. /\ history.funded \in Nat /\ history.returned \in Nat /\ history.subsidyPaid \in Nat
      /\ history.forfeited \in Nat /\ history.forfeitedSubsidy \in Nat
  BY DEF StakingInv, TypeOK
<1>6. /\ history'.funded = history.funded + q /\ history'.returned = history.returned
      /\ history'.subsidyPaid = history.subsidyPaid /\ history'.forfeited = history.forfeited
      /\ history'.forfeitedSubsidy = history.forfeitedSubsidy /\ history'.reset = history.reset
  BY <1>4 DEF StakingInv, TypeOK
<1>7. TypeOK'
  BY <1>2, <1>3, <1>4, <1>5 DEF StakingInv, TypeOK
<1>8. Principal \in Nat
  BY GrandTotalTypes DEF Principal, StakingInv, TypeOK, Tables
<1>9. Principal' = Principal /\ Promised' = Promised
  BY <1>4 DEF Principal, Promised
<1>10. Backed'
  BY <1>2, <1>3, <1>5, <1>6, <1>8, <1>9 DEF StakingInv, Backed
<1>11. GlobalsExact'
  BY <1>4, <1>6, <1>9 DEF StakingInv, GlobalsExact
<1>12. QED
  BY <1>4, <1>7, <1>10, <1>11 DEF StakingInv, RowsClean, InitClean, LimitHolds, LockBounded

\* A payout preserves the invariant: principal leaves table, ledger and
\* globals by the same amount.
LEMMA unstakeInv ==
    ASSUME StakingInv, NEW u \in Users, unstake(u)
    PROVE  StakingInv'
<1> USE StakingAssumption
<1> DEFINE t == stakes[u]
           a == Total(DueAmount(t), MaxRows)
           b == Total(DueSubsidy(t), MaxRows)
<1>1. stakes \in Tables /\ t \in [Ids -> Row]
      /\ \A k \in Ids : t[k].amount = 0 => t[k].subsidy = 0
  BY DEF StakingInv, TypeOK, Tables, RowsClean
<1>2. a \in Nat /\ b \in Nat /\ Payout(t) = a + b
  BY <1>1, DueTypes DEF Payout
<1>3. /\ Erased(t) \in [Ids -> Row]
      /\ Total(Amounts(t), MaxRows) = Total(Amounts(Erased(t)), MaxRows) + a
      /\ Total(Subsidies(t), MaxRows) = Total(Subsidies(Erased(t)), MaxRows) + b
  BY <1>1, EraseTotals
<1>4. /\ Total(Amounts(t), MaxRows) \in Nat /\ Total(Subsidies(t), MaxRows) \in Nat
      /\ Total(Amounts(Erased(t)), MaxRows) \in Nat
      /\ Total(Subsidies(Erased(t)), MaxRows) \in Nat
  BY <1>1, <1>3, ColumnTypes
<1>5. /\ stakes' = [stakes EXCEPT ![u] = Erased(t)]
      /\ globals' = [globals EXCEPT !.currently_staked = globals.currently_staked - a]
      /\ history' = [history EXCEPT !.returned = history.returned + a,
                                    !.subsidyPaid = history.subsidyPaid + b]
      /\ CanTransfer(balance, Self, u, a + b)
      /\ balance' = Transferred(balance, Self, u, a + b)
      /\ UNCHANGED <<blacklist, now>>
  BY <1>2 DEF unstake, UnstakedGlobals
<1> HIDE DEF a, b
<1>6. /\ stakes' \in Tables /\ stakes'[u] = Erased(t)
      /\ \A v \in Users : v # u => stakes'[v] = stakes[v]
  BY <1>1, <1>3, <1>5 DEF Tables
<1>7. PrincipalIn(stakes) \in Nat /\ PromisedIn(stakes) \in Nat
      /\ PrincipalIn(stakes') \in Nat /\ PromisedIn(stakes') \in Nat
  BY <1>1, <1>6, GrandTotalTypes
<1>8. /\ PrincipalIn(stakes') = PrincipalIn(stakes)
            + (Total(Amounts(Erased(t)), MaxRows) - Total(Amounts(t), MaxRows))
      /\ PromisedIn(stakes') = PromisedIn(stakes)
            + (Total(Subsidies(Erased(t)), MaxRows) - Total(Subsidies(t), MaxRows))
  <2>1. /\ PrincipalIn(stakes') = PrincipalIn(stakes)
              + (Total(Amounts(stakes'[u]), MaxRows) - Total(Amounts(stakes[u]), MaxRows))
        /\ PromisedIn(stakes') = PromisedIn(stakes)
              + (Total(Subsidies(stakes'[u]), MaxRows) - Total(Subsidies(stakes[u]), MaxRows))
    BY <1>1, <1>6, OneTableChanges
  <2>2. QED
    BY <1>6, <2>1
<1>9. Principal' = Principal - a /\ Promised' = Promised - b
      /\ Principal \in Nat /\ Promised \in Nat
  BY <1>2, <1>3, <1>4, <1>7, <1>8 DEF Principal, Promised
<1>10. /\ balance' \in [Names -> Nat]
       /\ balance'[Self] = balance[Self] - (a + b) /\ balance[Self] \in Nat
  <2>1. balance \in [Names -> Nat] /\ u \in Names /\ a + b \in Int
    BY <1>2, NamesFacts DEF StakingInv, TypeOK
  <2>2. QED
    BY <1>5, <2>1, TransferEffect, NamesFacts
<1>11. /\ history.funded \in Nat /\ history.returned \in Nat /\ history.subsidyPaid \in Nat
       /\ history.forfeited \in Nat /\ history.forfeitedSubsidy \in Nat
       /\ globals.currently_staked \in Int
       /\ globals.cumulative_staked \in Nat /\ globals.cumulative_subsidy \in Nat
  BY DEF StakingInv, TypeOK
<1>12. /\ history'.funded = history.funded /\ history'.returned = history.returned + a
       /\ history'.subsidyPaid = history.subsidyPaid + b
       /\ history'.forfeited = history.forfeited
       /\ history'.forfeitedSubsidy = history.forfeitedSubsidy /\ history'.reset = history.reset
  BY <1>5 DEF StakingInv, TypeOK
<1>13. /\ globals'.currently_staked = globals.currently_staked - a
       /\ globals'.cumulative_staked = globals.cumulative_staked
       /\ globals'.cumulative_subsidy = globals.cumulative_subsidy
  BY <1>5 DEF StakingInv, TypeOK
<1>14. TypeOK'
  <2>1. globals.currently_staked - a \in Int /\ history.returned + a \in Nat
        /\ history.subsidyPaid + b \in Nat
    BY <1>2, <1>11
  <2>2. globals' \in [init : BOOLEAN, currently_staked : Int,
                      cumulative_staked : Nat, cumulative_subsidy : Nat]
    BY <1>5, <2>1 DEF StakingInv, TypeOK
  <2>3. history' \in [funded : Nat, returned : Nat, subsidyPaid : Nat,
              forfeited : Nat, forfeitedSubsidy : Nat, reset : BOOLEAN, clears : Nat]
    BY <1>5, <2>1 DEF StakingInv, TypeOK
  <2>4. QED
    BY <1>5, <1>6, <1>10, <2>2, <2>3 DEF StakingInv, TypeOK, Tables
<1>15. RowsClean'
  <2> SUFFICES ASSUME NEW v \in Users, NEW k \in Ids
               PROVE  stakes'[v][k].amount = 0 => stakes'[v][k].subsidy = 0
    BY DEF RowsClean
  <2>1. stakes'[v][k] = stakes[v][k] \/ stakes'[v][k] = NoRow
    BY <1>6 DEF Erased
  <2>2. QED
    BY <2>1 DEF NoRow, StakingInv, RowsClean
<1>16. Backed'
  BY <1>2, <1>9, <1>10, <1>11, <1>12 DEF StakingInv, Backed
<1>17. GlobalsExact'
  BY <1>2, <1>9, <1>11, <1>12, <1>13 DEF StakingInv, GlobalsExact
<1>18. LimitHolds'
  BY <1>13 DEF StakingInv, LimitHolds
<1>19. LockBounded'
  <2> SUFFICES ASSUME NEW v \in Users, NEW k \in Ids
               PROVE  stakes'[v][k].unlock_timestamp <= now + MaxPeriods * STAKE_PERIOD
    BY <1>5 DEF LockBounded
  <2>1. stakes'[v][k] = stakes[v][k] \/ stakes'[v][k] = NoRow
    BY <1>6 DEF Erased
  <2>2. now + MaxPeriods * STAKE_PERIOD >= 0
    BY DEF StakingInv, TypeOK, MaxPeriods
  <2>3. QED
    BY <2>1, <2>2 DEF NoRow, StakingInv, LockBounded
<1>20. InitClean'
  <2>1. globals'.init = globals.init
    BY <1>5 DEF StakingInv, TypeOK
  <2>2. QED
    BY <2>1 DEF unstake, InitClean
<1>21. QED
  BY <1>14, <1>15, <1>16, <1>17, <1>18, <1>19, <1>20 DEF StakingInv

\* clearstakes preserves the invariant: the erased amounts become forfeited.
LEMMA clearstakesInv ==
    ASSUME StakingInv, NEW u \in Users, clearstakes(u)
    PROVE  StakingInv'
<1> USE StakingAssumption
<1> DEFINE t == stakes[u]
           e == [k \in Ids |-> NoRow]
           a == Total(Amounts(t), MaxRows)
           b == Total(Subsidies(t), MaxRows)
<1>1. stakes \in Tables /\ t \in [Ids -> Row] /\ e \in [Ids -> Row]
  BY DEF StakingInv, TypeOK, Tables, NoRow, Row
<1>2. a \in Nat /\ b \in Nat
  BY <1>1, ColumnTypes
<1>3. /\ stakes' = [stakes EXCEPT ![u] = e]
      /\ history' = [history EXCEPT !.forfeited = history.forfeited + a,
                                    !.forfeitedSubsidy = history.forfeitedSubsidy + b,
                                    !.clears = history.clears + 1]
      /\ UNCHANGED <<balance, globals, blacklist, now>>
  BY DEF clearstakes
<1>4. Total(Amounts(e), MaxRows) = 0 /\ Total(Subsidies(e), MaxRows) = 0
  BY EmptyTotals
<1> HIDE DEF a, b, e
<1>5. /\ stakes' \in Tables /\ stakes'[u] = e
      /\ \A v \in Users : v # u => stakes'[v] = stakes[v]
  BY <1>1, <1>3 DEF Tables
<1>6. PrincipalIn(stakes) \in Nat /\ PromisedIn(stakes) \in Nat
  BY <1>1, GrandTotalTypes
<1>7. /\ PrincipalIn(stakes') = PrincipalIn(stakes) + (0 - a)
      /\ PromisedIn(stakes') = PromisedIn(stakes) + (0 - b)
  <2>1. /\ PrincipalIn(stakes') = PrincipalIn(stakes)
              + (Total(Amounts(stakes'[u]), MaxRows) - Total(Amounts(stakes[u]), MaxRows))
        /\ PromisedIn(stakes') = PromisedIn(stakes)
              + (Total(Subsidies(stakes'[u]), MaxRows) - Total(Subsidies(stakes[u]), MaxRows))
    BY <1>1, <1>5, OneTableChanges
  <2>2. QED
    BY <1>4, <1>5, <2>1 DEF a, b
<1>8. Principal' = Principal - a /\ Promised' = Promised - b
      /\ Principal \in Nat /\ Promised \in Nat
  BY <1>2, <1>6, <1>7 DEF Principal, Promised
<1>9. /\ history.funded \in Nat /\ history.returned \in Nat /\ history.subsidyPaid \in Nat
      /\ history.forfeited \in Nat /\ history.forfeitedSubsidy \in Nat
      /\ history.clears \in Nat /\ balance[Self] \in Nat
      /\ globals.currently_staked \in Int
      /\ globals.cumulative_staked \in Nat /\ globals.cumulative_subsidy \in Nat
  BY NamesFacts DEF StakingInv, TypeOK
<1>10. /\ history'.funded = history.funded /\ history'.returned = history.returned
       /\ history'.subsidyPaid = history.subsidyPaid
       /\ history'.forfeited = history.forfeited + a
       /\ history'.forfeitedSubsidy = history.forfeitedSubsidy + b
       /\ history'.reset = history.reset
  BY <1>3 DEF StakingInv, TypeOK
<1>11. TypeOK'
  <2>1. /\ history.forfeited + a \in Nat /\ history.forfeitedSubsidy + b \in Nat
        /\ history.clears + 1 \in Nat
    BY <1>2, <1>9
  <2>2. history' \in [funded : Nat, returned : Nat, subsidyPaid : Nat,
              forfeited : Nat, forfeitedSubsidy : Nat, reset : BOOLEAN, clears : Nat]
    BY <1>3, <2>1 DEF StakingInv, TypeOK
  <2>3. QED
    BY <1>3, <1>5, <2>2 DEF StakingInv, TypeOK, Tables
<1>12. \A v \in Users, k \in Ids : stakes'[v][k] = stakes[v][k] \/ stakes'[v][k] = NoRow
  BY <1>5 DEF e
<1>13. RowsClean'
  BY <1>12 DEF NoRow, StakingInv, RowsClean
<1>14. LockBounded'
  <2>1. now + MaxPeriods * STAKE_PERIOD >= 0
    BY DEF StakingInv, TypeOK, MaxPeriods
  <2>2. QED
    BY <1>3, <1>12, <2>1 DEF NoRow, StakingInv, LockBounded
<1>15. Backed'
  BY <1>2, <1>3, <1>8, <1>9, <1>10 DEF StakingInv, Backed
<1>16. GlobalsExact'
  BY <1>2, <1>3, <1>8, <1>9, <1>10 DEF StakingInv, GlobalsExact
<1>17. LimitHolds'
  BY <1>3 DEF StakingInv, LimitHolds
<1>18. InitClean'
  BY <1>3 DEF StakingInv, InitClean
<1>19. QED
  BY <1>11, <1>13, <1>14, <1>15, <1>16, <1>17, <1>18 DEF StakingInv

\* initglobal preserves the invariant.
LEMMA initglobalInv ==
    ASSUME StakingInv, initglobal
    PROVE  StakingInv'
<1> USE StakingAssumption
<1>1. UNCHANGED <<balance, stakes, blacklist, now, history>>
  BY DEF initglobal
<1>2. CASE globals.init
  BY <1>1, <1>2 DEF initglobal, StakingInv, TypeOK, RowsClean, InitClean, Backed,
       GlobalsExact, LimitHolds, LockBounded, Principal, Promised
<1>3. CASE ~globals.init
  <2>1. globals' = ZeroGlobals(TRUE) /\ globals = ZeroGlobals(FALSE)
    BY <1>3 DEF initglobal, StakingInv, InitClean
  <2>2. TypeOK'
    BY <1>1, <2>1 DEF StakingInv, TypeOK, ZeroGlobals
  <2>3. InitClean'
    BY <2>1 DEF InitClean, ZeroGlobals
  <2>4. RowsClean' /\ LockBounded' /\ Backed'
    BY <1>1 DEF StakingInv, RowsClean, LockBounded, Backed, Principal
  <2>5. GlobalsExact' /\ LimitHolds'
    BY <1>1, <2>1 DEF StakingInv, GlobalsExact, LimitHolds, ZeroGlobals, Principal, Promised
  <2>6. QED
    BY <2>2, <2>3, <2>4, <2>5 DEF StakingInv
<1>4. QED
  BY <1>2, <1>3

\* clearglobals preserves the invariant: from then on the globals are not
\* claimed to be exact.
LEMMA clearglobalsInv ==
    ASSUME StakingInv, clearglobals
    PROVE  StakingInv'
<1> USE StakingAssumption
<1>1. /\ UNCHANGED <<balance, stakes, blacklist, now>>
      /\ globals' = ZeroGlobals(TRUE)
      /\ history' = [history EXCEPT !.reset = TRUE, !.clears = history.clears + 1]
  BY DEF clearglobals
<1>2. /\ history'.funded = history.funded
      /\ history'.subsidyPaid = history.subsidyPaid
      /\ history'.forfeited = history.forfeited
      /\ history'.reset = TRUE
  BY <1>1 DEF StakingInv, TypeOK
<1>3. TypeOK'
  <2>1. history.clears + 1 \in Nat /\ TRUE \in BOOLEAN
    BY DEF StakingInv, TypeOK
  <2>2. history' \in [funded : Nat, returned : Nat, subsidyPaid : Nat,
              forfeited : Nat, forfeitedSubsidy : Nat, reset : BOOLEAN, clears : Nat]
    BY <1>1, <2>1, Zenon DEF StakingInv, TypeOK
  <2>3. globals' \in [init : BOOLEAN, currently_staked : Int,
                      cumulative_staked : Nat, cumulative_subsidy : Nat]
    BY <1>1 DEF ZeroGlobals
  <2>4. QED
    BY <1>1, <2>2, <2>3 DEF StakingInv, TypeOK
<1>4. InitClean' /\ RowsClean' /\ LockBounded'
  BY <1>1 DEF StakingInv, InitClean, ZeroGlobals, RowsClean, LockBounded
<1>5. Backed' /\ GlobalsExact' /\ LimitHolds'
  BY <1>1, <1>2 DEF StakingInv, Backed, GlobalsExact, LimitHolds, ZeroGlobals, Principal
<1>6. QED
  BY <1>3, <1>4, <1>5 DEF StakingInv

\* addblacklist, rmblacklist, the clock and stuttering touch no amount.
LEMMA OtherInv ==
    ASSUME StakingInv, blacklist' \subseteq Users, now' \in Nat, now' >= now,
           UNCHANGED <<balance, stakes, globals, history>>
    PROVE  StakingInv'
<1> USE StakingAssumption
<1>1. TypeOK' /\ RowsClean' /\ InitClean' /\ Backed' /\ GlobalsExact' /\ LimitHolds'
  BY DEF StakingInv, TypeOK, RowsClean, InitClean, Backed, GlobalsExact, LimitHolds,
         Principal, Promised
<1>2. LockBounded'
  <2> SUFFICES ASSUME NEW u \in Users, NEW k \in Ids
               PROVE  stakes[u][k].unlock_timestamp <= now' + MaxPeriods * STAKE_PERIOD
    BY DEF LockBounded
  <2>1. stakes[u][k].unlock_timestamp \in Nat /\ now \in Nat
        /\ stakes[u][k].unlock_timestamp <= now + MaxPeriods * STAKE_PERIOD
    BY DEF StakingInv, TypeOK, LockBounded, Row
  <2>2. MaxPeriods * STAKE_PERIOD \in Nat
    BY DEF MaxPeriods
  <2>3. QED
    BY <2>1, <2>2
<1>3. QED
  BY <1>1, <1>2 DEF StakingInv

\* Every step preserves the invariant.
LEMMA StakingInvNext == StakingInv /\ [Next]_vars => StakingInv'
<1> SUFFICES ASSUME StakingInv, [Next]_vars
             PROVE  StakingInv'
  OBVIOUS
<1>0. blacklist \subseteq Users /\ now \in Nat
  BY DEF StakingInv, TypeOK
<1>1. CASE UNCHANGED vars
  <2>1. blacklist' \subseteq Users /\ now' \in Nat /\ now' >= now
        /\ UNCHANGED <<balance, stakes, globals, history>>
    BY <1>0, <1>1 DEF vars
  <2>2. QED
    BY <2>1, OtherInv
<1>2. ASSUME NEW u \in Users, addblacklist(u) \/ rmblacklist(u)
      PROVE  StakingInv'
  <2>1. blacklist' \subseteq Users /\ now' \in Nat /\ now' >= now
        /\ UNCHANGED <<balance, stakes, globals, history>>
    BY <1>0, <1>2 DEF addblacklist, rmblacklist
  <2>2. QED
    BY <2>1, OtherInv
<1>3. CASE Tick
  <2>1. blacklist' \subseteq Users /\ now' \in Nat /\ now' >= now
        /\ UNCHANGED <<balance, stakes, globals, history>>
    BY <1>0, <1>3 DEF Tick
  <2>2. QED
    BY <2>1, OtherInv
<1>4. QED
  BY <1>1, <1>2, <1>3, onTransferInv, fundInv, unstakeInv, initglobalInv,
     clearstakesInv, clearglobalsInv DEF Next

-----------------------------------------------------------------------------
\* Every table of the staking contract keeps its type: in particular no
\* balance of the ledger and no cumulative amount goes negative.
THEOREM StakingTypeCorrect == Spec => []TypeOK
<1>1. StakingInv => TypeOK
  BY DEF StakingInv
<1>2. QED
  BY <1>1, StakingInvInit, StakingInvNext, PTL DEF Spec

\* Principal is neither paid twice nor lost.
THEOREM StakesBacked == Spec => []Backed
<1>1. StakingInv => Backed
  BY DEF StakingInv
<1>2. QED
  BY <1>1, StakingInvInit, StakingInvNext, PTL DEF Spec

\* The global amounts summarise the tables until they are cleared.
THEOREM GlobalsCorrect == Spec => []GlobalsExact
<1>1. StakingInv => GlobalsExact
  BY DEF StakingInv
<1>2. QED
  BY <1>1, StakingInvInit, StakingInvNext, PTL DEF Spec

\* The limit on all stakes and subsidies is never exceeded.
THEOREM LimitCorrect == Spec => []LimitHolds
<1>1. StakingInv => LimitHolds
  BY DEF StakingInv
<1>2. QED
  BY <1>1, StakingInvInit, StakingInvNext, PTL DEF Spec

\* No stake is locked for more than ten periods, whatever its memo was.
THEOREM LockCorrect == Spec => []LockBounded
<1>1. StakingInv => LockBounded
  BY DEF StakingInv
<1>2. QED
  BY <1>1, StakingInvInit, StakingInvNext, PTL DEF Spec

\* What came in and what has left leave enough for what is owed.
LEMMA SolventInv == StakingInv => Solvent
<1> SUFFICES ASSUME StakingInv, ~history.reset,
                    history.funded >= globals.cumulative_subsidy
             PROVE  balance[Self] >= Principal + Promised
  BY DEF Solvent
<1>1. /\ history.funded \in Nat /\ history.subsidyPaid \in Nat
      /\ history.forfeited \in Nat /\ history.forfeitedSubsidy \in Nat
      /\ globals.cumulative_subsidy \in Nat /\ balance[Self] \in Nat
  BY NamesFacts DEF StakingInv, TypeOK
<1>2. Principal \in Nat /\ Promised \in Nat
  BY GrandTotalTypes DEF Principal, Promised, StakingInv, TypeOK, Tables
<1>3. /\ balance[Self] + history.subsidyPaid
           = history.funded + history.forfeited + Principal
      /\ globals.cumulative_subsidy
           = history.subsidyPaid + Promised + history.forfeitedSubsidy
  BY DEF StakingInv, Backed, GlobalsExact
<1>4. QED
  BY <1>1, <1>2, <1>3

\* A contract whose subsidies are funded can pay all its open stakes.
THEOREM Solvency == Spec => []Solvent
  BY SolventInv, StakingInvInit, StakingInvNext, PTL DEF Spec

\* The checks of unstake and of the transfer that pays: what Withdrawable says
\* with ENABLED, since unstake(u) does nothing else that can fail.
UnstakePasses(u) ==
    /\ u \notin blacklist
    /\ globals.init
    /\ CanTransfer(balance, Self, u, Payout(stakes[u]))

\* With funded subsidies, unstake passes for whoever has a due stake.
WithdrawalsPass ==
    \A u \in Users :
        /\ ~history.reset
        /\ history.funded >= globals.cumulative_subsidy
        /\ u \notin blacklist
        /\ \E k \in Ids : Due(stakes[u][k])
        => UnstakePasses(u)

\* The payout of a user is at least one due stake, and at most everything that
\* is staked and promised.
LEMMA PayoutBounds ==
    ASSUME StakingInv, NEW u \in Users, NEW k \in Ids, Due(stakes[u][k])
    PROVE  Payout(stakes[u]) > 0 /\ Payout(stakes[u]) <= Principal + Promised
<1> DEFINE f == [v \in Users |-> Total(Amounts(stakes[v]), MaxRows)]
           g == [v \in Users |-> Total(Subsidies(stakes[v]), MaxRows)]
<1>1. stakes \in Tables /\ \A v \in Users : stakes[v] \in [Ids -> Row]
  BY DEF StakingInv, TypeOK, Tables
<1>2. PICK t : t = stakes[u]
  OBVIOUS
<1>3. t \in [Ids -> Row]
  BY <1>1, <1>2
<1>4. \A v \in Users : /\ Total(Amounts(stakes[v]), MaxRows) \in Nat
                       /\ Total(Subsidies(stakes[v]), MaxRows) \in Nat
  BY <1>1, ColumnTypes
<1>5. f \in [1..NumUsers -> Nat] /\ g \in [1..NumUsers -> Nat] /\ u \in 1..NumUsers
  BY <1>4 DEF Users
<1>6. f[u] = Total(Amounts(t), MaxRows) /\ g[u] = Total(Subsidies(t), MaxRows)
  BY <1>2
<1>7. Principal = Total(f, NumUsers) /\ Promised = Total(g, NumUsers)
  BY DEF Principal, Promised, PrincipalIn, PromisedIn
<1> HIDE DEF f, g
<1>8. f[u] <= Principal /\ g[u] <= Promised
  BY <1>5, <1>7, EntryAtMostTotal, StakingAssumption
<1>9. Principal \in Nat /\ Promised \in Nat
  BY <1>1, GrandTotalTypes DEF Principal, Promised
<1>10. Total(DueAmount(t), MaxRows) <= Total(Amounts(t), MaxRows)
       /\ Total(DueSubsidy(t), MaxRows) <= Total(Subsidies(t), MaxRows)
  <2>1. /\ DueAmount(t) \in [1..MaxRows -> Int] /\ DueSubsidy(t) \in [1..MaxRows -> Int]
        /\ Amounts(t) \in [1..MaxRows -> Int] /\ Subsidies(t) \in [1..MaxRows -> Int]
    BY <1>3, ColumnTypes, DueTypes
  <2>2. \A j \in 1..MaxRows : DueAmount(t)[j] <= Amounts(t)[j]
    BY <1>3 DEF DueAmount, Amounts, Ids, Row
  <2>3. \A j \in 1..MaxRows : DueSubsidy(t)[j] <= Subsidies(t)[j]
    BY <1>3 DEF DueSubsidy, Subsidies, Ids, Row
  <2> QED
    BY <2>1, <2>2, <2>3, TotalMonotone, StakingAssumption
<1>11. Total(DueAmount(t), MaxRows) >= 1
  <2>1. DueAmount(t) \in [1..MaxRows -> Nat] /\ k \in 1..MaxRows /\ MaxRows \in Nat
    BY <1>3, DueTypes, StakingAssumption DEF Ids
  <2>2. DueAmount(t)[k] <= Total(DueAmount(t), MaxRows)
    BY <2>1, EntryAtMostTotal
  <2>3. DueAmount(t)[k] = t[k].amount /\ t[k].amount # 0 /\ t[k].amount \in Nat
    BY <1>2, <1>3 DEF DueAmount, Due, Row
  <2>4. Total(DueAmount(t), MaxRows) \in Nat
    BY <1>3, DueTypes
  <2> QED
    BY <2>2, <2>3, <2>4
<1>12. /\ Total(DueAmount(t), MaxRows) \in Nat /\ Total(DueSubsidy(t), MaxRows) \in Nat
       /\ Total(Amounts(t), MaxRows) \in Nat /\ Total(Subsidies(t), MaxRows) \in Nat
  BY <1>3, ColumnTypes, DueTypes
<1>13. Payout(t) = Total(DueAmount(t), MaxRows) + Total(DueSubsidy(t), MaxRows)
  BY DEF Payout
<1>14. Payout(t) > 0 /\ Payout(t) <= Principal + Promised
  BY <1>6, <1>8, <1>9, <1>10, <1>11, <1>12, <1>13
<1> QED
  BY <1>2, <1>14

\* A due stake can always be withdrawn once the subsidies are funded: unstake
\* of an account that is not blacklisted passes all its checks and those of the
\* token, whatever was staked, paid and erased before.
THEOREM Withdrawals == Spec => []WithdrawalsPass
<1>1. StakingInv => WithdrawalsPass
  <2> SUFFICES ASSUME StakingInv, NEW u \in Users, ~history.reset,
                      history.funded >= globals.cumulative_subsidy, u \notin blacklist,
                      NEW k \in Ids, Due(stakes[u][k])
               PROVE  UnstakePasses(u)
    BY DEF WithdrawalsPass
  <2>1. Payout(stakes[u]) > 0 /\ Payout(stakes[u]) <= Principal + Promised
    BY PayoutBounds
  <2>2. Principal \in Nat /\ Promised \in Nat
    BY GrandTotalTypes DEF Principal, Promised, StakingInv, TypeOK, Tables
  <2>3. balance[Self] >= Principal + Promised
    BY SolventInv DEF Solvent
  <2>4. balance[Self] \in Nat /\ Payout(stakes[u]) \in Nat
    BY NamesFacts, DueTypes DEF StakingInv, TypeOK
  <2>5. balance[Self] >= Payout(stakes[u])
    BY <2>1, <2>2, <2>3, <2>4
  <2>6. globals.init
    <3> SUFFICES ASSUME ~globals.init PROVE FALSE
      OBVIOUS
    <3>1. globals.currently_staked = 0
      BY DEF StakingInv, InitClean, ZeroGlobals
    <3>2. globals.cumulative_staked = 0 /\ globals.cumulative_subsidy = 0
      BY DEF StakingInv, InitClean, ZeroGlobals
    <3>3. history.forfeited \in Nat /\ history.forfeitedSubsidy \in Nat /\ history.subsidyPaid \in Nat
      BY DEF StakingInv, TypeOK
    <3>4. globals.currently_staked = Principal + history.forfeited
          /\ globals.cumulative_subsidy
                = history.subsidyPaid + Promised + history.forfeitedSubsidy
      BY DEF StakingInv, GlobalsExact
    <3>5. Principal + Promised = 0
      BY <2>2, <3>1, <3>2, <3>3, <3>4
    <3> QED
      BY <2>1, <2>4, <3>5
  <2>7. Self # u
    BY NamesFacts
  <2> QED
    BY <2>1, <2>5, <2>6, <2>7 DEF UnstakePasses, CanTransfer
<1> QED
  BY <1>1, StakingInvInit, StakingInvNext, PTL DEF Spec

\* Users are paid exactly the stakes that have come due, once.
THEOREM PaymentsCorrect == Spec => PaysExactlyTheDue
<1> DEFINE Gone(u) == [k \in Ids |->
               IF stakes[u][k].amount # 0 /\ stakes'[u][k] = NoRow
               THEN stakes[u][k].amount + stakes[u][k].subsidy ELSE 0]
           Paid(u) ==
               /\ u \notin blacklist
               /\ balance'[u] - balance[u] = Total(Gone(u), MaxRows)
               /\ \A k \in Ids : stakes'[u][k] # stakes[u][k] =>
                     /\ now >= stakes[u][k].unlock_timestamp
                     /\ stakes'[u][k] = NoRow
<1>1. ASSUME StakingInv, Next, NEW u \in Users, balance'[u] > balance[u]
      PROVE  Paid(u)
  <2>0. /\ balance \in [Names -> Nat] /\ u \in Names /\ balance[u] \in Nat
        /\ \A q \in Quantities : q \in Int
    BY <1>1, NamesFacts, StakingAssumption DEF StakingInv, TypeOK
  <2>1. ~ UNCHANGED balance
    BY <1>1, <2>0
  <2>2. ASSUME NEW v \in Users, NEW q \in Quantities, NEW m \in Memos, onTransfer(v, q, m)
        PROVE  FALSE
    <3>1. CanTransfer(balance, v, Self, q) /\ balance' = Transferred(balance, v, Self, q)
      BY <2>2 DEF onTransfer
    <3>2. balance'[u] = balance[u] \/ balance'[u] = balance[u] - q
      <4>1. Self \in Names /\ v \in Names /\ u # Self
        BY NamesFacts
      <4>2. /\ \A n \in Names \ {v, Self} : balance'[n] = balance[n]
            /\ balance'[v] = balance[v] - q
        BY <2>0, <3>1, <4>1, TransferEffect
      <4>3. QED
        BY <2>0, <4>1, <4>2
    <3>3. q > 0
      BY <3>1 DEF CanTransfer
    <3>4. QED
      BY <1>1, <2>0, <3>2, <3>3
  <2>3. ASSUME NEW q \in Quantities, fund(q)
        PROVE  FALSE
    <3>1. CanTransfer(balance, TOKEN_ACC, Self, q)
          /\ balance' = Transferred(balance, TOKEN_ACC, Self, q)
      BY <2>3 DEF fund
    <3>2. balance'[u] = balance[u]
      BY <2>0, <3>1, TransferEffect, NamesFacts
    <3>3. QED
      BY <1>1, <2>0, <3>2
  <2>4. ASSUME NEW v \in Users, unstake(v)
        PROVE  Paid(u)
    <3> DEFINE t == stakes[v]
    <3>1. t \in [Ids -> Row] /\ stakes \in Tables
      BY <1>1 DEF StakingInv, TypeOK, Tables
    <3>2. Payout(t) \in Nat
      BY <3>1, DueTypes
    <3>3. /\ CanTransfer(balance, Self, v, Payout(t))
          /\ balance' = Transferred(balance, Self, v, Payout(t))
          /\ v \notin blacklist
          /\ stakes' = [stakes EXCEPT ![v] = Erased(t)]
      BY <2>4 DEF unstake
    <3>4. u = v
      <4>1. Self \in Names /\ v \in Names /\ u # Self
        BY NamesFacts
      <4>2. \A n \in Names \ {Self, v} : balance'[n] = balance[n]
        BY <2>0, <3>2, <3>3, <4>1, TransferEffect
      <4>3. QED
        BY <1>1, <2>0, <4>1, <4>2
    <3>5. balance'[v] = balance[v] + Payout(t)
      BY <2>0, <3>2, <3>3, <3>4, TransferEffect, NamesFacts
    <3>6. stakes'[v] = Erased(t)
      BY <3>1, <3>3 DEF Tables
    <3>7. Total(Gone(u), MaxRows) = Payout(t)
      <4> DEFINE g == Gone(u)
      <4>1. \A k \in Ids : g[k] = IF Due(t[k]) THEN t[k].amount + t[k].subsidy ELSE 0
        <5> SUFFICES ASSUME NEW k \in Ids
                     PROVE  g[k] = IF Due(t[k]) THEN t[k].amount + t[k].subsidy ELSE 0
          OBVIOUS
        <5>1. stakes'[u][k] = IF Due(t[k]) THEN NoRow ELSE t[k]
          BY <3>4, <3>6 DEF Erased
        <5>2. t[k].amount # 0 => t[k] # NoRow
          BY DEF NoRow
        <5>3. QED
          BY <3>4, <5>1, <5>2 DEF Due
      <4>2. /\ DueAmount(t) \in [1..MaxRows -> Int]
            /\ DueSubsidy(t) \in [1..MaxRows -> Int]
        BY <3>1, DueTypes
      <4>3. \A k \in 1..MaxRows : g[k] = DueAmount(t)[k] + DueSubsidy(t)[k]
        BY <3>1, <4>1 DEF DueAmount, DueSubsidy, Ids, Row
      <4>4. g \in [1..MaxRows -> Int]
        <5>1. g = [k \in 1..MaxRows |-> g[k]]
          BY DEF Ids
        <5>2. \A k \in 1..MaxRows : g[k] \in Int
          <6> SUFFICES ASSUME NEW k \in 1..MaxRows
                       PROVE  g[k] \in Int
            OBVIOUS
          <6> HIDE DEF g
          <6>1. DueAmount(t)[k] \in Int /\ DueSubsidy(t)[k] \in Int
            BY <4>2
          <6>2. QED
            BY <4>3, <6>1
        <5> HIDE DEF g
        <5>3. QED
          BY <5>1, <5>2
      <4> HIDE DEF g
      <4>5. Total(g, MaxRows) = Total(DueAmount(t), MaxRows) + Total(DueSubsidy(t), MaxRows)
        BY <4>2, <4>3, <4>4, TotalSum, StakingAssumption
      <4>6. QED
        BY <4>5 DEF Payout, g
    <3>8. ASSUME NEW k \in Ids, stakes'[u][k] # stakes[u][k]
          PROVE  now >= stakes[u][k].unlock_timestamp /\ stakes'[u][k] = NoRow
      BY <3>4, <3>6, <3>8 DEF Erased, Due
    <3>9. balance'[u] - balance[u] = Total(Gone(u), MaxRows)
      BY <2>0, <3>2, <3>4, <3>5, <3>7
    <3>10. QED
      BY <3>3, <3>4, <3>8, <3>9
  <2>5. QED
    BY <1>1, <2>1, <2>2, <2>3, <2>4
       DEF Next, initglobal, addblacklist, rmblacklist, clearstakes, clearglobals, Tick
<1>2. StakingInv /\ [Next]_vars
        => [\A u \in Users : balance'[u] > balance[u] => Paid(u)]_vars
  BY <1>1
<1>3. QED
  BY <1>2, StakingInvInit, StakingInvNext, PTL DEF Spec, PaysExactlyTheDue

=============================================================================
