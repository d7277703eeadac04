-------------------------- MODULE Custodian_proofs --------------------------
(***************************************************************************)
(* Proofs about vltxcstdn for any number of oracles, any window and any    *)
(* integer width.                                                          *)
(***************************************************************************)
EXTENDS Custodian, SequenceTheorems, FiniteSetTheorems, TotalTheorems

\* Two numbers that differ by a multiple of the modulus between 0 and m - 1 in
\* remainder have the same remainder: residues are unique.
LEMMA ResidueUnique ==
    ASSUME NEW m \in Nat, m > 0, NEW k \in Int,
           NEW r \in 0..(m - 1), NEW s \in 0..(m - 1), m * k = r - s
    PROVE  r = s
  <1>1. CASE k = 0
    BY <1>1, Z3
  <1>2. CASE k >= 1
    <2>1. m * k >= m
      BY <1>2, Z3
    <2>2. QED
      BY <2>1, Z3
  <1>3. CASE k <= -1
    <2>1. m * k <= -m
      BY <1>3, Z3
    <2>2. QED
      BY <2>1, Z3
  <1>4. QED
    BY <1>1, <1>2, <1>3

\* Adding the modulus does not change a residue.
LEMMA ResidueShift ==
    ASSUME NEW x \in Int, NEW m \in Nat, m > 0
    PROVE  (x + m) % m = x % m
  <1> DEFINE q == x \div m
             r == x % m
             p == (x + m) \div m
             s == (x + m) % m
  <1>1. q \in Int /\ r \in 0..(m - 1) /\ x = m * q + r
    OBVIOUS
  <1>2. p \in Int /\ s \in 0..(m - 1) /\ x + m = m * p + s
    OBVIOUS
  <1> HIDE DEF q, r, p, s
  <1>3. m * (p - q - 1) = r - s
    <2>1. m * (p - q - 1) = m * p - m * q - m
      BY <1>1, <1>2, Z3
    <2>2. QED
      BY <2>1, <1>1, <1>2, Z3
  <1>4. r = s
    BY <1>1, <1>2, <1>3, ResidueUnique
  <1>5. QED
    BY <1>4 DEF r, s

\* A number below the modulus is its own residue.
LEMMA ResidueSmall ==
    ASSUME NEW m \in Nat, m > 0, NEW x \in 0..(m - 1)
    PROVE  x % m = x
  <1> DEFINE q == x \div m
             r == x % m
  <1>1. q \in Int /\ r \in 0..(m - 1) /\ x = m * q + r
    OBVIOUS
  <1> HIDE DEF q, r
  <1>2. m * q = x - r
    BY <1>1, Z3
  <1>3. x = r
    BY <1>1, <1>2, ResidueUnique
  <1>4. QED
    BY <1>3 DEF r

\* What the unsigned subtraction of updtblnc computes: the difference, or the
\* difference wrapped once when the report is above the recorded balance.
LEMMA AmountCases ==
    ASSUME currentbal \in 0..(U64 - 1), NEW balance \in 0..(U64 - 1)
    PROVE  AmountToTransfer(balance) =
              IF balance <= currentbal THEN currentbal - balance
              ELSE currentbal - balance + U64
  <1>1. U64 \in Nat /\ U64 > 0
    BY CustodianAssumption
  <1>2. CASE balance <= currentbal
    <2>1. currentbal - balance \in 0..(U64 - 1)
      BY <1>1, <1>2
    <2>2. (currentbal - balance) % U64 = currentbal - balance
      BY <1>1, <2>1, ResidueSmall
    <2>3. QED
      BY <2>2, <1>2 DEF AmountToTransfer
  <1>3. CASE ~(balance <= currentbal)
    <2>1. currentbal - balance \in Int /\ currentbal - balance + U64 \in 0..(U64 - 1)
      BY <1>1, <1>3
    <2>2. ((currentbal - balance) + U64) % U64 = (currentbal - balance) % U64
      BY <1>1, <2>1, ResidueShift
    <2>3. (currentbal - balance + U64) % U64 = currentbal - balance + U64
      BY <1>1, <2>1, ResidueSmall
    <2>4. QED
      BY <2>2, <2>3, <1>3 DEF AmountToTransfer
  <1>4. QED
    BY <1>2, <1>3

-----------------------------------------------------------------------------
\* The inductive invariant.
CustodianInv == TypeOK /\ WindowBounded /\ PegKept

\* The table after a report is again a table of reports within the window.
LEMMA KeptFacts ==
    ASSUME TypeOK, WindowBounded, NEW account \in Oracles, NEW balance \in Reports
    PROVE  /\ Kept(account, balance) \in Seq(Report)
           /\ Len(Kept(account, balance)) <= Window
  <1> DEFINE row == [account |-> account, balance |-> balance]
             grown == Append(balances, row)
  <1>1. row \in Report /\ balances \in Seq(Report)
    BY CustodianAssumption DEF Report, TypeOK
  <1> HIDE DEF row
  <1>2. /\ grown \in Seq(Report)
        /\ grown # <<>>
        /\ Len(grown) = Len(balances) + 1
    BY <1>1, AppendProperties
  <1>3. /\ Tail(grown) \in Seq(Report)
        /\ Len(Tail(grown)) = Len(grown) - 1
    BY <1>2, HeadTailProperties
  <1>4. Len(balances) \in Nat /\ Len(balances) <= Window /\ Window \in Nat \ {0}
    BY <1>1, CustodianAssumption, LenProperties DEF WindowBounded
  <1>5. CASE balances = <<>>
    <2>1. Len(balances) = 0 /\ Len(<<>>) = 0
      BY <1>1, <1>5, EmptySeq
    <2>2. Kept(account, balance) = grown
      BY <1>5, <2>1, <1>4 DEF Kept, Seen, row
    <2>3. QED
      BY <2>1, <2>2, <1>2, <1>4
  <1>6. CASE balances # <<>>
    <2>1. Kept(account, balance) = IF Len(grown) > Window THEN Tail(grown) ELSE grown
      BY <1>6 DEF Kept, Seen, row
    <2> HIDE DEF grown
    <2>2. CASE Len(grown) > Window
      BY <2>1, <2>2, <1>2, <1>3, <1>4
    <2>3. CASE ~(Len(grown) > Window)
      BY <2>1, <2>3, <1>2, <1>4
    <2>4. QED
      BY <2>2, <2>3
  <1>7. QED
    BY <1>5, <1>6

\* The initial tables satisfy the invariant.
LEMMA CustodianInvInit == Init => CustodianInv
  <1> SUFFICES ASSUME Init PROVE CustodianInv
    OBVIOUS
  <1>1. balances \in Seq(Report) /\ Len(balances) = 0
    BY EmptySeq DEF Init
  <1>2. TypeOK
    BY <1>1, CustodianAssumption DEF Init, TypeOK, NoBalance
  <1>3. WindowBounded /\ PegKept
    BY <1>1, CustodianAssumption DEF Init, WindowBounded, PegKept, NoBalance
  <1>4. QED
    BY <1>2, <1>3 DEF CustodianInv

\* initbalance rebases the record on what has been retired so far.
LEMMA initbalanceInv ==
    ASSUME CustodianInv, NEW balance \in Reports, initbalance(balance)
    PROVE  CustodianInv'
  <1> USE CustodianAssumption DEF CustodianInv
  <1>1. /\ history \in [inits : Nat, credited : Nat, retired : Nat]
        /\ balance \in 0..(U64 - 1)
    BY DEF TypeOK
  <1>2. /\ history' \in [inits : Nat, credited : Nat, retired : Nat]
        /\ history'.credited = balance + history.retired
        /\ history'.retired = history.retired
    <2>1. /\ history.inits + 1 \in Nat
          /\ balance + history.retired \in Nat
          /\ history.retired \in Nat
      BY <1>1
    <2>2. history' = [inits |-> history.inits + 1,
                      credited |-> balance + history.retired,
                      retired |-> history.retired]
      BY <1>1 DEF initbalance
    <2>3. QED
      BY <2>1, <2>2
  <1>3. TypeOK'
    BY <1>1, <1>2 DEF initbalance, TypeOK
  <1>4. WindowBounded'
    BY DEF initbalance, WindowBounded
  <1>5. PegKept'
    BY <1>2 DEF initbalance, PegKept
  <1>6. QED
    BY <1>3, <1>4, <1>5

\* A report keeps the peg whatever the uninitialised counter held.
LEMMA updtblncInv ==
    ASSUME CustodianInv, NEW account \in Oracles, NEW balance \in Reports,
           updtblnc(account, balance)
    PROVE  CustodianInv'
  <1> USE CustodianAssumption DEF CustodianInv
  <1> DEFINE amount == AmountToTransfer(balance)
  <1>1. /\ history \in [inits : Nat, credited : Nat, retired : Nat]
        /\ balance \in 0..(U64 - 1)
        /\ currentbal \in 0..(U64 - 1)
        /\ issuerFunds \in Nat
        /\ U64 \in Nat /\ U64 > 0
    BY DEF TypeOK, updtblnc
  <1>2. /\ balances' \in Seq(Report)
        /\ Len(balances') <= Window
    BY KeptFacts DEF updtblnc
  <1>3. WindowBounded'
    BY <1>2 DEF WindowBounded
  <1>4. CASE UNCHANGED <<currentbal, issuerFunds, history>>
    <2>1. TypeOK'
      BY <1>2, <1>4 DEF TypeOK, updtblnc
    <2>2. PegKept'
      BY <1>4 DEF PegKept
    <2>3. QED
      BY <1>3, <2>1, <2>2
  <1>5. CASE /\ issuerFunds >= amount
             /\ currentbal' = balance
             /\ issuerFunds' = issuerFunds - amount
             /\ history' = [history EXCEPT !.retired = @ + amount]
    <2>1. amount = IF balance <= currentbal THEN currentbal - balance
                   ELSE currentbal - balance + U64
      BY <1>1, AmountCases
    <2> HIDE DEF amount
    <2>2. amount \in Nat
      BY <1>1, <2>1
    <2>3. /\ history' \in [inits : Nat, credited : Nat, retired : Nat]
          /\ history'.retired = history.retired + amount
          /\ history'.credited = history.credited
      BY <1>1, <1>5, <2>2
    <2>4. TypeOK'
      <3>1. issuerFunds' \in Nat /\ currentbal' \in 0..(U64 - 1)
        BY <1>1, <1>5, <2>2
      <3>2. staked' \subseteq Oracles /\ nodelist' \subseteq Oracles
        BY DEF TypeOK, updtblnc
      <3>3. QED
        BY <1>2, <2>3, <3>1, <3>2 DEF TypeOK
    <2>5. (balance + (history.retired + amount)) % U64
             = (currentbal + history.retired) % U64
      <3>1. CASE balance <= currentbal
        <4>1. balance + (history.retired + amount) = currentbal + history.retired
          BY <1>1, <2>1, <3>1
        <4>2. QED
          BY <4>1
      <3>2. CASE ~(balance <= currentbal)
        <4> DEFINE x == currentbal + history.retired
        <4>1. x \in Int /\ balance + (history.retired + amount) = x + U64
          BY <1>1, <2>1, <3>2
        <4>2. (x + U64) % U64 = x % U64
          <5> HIDE DEF x
          <5>1. QED
            BY <1>1, <4>1, ResidueShift
        <4>3. QED
          BY <4>1, <4>2
      <3>3. QED
        BY <3>1, <3>2
    <2>6. currentbal # NoBalance
      BY <1>1 DEF NoBalance
    <2>7. (currentbal + history.retired) % U64 = history.credited % U64
      BY <2>6 DEF PegKept
    <2>8. issuerFunds' + history'.retired = IssuerFunds
      BY <1>1, <1>5, <2>2, <2>3 DEF PegKept
    <2>9. PegKept'
      BY <1>5, <2>3, <2>5, <2>7, <2>8 DEF PegKept
    <2>10. QED
      BY <1>3, <2>4, <2>9
  <1>6. QED
    BY <1>4, <1>5 DEF updtblnc, updtblncFrom, Recorded, Retirable

\* Every step preserves the invariant.
LEMMA CustodianInvNext == CustodianInv /\ [Next]_vars => CustodianInv'
  <1> SUFFICES ASSUME CustodianInv, [Next]_vars PROVE CustodianInv'
    OBVIOUS
  <1>1. ASSUME NEW b \in Reports, initbalance(b) PROVE CustodianInv'
    BY <1>1, initbalanceInv
  <1>2. ASSUME clearblnc PROVE CustodianInv'
    <2>1. balances' \in Seq(Report) /\ Len(balances') = 0
      BY <1>2, EmptySeq DEF clearblnc
    <2>2. TypeOK' /\ WindowBounded' /\ PegKept'
      BY <1>2, <2>1, CustodianAssumption
         DEF CustodianInv, TypeOK, WindowBounded, PegKept, clearblnc
    <2>3. QED
      BY <2>2 DEF CustodianInv
  <1>3. ASSUME NEW o \in Oracles, NEW b \in Reports, updtblnc(o, b)
        PROVE  CustodianInv'
    BY <1>3, updtblncInv
  <1>4. ASSUME NEW o \in Oracles,
               regnode(o) \/ rmnode(o) \/ checknode(o) \/ stake(o) \/ unstake(o)
        PROVE  CustodianInv'
    <2>1. UNCHANGED <<balances, currentbal, issuerFunds, history>>
      BY <1>4 DEF regnode, rmnode, checknode, stake, unstake, vars
    <2>2. staked' \subseteq Oracles /\ nodelist' \subseteq Oracles
      BY <1>4 DEF CustodianInv, TypeOK, regnode, rmnode, checknode, stake, unstake, vars
    <2>3. TypeOK'
      BY <2>1, <2>2 DEF CustodianInv, TypeOK
    <2>4. WindowBounded' /\ PegKept'
      BY <2>1 DEF CustodianInv, WindowBounded, PegKept
    <2>5. QED
      BY <2>3, <2>4 DEF CustodianInv
  <1>5. CASE UNCHANGED vars
    BY <1>5 DEF CustodianInv, TypeOK, WindowBounded, PegKept, vars
  <1>6. QED
    BY <1>1, <1>2, <1>3, <1>4, <1>5 DEF Next

\* The tables of the custodian keep their types.
THEOREM CustodianTypeCorrect == Spec => []TypeOK
  <1>1. CustodianInv => TypeOK
    BY DEF CustodianInv
  <1>2. QED
    BY CustodianInvInit, CustodianInvNext, <1>1, PTL DEF Spec

\* updtblnc keeps at most Window reports, for any number of reporting oracles.
THEOREM WindowCorrect == Spec => []WindowBounded
  <1>1. CustodianInv => WindowBounded
    BY DEF CustodianInv
  <1>2. QED
    BY CustodianInvInit, CustodianInvNext, <1>1, PTL DEF Spec

\* The VTX retired is what the recorded balance lost, modulo the width of the
\* integers, whatever the counter of equal reports starts from.
THEOREM PegCorrect == Spec => []PegKept
  <1>1. CustodianInv => PegKept
    BY DEF CustodianInv
  <1>2. QED
    BY CustodianInvInit, CustodianInvNext, <1>1, PTL DEF Spec

\* A step that raises the record without initbalance is a wrapped difference.
LEMMA RiseStep ==
    ASSUME CustodianInv, [Next]_vars,
           currentbal # NoBalance, currentbal' > currentbal,
           history'.inits = history.inits
    PROVE  4 * (currentbal' - currentbal) > 3 * U64
  <1> USE CustodianAssumption DEF CustodianInv
  <1>1. /\ currentbal \in 0..(U64 - 1)
        /\ history \in [inits : Nat, credited : Nat, retired : Nat]
    BY DEF TypeOK
  <1>2. ASSUME NEW b \in Reports, initbalance(b) PROVE FALSE
    BY <1>1, <1>2 DEF initbalance
  <1>3. ASSUME NEW o \in Oracles, NEW b \in Reports, updtblnc(o, b)
        PROVE  4 * (currentbal' - currentbal) > 3 * U64
    <2>1. b \in 0..(U64 - 1)
      OBVIOUS
    <2>2. currentbal' = b /\ ValidAmount(AmountToTransfer(b))
      BY <1>1, <1>3 DEF updtblnc, updtblncFrom, Recorded, Retirable
    <2>3. AmountToTransfer(b) = currentbal - b + U64
      BY <1>1, <2>1, <2>2, AmountCases
    <2>4. 4 * (currentbal - b + U64) < U64
      BY <2>2, <2>3 DEF ValidAmount
    <2>5. QED
      BY <1>1, <2>1, <2>2, <2>4
  <1>4. ASSUME UNCHANGED currentbal PROVE FALSE
    BY <1>1, <1>4
  <1>5. QED
    BY <1>2, <1>3, <1>4
       DEF Next, vars, clearblnc, regnode, rmnode, checknode, stake, unstake

\* Outside initbalance the recorded balance rises only through an unsigned
\* difference that wraps to an amount the token contract accepts.
THEOREM RisesCorrect == Spec => RisesOnlyByWrap
  <1>1. CustodianInv /\ [Next]_vars =>
           [ /\ currentbal # NoBalance
             /\ currentbal' > currentbal
             /\ history'.inits = history.inits
             => 4 * (currentbal' - currentbal) > 3 * U64 ]_vars
    BY RiseStep
  <1>2. QED
    BY CustodianInvInit, CustodianInvNext, <1>1, PTL DEF Spec, RisesOnlyByWrap

-----------------------------------------------------------------------------
(* When a retire happens.                                                    *)

\* A residue does not exceed the number.
LEMMA ResidueAtMost ==
    ASSUME NEW x \in Nat, NEW m \in Nat, m > 0
    PROVE  x % m \in Nat /\ x % m <= x
  <1> DEFINE q == x \div m
             r == x % m
  <1>1. q \in Int /\ r \in 0..(m - 1) /\ x = m * q + r
    OBVIOUS
  <1> HIDE DEF q, r
  <1>2. CASE q <= -1
    <2>1. m * q <= -m
      BY <1>1, <1>2, Z3
    <2>2. QED
      BY <1>1, <2>1
  <1>3. CASE q >= 0
    <2>1. m * q >= 0
      BY <1>1, <1>3, Z3
    <2>2. r <= x
      BY <1>1, <2>1
    <2>3. QED
      BY <1>1, <2>2 DEF r
  <1>4. QED
    BY <1>1, <1>2, <1>3

\* A quotient of one or more: the number is not below the divisor.
LEMMA QuotientOne ==
    ASSUME NEW x \in Nat, NEW m \in Nat, m > 0, x \div m >= 1
    PROVE  x >= m
  <1> DEFINE q == x \div m
             r == x % m
  <1>1. q \in Int /\ r \in 0..(m - 1) /\ x = m * q + r /\ q >= 1
    OBVIOUS
  <1> HIDE DEF q, r
  <1>2. m * q >= m
    BY <1>1, Z3
  <1>3. QED
    BY <1>1, <1>2

\* As many matches as rows: every row after the first equals the one before it.
LEMMA AllMatch ==
    ASSUME NEW S, NEW seen \in Seq(S), NEW previous, Matches(seen, previous) >= Len(seen)
    PROVE  \A i \in 2..Len(seen) : seen[i].balance = seen[i - 1].balance
  <1> DEFINE T == {i \in 1..Len(seen) :
                      seen[i].balance = IF i = 1 THEN previous ELSE seen[i - 1].balance}
  <1>1. Len(seen) \in Nat
    OBVIOUS
  <1>2. IsFiniteSet(1..Len(seen)) /\ Cardinality(1..Len(seen)) = Len(seen)
    BY <1>1, FS_Interval
  <1>3. T \subseteq 1..Len(seen)
    OBVIOUS
  <1>4. Cardinality(T) >= Len(seen)
    BY DEF Matches
  <1>5. PICK U : U = T
    OBVIOUS
  <1>6. /\ Cardinality(U) <= Len(seen) /\ IsFiniteSet(U)
        /\ Len(seen) = Cardinality(U) => 1..Len(seen) = U
    BY <1>2, <1>3, <1>5, FS_Subset
  <1>7. Cardinality(U) \in Nat
    BY <1>6, FS_CardinalityType
  <1>8. 1..Len(seen) = T
    BY <1>1, <1>4, <1>5, <1>6, <1>7
  <1>9. SUFFICES ASSUME NEW i \in 2..Len(seen)
                 PROVE  seen[i].balance = seen[i - 1].balance
    OBVIOUS
  <1>10. i \in T /\ i # 1
    BY <1>1, <1>8
  <1>11. QED
    BY <1>10

\* A chain of equal neighbours: all equal the last.
LEMMA ChainEqual ==
    ASSUME NEW S, NEW seen \in Seq(S),
           \A i \in 2..Len(seen) : seen[i].balance = seen[i - 1].balance
    PROVE  \A i \in 1..Len(seen) : seen[i].balance = seen[Len(seen)].balance
  <1> DEFINE Bad == {i \in 1..Len(seen) : seen[i].balance # seen[1].balance}
  <1>1. Len(seen) \in Nat
    OBVIOUS
  <1>2. Bad = {}
    <2>1. SUFFICES ASSUME Bad # {} PROVE FALSE
      OBVIOUS
    <2>2. PICK i \in Bad : \A k \in Bad : i <= k
      <3>1. Bad \in SUBSET Nat
        BY <1>1
      <3>2. QED
        BY <2>1, <3>1, LeastNat
    <2>3. i \in 2..Len(seen) /\ i - 1 \in 1..Len(seen) /\ i - 1 < i
      BY <1>1, <2>2
    <2>4. i - 1 \notin Bad
      BY <2>2, <2>3
    <2>5. seen[i - 1].balance = seen[1].balance
      BY <2>3, <2>4
    <2>6. seen[i].balance = seen[i - 1].balance
      BY <2>3
    <2>7. QED
      BY <2>2, <2>5, <2>6
  <1>3. \A i \in 1..Len(seen) : seen[i].balance = seen[1].balance
    BY <1>2
  <1>4. QED
    BY <1>1, <1>3

\* What the reports were when a retire happened with `same` from zero.
LEMMA UnanimousStep ==
    ASSUME TypeOK, history'.retired > history.retired,
           NEW o \in Oracles, NEW b \in Reports, NEW previous0,
           updtblncFrom(o, b, 0, previous0)
    PROVE  \A i \in 1..Len(balances) : balances[i].balance = b
  <1> DEFINE row == [account |-> o, balance |-> b]
             seen == Append(balances, row)
             matches == Matches(seen, previous0)
  <1>0. U64 \in Nat /\ U64 > 0
    BY CustodianAssumption
  <1>1. row \in Report /\ balances \in Seq(Report) /\ row.balance = b
    BY CustodianAssumption DEF Report, TypeOK
  <1>2. history' # history
    BY DEF TypeOK
  <1>3. Agreed(Seen(o, b), (0 + Matches(Seen(o, b), previous0)) % U64)
    BY <1>2 DEF updtblncFrom
  <1>4. Seen(o, b) = seen
    BY <1>3 DEF Agreed, Seen
  <1>5. ((0 + matches) % U64) \div Len(seen) >= 1
    BY <1>3, <1>4 DEF Agreed
  <1> HIDE DEF row
  <1>6. /\ seen \in Seq(Report) /\ Len(seen) = Len(balances) + 1
        /\ seen[Len(balances) + 1] = row
        /\ \A i \in 1..Len(balances) : seen[i] = balances[i]
        /\ Len(balances) \in Nat
    BY <1>1
  <1> HIDE DEF seen
  <1>7. matches \in Nat
    <2>1. IsFiniteSet(1..Len(seen))
      BY <1>6, FS_Interval
    <2>2. IsFiniteSet({i \in 1..Len(seen) :
             seen[i].balance = IF i = 1 THEN previous0 ELSE seen[i - 1].balance})
      BY <2>1, FS_Subset
    <2>3. QED
      BY <2>2, FS_CardinalityType DEF Matches
  <1> HIDE DEF matches
  <1>8. (0 + matches) = matches
    BY <1>7
  <1>9. matches % U64 \in Nat /\ matches % U64 <= matches
    BY <1>0, <1>7, ResidueAtMost
  <1>10. Len(seen) \in Nat /\ Len(seen) > 0
    BY <1>6
  <1>11. (matches % U64) \div Len(seen) >= 1
    BY <1>5, <1>8
  <1>12. matches % U64 >= Len(seen)
    BY <1>9, <1>10, <1>11, QuotientOne
  <1>13. matches >= Len(seen)
    BY <1>7, <1>9, <1>10, <1>12
  <1>14. \A i \in 2..Len(seen) : seen[i].balance = seen[i - 1].balance
    BY <1>6, <1>13, AllMatch DEF matches
  <1>15. \A i \in 1..Len(seen) : seen[i].balance = seen[Len(seen)].balance
    BY <1>6, <1>14, ChainEqual
  <1>16. seen[Len(seen)].balance = b
    BY <1>1, <1>6
  <1>17. QED
    BY <1>6, <1>15, <1>16

\* If the counter of equal reports starts from zero, a retire needs all reports
\* in the window to be the same: the quotient of integers asks for unanimity.
THEOREM UnanimityCorrect == Spec => RetireNeedsUnanimity
  <1>1. CustodianInv /\ [Next]_vars =>
           [ history'.retired > history.retired =>
               \A o \in Oracles, b \in Reports, previous0 \in PreviousGarbage :
                  updtblncFrom(o, b, 0, previous0)
                    => \A i \in 1..Len(balances) : balances[i].balance = b ]_vars
    BY UnanimousStep DEF CustodianInv
  <1>2. QED
    BY CustodianInvInit, CustodianInvNext, <1>1, PTL DEF Spec, RetireNeedsUnanimity

=============================================================================
