--------------------------- MODULE TotalTheorems ---------------------------
(***************************************************************************)
(* What Total computes, for every length.  The library's induction         *)
(* theorems take an operator as a parameter; the proofs here argue from    *)
(* the least counterexample instead.                                       *)
(***************************************************************************)
EXTENDS Totals, WellFoundedInduction, TLAPS

\* A nonempty set of naturals has a least element: the form in which the
\* proofs below use induction.
LEMMA LeastNat ==
    ASSUME NEW T \in SUBSET Nat, T # {}
    PROVE  \E m \in T : \A k \in T : m <= k
<1>1. \E m \in T : \A k \in T : ~(<<k, m>> \in OpToRel(<, Nat))
  BY WFMin, NatLessThanWellFounded
<1>2. PICK m \in T : \A k \in T : ~(<<k, m>> \in OpToRel(<, Nat))
  BY <1>1
<1>3. ASSUME NEW k \in T
      PROVE  m <= k
  <2>1. m \in Nat /\ k \in Nat
    OBVIOUS
  <2>2. ~(k < m)
    BY <1>2, <2>1 DEF OpToRel
  <2>3. QED
    BY <2>1, <2>2
<1>4. QED
  BY <1>3

\* g is the function of running sums of f.
IsRun(g, f, n) ==
    /\ g \in [0..n -> Int]
    /\ g[0] = 0
    /\ \A k \in 1..n : g[k] = g[k - 1] + f[k]

\* Every function on 1..n has a function of running sums.
LEMMA RunExists ==
    ASSUME NEW n \in Nat, NEW f \in [1..n -> Int]
    PROVE  \A m \in 0..n : \E g : IsRun(g, f, m)
<1> DEFINE Bad == {m \in 0..n : ~ \E g : IsRun(g, f, m)}
<1>1. SUFFICES ASSUME Bad # {} PROVE FALSE
  OBVIOUS
<1>2. PICK m \in Bad : \A k \in Bad : m <= k
  <2>1. Bad \in SUBSET Nat
    OBVIOUS
  <2>2. QED
    BY <1>1, <2>1, LeastNat
<1>3. m # 0
  <2>1. IsRun([k \in 0..0 |-> 0], f, 0)
    BY DEF IsRun
  <2> QED BY <2>1
<1>4. m - 1 \in 0..n /\ m - 1 \notin Bad
  BY <1>2, <1>3
<1>5. PICK g : IsRun(g, f, m - 1)
  BY <1>4
<1>6. IsRun([k \in 0..m |-> IF k = m THEN g[m - 1] + f[m] ELSE g[k]], f, m)
  <2> DEFINE h == [k \in 0..m |-> IF k = m THEN g[m - 1] + f[m] ELSE g[k]]
  <2>1. m \in 1..n /\ f[m] \in Int
    BY <1>2, <1>3
  <2>2. g \in [0..(m - 1) -> Int] /\ g[0] = 0
    BY <1>5 DEF IsRun
  <2>3. h \in [0..m -> Int]
    BY <2>1, <2>2
  <2>4. h[0] = 0
    BY <2>1, <2>2
  <2>5. ASSUME NEW k \in 1..m
        PROVE  h[k] = h[k - 1] + f[k]
    <3>1. CASE k = m
      BY <2>1, <3>1
    <3>2. CASE k # m
      <4>1. k \in 1..(m - 1) /\ k - 1 \in 0..m /\ k - 1 # m /\ k \in 0..m
        BY <2>1, <3>2
      <4>2. g[k] = g[k - 1] + f[k]
        BY <1>5, <4>1 DEF IsRun
      <4>3. QED
        BY <3>2, <4>1, <4>2
    <3>3. QED
      BY <3>1, <3>2
  <2>6. QED
    BY <2>3, <2>4, <2>5 DEF IsRun
<1>7. QED
  BY <1>6

\* The recursive definition of RunningSum is satisfied, and its value is the
\* function of running sums.
LEMMA RunningSumIsRun ==
    ASSUME NEW n \in Nat, NEW f \in [1..n -> Int]
    PROVE  IsRun(RunningSum(f, n), f, n)
<1> DEFINE Step(g) == [k \in 0..n |-> IF k = 0 THEN 0 ELSE g[k - 1] + f[k]]
<1>1. PICK g : IsRun(g, f, n)
  BY RunExists
<1>2. g = Step(g)
  BY <1>1 DEF IsRun
<1>3. RunningSum(f, n) = CHOOSE h : h = Step(h)
  BY DEF RunningSum
<1>4. RunningSum(f, n) = Step(RunningSum(f, n))
  BY <1>2, <1>3
<1>5. RunningSum(f, n) = g
  <2> DEFINE G == RunningSum(f, n)
             Bad == {k \in 0..n : G[k] # g[k]}
  <2> HIDE DEF G
  <2>0. G = [k \in 0..n |-> IF k = 0 THEN 0 ELSE G[k - 1] + f[k]]
    BY <1>4 DEF G
  <2>1. SUFFICES ASSUME Bad # {} PROVE FALSE
    <3>1. SUFFICES ASSUME Bad = {} PROVE G = g
      BY DEF G
    <3>2. \A k \in 0..n : G[k] = g[k]
      BY <3>1
    <3>3. [k \in 0..n |-> G[k]] = [k \in 0..n |-> g[k]]
      BY <3>2
    <3>4. G = [k \in 0..n |-> G[k]] /\ g = [k \in 0..n |-> g[k]]
      BY <2>0, <1>2
    <3>5. QED
      BY <3>3, <3>4
  <2>2. Bad \in SUBSET Nat
    OBVIOUS
  <2>3. PICK k \in Bad : \A j \in Bad : k <= j
    BY <2>1, <2>2, LeastNat
  <2>4. k # 0
    BY <1>2, <2>0
  <2>5. k - 1 \in 0..n /\ k - 1 \notin Bad
    BY <2>3, <2>4
  <2>6. G[k - 1] = g[k - 1]
    BY <2>5
  <2>7. G[k] = G[k - 1] + f[k] /\ g[k] = g[k - 1] + f[k]
    BY <2>0, <2>4, <1>2
  <2>8. QED
    BY <2>6, <2>7
<1>6. QED
  BY <1>1, <1>5

\* A total of integers is an integer.
LEMMA TotalInt ==
    ASSUME NEW n \in Nat, NEW f \in [1..n -> Int]
    PROVE  Total(f, n) \in Int
BY RunningSumIsRun DEF Total, IsRun

\* A column of zeros adds up to zero.
LEMMA TotalZero ==
    ASSUME NEW n \in Nat
    PROVE  Total([k \in 1..n |-> 0], n) = 0
<1> DEFINE f == [k \in 1..n |-> 0]
           g == RunningSum(f, n)
           Bad == {k \in 0..n : g[k] # 0}
<1> HIDE DEF g
<1>1. IsRun(g, f, n)
  BY RunningSumIsRun DEF g
<1>2. SUFFICES ASSUME Bad # {} PROVE FALSE
  BY <1>1 DEF Total, g
<1>3. Bad \in SUBSET Nat
  OBVIOUS
<1>4. PICK k \in Bad : \A j \in Bad : k <= j
  BY <1>2, <1>3, LeastNat
<1>5. k # 0
  BY <1>1 DEF IsRun
<1>6. k - 1 \in 0..n /\ k - 1 \notin Bad
  BY <1>4, <1>5
<1>7. QED
  BY <1>1, <1>5, <1>6 DEF IsRun

\* When one entry changes, the total changes by the same difference: what the
\* modify of one table row does to the sum of its column.
LEMMA TotalUpdate ==
    ASSUME NEW n \in Nat, NEW f \in [1..n -> Int], NEW h \in [1..n -> Int],
           NEW i \in 1..n, \A k \in 1..n : k # i => h[k] = f[k]
    PROVE  Total(h, n) = Total(f, n) + (h[i] - f[i])
<1> DEFINE a == RunningSum(f, n)
           b == RunningSum(h, n)
           Diff(k) == IF k < i THEN 0 ELSE h[i] - f[i]
           Bad == {k \in 0..n : b[k] # a[k] + Diff(k)}
<1> HIDE DEF a, b
<1>1. IsRun(a, f, n) /\ IsRun(b, h, n)
  BY RunningSumIsRun DEF a, b
<1>2. Bad = {}
  <2>1. SUFFICES ASSUME Bad # {} PROVE FALSE
    OBVIOUS
  <2>2. Bad \in SUBSET Nat
    OBVIOUS
  <2>3. PICK k \in Bad : \A j \in Bad : k <= j
    BY <2>1, <2>2, LeastNat
  <2>4. k # 0
    BY <1>1 DEF IsRun
  <2>5. k - 1 \in 0..n /\ k - 1 \notin Bad /\ k \in 1..n
    BY <2>3, <2>4
  <2>6. a[k] = a[k - 1] + f[k] /\ b[k] = b[k - 1] + h[k]
    BY <1>1, <2>5 DEF IsRun
  <2>7. /\ a[k - 1] \in Int /\ b[k - 1] \in Int
        /\ f[k] \in Int /\ f[i] \in Int /\ h[k] \in Int /\ h[i] \in Int
    BY <1>1, <2>5 DEF IsRun
  <2>8. b[k - 1] = a[k - 1] + Diff(k - 1)
    BY <2>5
  <2>9. k # i => h[k] = f[k]
    BY <2>5
  <2>10. b[k] # a[k] + Diff(k)
    OBVIOUS
  <2>11. CASE k < i
    BY <2>5, <2>6, <2>7, <2>8, <2>9, <2>10, <2>11
  <2>12. CASE k = i
    <3>1. b[k - 1] = a[k - 1]
      BY <2>5, <2>7, <2>8, <2>12
    <3>2. QED
      BY <2>5, <2>6, <2>7, <2>10, <2>12, <3>1
  <2>13. CASE k > i
    <3>1. b[k - 1] = a[k - 1] + (h[i] - f[i])
      BY <2>5, <2>8, <2>13
    <3>2. QED
      BY <2>5, <2>6, <2>7, <2>9, <2>10, <2>13, <3>1
  <2>14. QED
    BY <2>5, <2>11, <2>12, <2>13
<1>3. b[n] = a[n] + (h[i] - f[i])
  BY <1>2
<1>4. QED
  BY <1>3 DEF Total, a, b

\* A total of naturals is a natural.
LEMMA TotalNat ==
    ASSUME NEW n \in Nat, NEW f \in [1..n -> Nat]
    PROVE  Total(f, n) \in Nat
<1> DEFINE g == RunningSum(f, n)
           Bad == {k \in 0..n : ~(g[k] >= 0)}
<1> HIDE DEF g
<1>0. f \in [1..n -> Int]
  OBVIOUS
<1>1. IsRun(g, f, n)
  BY <1>0, RunningSumIsRun DEF g
<1>2. SUFFICES ASSUME Bad # {} PROVE FALSE
  <2>1. SUFFICES ASSUME Bad = {} PROVE g[n] \in Nat
    BY DEF Total, g
  <2>2. n \in 0..n /\ g[n] \in Int
    BY <1>1 DEF IsRun
  <2>3. g[n] >= 0
    BY <2>1, <2>2
  <2>4. QED
    BY <2>2, <2>3
<1>3. Bad \in SUBSET Nat
  OBVIOUS
<1>4. PICK k \in Bad : \A j \in Bad : k <= j
  BY <1>2, <1>3, LeastNat
<1>5. k # 0
  BY <1>1 DEF IsRun
<1>6. k - 1 \in 0..n /\ k - 1 \notin Bad /\ k \in 1..n
  BY <1>4, <1>5
<1>7. g[k] = g[k - 1] + f[k] /\ g[k - 1] \in Int /\ f[k] \in Nat
  BY <1>1, <1>6 DEF IsRun
<1>8. QED
  BY <1>6, <1>7

\* No entry of a column of naturals exceeds its total.
LEMMA EntryAtMostTotal ==
    ASSUME NEW n \in Nat, NEW f \in [1..n -> Nat], NEW i \in 1..n
    PROVE  f[i] <= Total(f, n)
<1> DEFINE h == [f EXCEPT ![i] = 0]
<1>1. f \in [1..n -> Int] /\ f[i] \in Nat
  OBVIOUS
<1>2. /\ h \in [1..n -> Nat] /\ h \in [1..n -> Int] /\ h[i] = 0
      /\ \A k \in 1..n : k # i => h[k] = f[k]
  OBVIOUS
<1> HIDE DEF h
<1>3. Total(h, n) = Total(f, n) + (h[i] - f[i])
  BY <1>1, <1>2, TotalUpdate
<1>4. Total(h, n) \in Nat /\ Total(f, n) \in Int
  BY <1>1, <1>2, TotalNat, TotalInt
<1>5. QED
  BY <1>1, <1>2, <1>3, <1>4

\* The total of a sum of two columns is the sum of their totals.
LEMMA TotalSum ==
    ASSUME NEW n \in Nat, NEW f \in [1..n -> Int], NEW g \in [1..n -> Int],
           NEW h \in [1..n -> Int], \A k \in 1..n : h[k] = f[k] + g[k]
    PROVE  Total(h, n) = Total(f, n) + Total(g, n)
<1> DEFINE a == RunningSum(f, n)
           b == RunningSum(g, n)
           c == RunningSum(h, n)
           Bad == {k \in 0..n : c[k] # a[k] + b[k]}
<1> HIDE DEF a, b, c
<1>1. IsRun(a, f, n) /\ IsRun(b, g, n) /\ IsRun(c, h, n)
  BY RunningSumIsRun DEF a, b, c
<1>2. Bad = {}
  <2>1. SUFFICES ASSUME Bad # {} PROVE FALSE
    OBVIOUS
  <2>2. Bad \in SUBSET Nat
    OBVIOUS
  <2>3. PICK k \in Bad : \A j \in Bad : k <= j
    BY <2>1, <2>2, LeastNat
  <2>4. k # 0
    BY <1>1 DEF IsRun
  <2>5. k - 1 \in 0..n /\ k - 1 \notin Bad /\ k \in 1..n
    BY <2>3, <2>4
  <2>6. /\ a[k] = a[k - 1] + f[k] /\ b[k] = b[k - 1] + g[k] /\ c[k] = c[k - 1] + h[k]
        /\ a[k - 1] \in Int /\ b[k - 1] \in Int /\ c[k - 1] \in Int
    BY <1>1, <2>5 DEF IsRun
  <2>7. c[k - 1] = a[k - 1] + b[k - 1] /\ c[k] # a[k] + b[k]
    BY <2>5
  <2>8. f[k] \in Int /\ g[k] \in Int /\ h[k] = f[k] + g[k]
    BY <2>5
  <2>9. c[k] = (a[k - 1] + b[k - 1]) + (f[k] + g[k])
    BY <2>6, <2>7, <2>8
  <2>10. a[k] + b[k] = (a[k - 1] + b[k - 1]) + (f[k] + g[k])
    <3>1. a[k - 1] \in Int /\ b[k - 1] \in Int /\ f[k] \in Int /\ g[k] \in Int
      BY <2>6, <2>8, Zenon
    <3>2. PICK x \in Int, y \in Int, u \in Int, v \in Int :
             x = a[k - 1] /\ y = b[k - 1] /\ u = f[k] /\ v = g[k]
      BY <3>1, Zenon
    <3>3. (x + u) + (y + v) = (x + y) + (u + v)
      OBVIOUS
    <3>4. a[k] = x + u /\ b[k] = y + v
      BY <2>6, <3>2, Zenon
    <3>5. a[k] + b[k] = (x + y) + (u + v)
      BY <3>3, <3>4, Zenon
    <3>6. QED
      BY <3>2, <3>5, Zenon
  <2>11. QED
    BY <2>7, <2>9, <2>10, Zenon
<1>3. c[n] = a[n] + b[n]
  BY <1>2
<1>4. QED
  BY <1>3 DEF Total, a, b, c

\* Greater entries have a greater total.
LEMMA TotalMonotone ==
    ASSUME NEW n \in Nat, NEW f \in [1..n -> Int], NEW h \in [1..n -> Int],
           \A k \in 1..n : f[k] <= h[k]
    PROVE  Total(f, n) <= Total(h, n)
<1> DEFINE d == [k \in 1..n |-> h[k] - f[k]]
<1>1. /\ d \in [1..n -> Nat] /\ d \in [1..n -> Int]
      /\ \A k \in 1..n : h[k] = f[k] + d[k]
  OBVIOUS
<1> HIDE DEF d
<1>2. Total(h, n) = Total(f, n) + Total(d, n)
  BY <1>1, TotalSum
<1>3. Total(d, n) \in Nat /\ Total(f, n) \in Int
  BY <1>1, TotalNat, TotalInt
<1>4. QED
  BY <1>2, <1>3

\* A common factor of the entries is one of the total.
LEMMA TotalScale ==
    ASSUME NEW n \in Nat, NEW c \in Int, NEW f \in [1..n -> Int], NEW h \in [1..n -> Int],
           \A k \in 1..n : h[k] = f[k] * c
    PROVE  Total(h, n) = Total(f, n) * c
<1> DEFINE a == RunningSum(f, n)
           b == RunningSum(h, n)
           Bad == {k \in 0..n : b[k] # a[k] * c}
<1> HIDE DEF a, b
<1>1. IsRun(a, f, n) /\ IsRun(b, h, n)
  BY RunningSumIsRun DEF a, b
<1>2. Bad = {}
  <2>1. SUFFICES ASSUME Bad # {} PROVE FALSE
    OBVIOUS
  <2>2. Bad \in SUBSET Nat
    OBVIOUS
  <2>3. PICK k \in Bad : \A j \in Bad : k <= j
    BY <2>1, <2>2, LeastNat
  <2>4. k # 0
    BY <1>1 DEF IsRun
  <2>5. k - 1 \in 0..n /\ k - 1 \notin Bad /\ k \in 1..n
    BY <2>3, <2>4
  <2>6. /\ a[k] = a[k - 1] + f[k] /\ b[k] = b[k - 1] + h[k]
        /\ a[k - 1] \in Int /\ b[k - 1] \in Int
    BY <1>1, <2>5 DEF IsRun
  <2>7. b[k - 1] = a[k - 1] * c /\ b[k] # a[k] * c
    BY <2>5
  <2>8. f[k] \in Int /\ h[k] = f[k] * c
    BY <2>5
  <2>9. PICK x \in Int, y \in Int : x = a[k - 1] /\ y = f[k]
    BY <2>6, <2>8, Zenon
  <2>10. (x + y) * c = x * c + y * c
    BY Z3
  <2>11. QED
    BY <2>6, <2>7, <2>8, <2>9, <2>10, Zenon
<1>3. b[n] = a[n] * c
  <2>1. n \in 0..n
    OBVIOUS
  <2>2. QED
    BY <1>2, <2>1, Zenon
<1>4. QED
  BY <1>3 DEF Total, a, b

\* One more entry adds itself to the total.
LEMMA TotalExtend ==
    ASSUME NEW n \in Nat, NEW f \in [1..n -> Int], NEW h \in [1..(n + 1) -> Int],
           \A k \in 1..n : h[k] = f[k]
    PROVE  Total(h, n + 1) = Total(f, n) + h[n + 1]
<1> DEFINE a == RunningSum(f, n)
           b == RunningSum(h, n + 1)
           Bad == {k \in 0..n : b[k] # a[k]}
<1> HIDE DEF a, b
<1>1. IsRun(a, f, n) /\ IsRun(b, h, n + 1)
  BY RunningSumIsRun DEF a, b
<1>2. Bad = {}
  <2>1. SUFFICES ASSUME Bad # {} PROVE FALSE
    OBVIOUS
  <2>2. Bad \in SUBSET Nat
    OBVIOUS
  <2>3. PICK k \in Bad : \A j \in Bad : k <= j
    BY <2>1, <2>2, LeastNat
  <2>4. k # 0
    BY <1>1 DEF IsRun
  <2>5. k - 1 \in 0..n /\ k - 1 \notin Bad /\ k \in 1..n /\ k \in 1..(n + 1)
    BY <2>3, <2>4
  <2>6. a[k] = a[k - 1] + f[k] /\ b[k] = b[k - 1] + h[k]
    BY <1>1, <2>5 DEF IsRun
  <2>7. b[k - 1] = a[k - 1] /\ b[k] # a[k]
    BY <2>5
  <2>8. QED
    BY <2>5, <2>6, <2>7
<1>3. b[n] = a[n]
  <2>1. n \in 0..n
    OBVIOUS
  <2>2. QED
    BY <1>2, <2>1, Zenon
<1>4. b[n + 1] = b[n] + h[n + 1]
  <2>1. n + 1 \in 1..(n + 1) /\ (n + 1) - 1 = n
    OBVIOUS
  <2>2. b[n + 1] = b[(n + 1) - 1] + h[n + 1]
    BY <1>1, <2>1 DEF IsRun
  <2>3. QED
    BY <2>1, <2>2
<1>5. QED
  BY <1>3, <1>4 DEF Total, a, b

\* Nothing adds up to zero.
LEMMA TotalEmpty ==
    ASSUME NEW f \in [1..0 -> Int]
    PROVE  Total(f, 0) = 0
BY RunningSumIsRun DEF Total, IsRun
=============================================================================
