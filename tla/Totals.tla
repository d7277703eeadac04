------------------------------- MODULE Totals -------------------------------
(***************************************************************************)
(* The sum of a table column.  An EOSIO table is keyed by account names,   *)
(* which are 64-bit integers, so a table with one row per account is a     *)
(* function f on 1..n and its total is the last of its running sums.       *)
(***************************************************************************)
EXTENDS Integers

\* run[k] is the sum of the first k entries of f.
RunningSum(f, n) ==
    LET run[k \in 0..n] == IF k = 0 THEN 0 ELSE run[k - 1] + f[k]
    IN  run

\* The sum of f[1], ..., f[n].
Total(f, n) == RunningSum(f, n)[n]

=============================================================================
