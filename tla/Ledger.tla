------------------------------- MODULE Ledger -------------------------------
(***************************************************************************)
(* The balance arithmetic of the VTX token contract (volentixgsys,         *)
(* deployed as volentixtsys) that every other contract reaches through an  *)
(* inline action.  Account names are 64-bit integers, modelled as 1..n; a  *)
(* ledger is a function from names to amounts of the smallest unit.        *)
(***************************************************************************)
EXTENDS Totals

\* The balance row of owner after `value` left it.  The caller's guard is
\* "overdrawn balance": b[owner] >= value.
sub_balance(b, owner, value) == [b EXCEPT ![owner] = @ - value]

\* The balance row of owner after `value` arrived (emplace or modify).
add_balance(b, owner, value) == [b EXCEPT ![owner] = @ + value]

\* The checks of transfer on the amount and on the two parties.  An account
\* without a row holds 0 and fails the same check, since quantity > 0.
CanTransfer(b, from, to, quantity) ==
    /\ from # to
    /\ quantity > 0
    /\ b[from] >= quantity

\* The ledger after a transfer.
Transferred(b, from, to, quantity) ==
    add_balance(sub_balance(b, from, quantity), to, quantity)

=============================================================================
