-------------------------------- MODULE Token --------------------------------
(***************************************************************************)
(* volentixgsys, the VTX token contract: one symbol, its stat row, one     *)
(* balance row per account, and the treasury's table of spending           *)
(* restrictions, which replaces the owner's authority over an account by   *)
(* that of another permission.                                             *)
(*                                                                         *)
(* A step is one transaction: it carries the permission level `auth` that  *)
(* signed it, and a failed check of the contract is a step that does not   *)
(* exist, because the chain reverts it whole.                              *)
(***************************************************************************)
EXTENDS Ledger

CONSTANTS
    NumNames,        \* names are 1..NumNames
    Accounts,        \* the names for which is_account() holds
    TokenSelf,       \* the contract's own account (volentixtsys)
    Treasury,        \* volentixgsys.hpp: treasury
    Permissions,     \* permission names; "active" is one of them
    RestrictLevels,  \* levels the treasury may name in a restriction
    MaxSupplies,     \* bound: inputs of create
    TokenAmounts     \* bound: inputs of issue, retire and transfer

TokenNames == 1..NumNames
Levels == Accounts \X Permissions

ASSUME TokenAssumption ==
    /\ NumNames \in Nat
    /\ Accounts \subseteq TokenNames
    /\ TokenSelf \in Accounts
    /\ Treasury \in Accounts
    /\ "active" \in Permissions
    /\ RestrictLevels \subseteq TokenNames \X Permissions
    /\ MaxSupplies \subseteq Int
    /\ TokenAmounts \subseteq Int

NoName == 0                          \* the empty EOSIO name
Unrestricted == <<NoName, "active">> \* no row in the restrictions table

VARIABLES
    stat,          \* [issuer, supply, max_supply]; issuer = NoName: no row
    rows,          \* the names that have a row in "accounts"
    balances,      \* the balance in that row, 0 for a name without one
    restrictions,  \* the level that may spend for a name, or Unrestricted
    signer         \* history: the level that signed the last transaction

tokenVars == <<stat, rows, balances, restrictions, signer>>

NoStat == [issuer |-> NoName, supply |-> 0, max_supply |-> 0]

TokenInit ==
    /\ stat = NoStat
    /\ rows = {}
    /\ balances = [n \in TokenNames |-> 0]
    /\ restrictions = [n \in TokenNames |-> Unrestricted]
    /\ signer = Unrestricted

\* require_auth(account): any permission of the account will do.
require_auth(auth, account) == auth[1] = account

\* Fault: the restrictions table is never consulted.
require_from_owner(auth, from) == require_auth(auth, from)

\* Who may move tokens out of `from`: the restriction replaces the owner.
require_from(auth, from) ==
    IF restrictions[from] # Unrestricted
    THEN auth = restrictions[from]
    ELSE require_auth(auth, from)

-----------------------------------------------------------------------------
arestriction(auth, account, level) ==
    /\ require_auth(auth, Treasury)
    /\ restrictions' = [restrictions EXCEPT ![account] = level]
    /\ signer' = auth
    /\ UNCHANGED <<stat, rows, balances>>

erestriction(auth, account) ==
    /\ require_auth(auth, Treasury)
    /\ restrictions[account] # Unrestricted
    /\ restrictions' = [restrictions EXCEPT ![account] = Unrestricted]
    /\ signer' = auth
    /\ UNCHANGED <<stat, rows, balances>>

create(auth, issuer, maximum_supply) ==
    /\ require_auth(auth, TokenSelf)
    /\ maximum_supply > 0
    /\ stat.issuer = NoName
    /\ stat' = [issuer |-> issuer, supply |-> 0, max_supply |-> maximum_supply]
    /\ signer' = auth
    /\ UNCHANGED <<rows, balances, restrictions>>

\* The issuer is credited first and then pays `to` by an inline transfer.
\* The inline action carries issuer@active, which it inherits from the
\* signer, and transfer applies the restriction of the issuer to it.
issue(auth, to, quantity) ==
    /\ stat.issuer # NoName
    /\ require_auth(auth, stat.issuer)
    /\ quantity > 0
    /\ quantity <= stat.max_supply - stat.supply
    /\ \/ to = stat.issuer
       \/ /\ to # stat.issuer
          /\ auth = <<stat.issuer, "active">>
          /\ require_from(auth, stat.issuer)
          /\ to \in Accounts
    /\ stat' = [stat EXCEPT !.supply = @ + quantity]
    /\ balances' = add_balance(balances, to, quantity)
    /\ rows' = rows \cup {stat.issuer, to}
    /\ signer' = auth
    /\ UNCHANGED restrictions

retire(auth, quantity) ==
    /\ stat.issuer # NoName
    /\ require_auth(auth, stat.issuer)
    /\ quantity > 0
    /\ stat.issuer \in rows
    /\ balances[stat.issuer] >= quantity
    /\ stat' = [stat EXCEPT !.supply = @ - quantity]
    /\ balances' = sub_balance(balances, stat.issuer, quantity)
    /\ signer' = auth
    /\ UNCHANGED <<rows, restrictions>>

transfer(auth, from, to, quantity) ==
    /\ require_from(auth, from)
    /\ to \in Accounts
    /\ stat.issuer # NoName
    /\ from \in rows
    /\ CanTransfer(balances, from, to, quantity)
    /\ balances' = Transferred(balances, from, to, quantity)
    /\ rows' = rows \cup {to}
    /\ signer' = auth
    /\ UNCHANGED <<stat, restrictions>>

\* open does not ask whether owner is an account, nor for its authority.
open(auth, owner) ==
    /\ stat.issuer # NoName
    /\ rows' = rows \cup {owner}
    /\ signer' = auth
    /\ UNCHANGED <<stat, balances, restrictions>>

\* Fault: a row is erased whatever it holds.
close_with_balance(auth, owner) ==
    /\ require_auth(auth, owner)
    /\ owner \in rows
    /\ rows' = rows \ {owner}
    /\ signer' = auth
    /\ UNCHANGED <<stat, balances, restrictions>>

close(auth, owner) ==
    /\ require_auth(auth, owner)
    /\ owner \in rows
    /\ balances[owner] = 0
    /\ rows' = rows \ {owner}
    /\ signer' = auth
    /\ UNCHANGED <<stat, balances, restrictions>>

TokenNext ==
    \E auth \in Levels :
        \/ \E a \in TokenNames, l \in RestrictLevels : arestriction(auth, a, l)
        \/ \E a \in TokenNames : erestriction(auth, a)
        \/ \E i \in Accounts, m \in MaxSupplies : create(auth, i, m)
        \/ \E to \in TokenNames, q \in TokenAmounts : issue(auth, to, q)
        \/ \E q \in TokenAmounts : retire(auth, q)
        \/ \E from, to \in TokenNames, q \in TokenAmounts : transfer(auth, from, to, q)
        \/ \E o \in TokenNames : open(auth, o)
        \/ \E o \in TokenNames : close(auth, o)

TokenSpec == TokenInit /\ [][TokenNext]_tokenVars

-----------------------------------------------------------------------------
\* Types of the tables; the amounts of the stat row stay within their maximum.
TokenTypeOK ==
    /\ stat \in [issuer : Accounts \cup {NoName}, supply : Nat, max_supply : Nat]
    /\ rows \subseteq TokenNames
    /\ balances \in [TokenNames -> Nat]
    /\ restrictions \in [TokenNames -> RestrictLevels \cup {Unrestricted}]
    /\ signer \in Levels \cup {Unrestricted}

\* What the balance rows that exist hold.
Held == [n \in TokenNames |-> IF n \in rows THEN balances[n] ELSE 0]

\* The supply of the stat row is the sum of the balance rows and never
\* exceeds max_supply: no sequence of issue, retire, transfer, open and close
\* creates or loses tokens, not even by erasing and re-creating a row.
SupplyConserved ==
    /\ Total(Held, NumNames) = stat.supply
    /\ stat.supply <= stat.max_supply

\* Once the treasury has restricted an account, its tokens leave it only in a
\* transaction signed by the permission level of the restriction.  The issuer
\* is the exception: retire asks for its authority and not for the restriction.
RestrictionHolds ==
    [][\A n \in TokenNames \ {stat.issuer} :
          restrictions[n] # Unrestricted /\ balances'[n] < balances[n]
             => signer' = restrictions[n]]_tokenVars

=============================================================================
