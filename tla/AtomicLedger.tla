---------------------------- MODULE AtomicLedger ----------------------------
(***************************************************************************)
(* What the wallets promise their users, without requests, locks or        *)
(* database transactions: a table of balance rows and a book of posted     *)
(* transactions that change together, in one step.  A transaction is       *)
(* posted at most once per idempotency key, only when its source row       *)
(* covers the debit, and moves exactly the amounts its record states.      *)
(* WalletsService implements this specification.                           *)
(***************************************************************************)
EXTENDS Integers

CONSTANTS
    Users,          \* wallet owners
    Currencies,     \* every currency code a request can name
    Supported,      \* AppConfig.supportedCurrencies
    Postings,       \* the transaction records that may ever be posted
    Opening,        \* balance rows at the start: [Rows -> Nat \cup {None}]
    MaxAmount,      \* the largest amount a balance column holds
    None            \* absent value: no row, no source currency

VARIABLES
    balance,        \* [Rows -> amount, or None where the row does not exist]
    ledger          \* the set of posted transactions

vars == <<balance, ledger>>

Rows == Users \X Currencies

Amount(row) == IF balance[row] = None THEN 0 ELSE balance[row]

HasWallet(u) == \E c \in Currencies : balance[<<u, c>>] # None

-----------------------------------------------------------------------------

Init ==
    /\ balance = Opening
    /\ ledger = {}

(* Registration opens a wallet: one empty row per supported currency. *)
OpenWallet(u) ==
    /\ ~ HasWallet(u)
    /\ UNCHANGED ledger
    /\ balance' = [row \in Rows |->
                     IF row[1] = u /\ row[2] \in Supported
                     THEN 0 ELSE balance[row]]

(* The key of `p` is still unused by its user. *)
Fresh(p) ==
    \A e \in ledger : <<e.user, e.key>> # <<p.user, p.key>>

(* Funding needs its row to exist; a conversion needs a covered source row  *)
(* and creates the destination row when it is missing.                      *)
Covered(p) ==
    IF p.from = None
    THEN balance[<<p.user, p.to>>] # None
    ELSE /\ balance[<<p.user, p.from>>] # None
         /\ balance[<<p.user, p.from>>] >= p.debit

Post(p) ==
    /\ ledger' = ledger \cup {p}
    /\ Fresh(p)
    /\ Covered(p)
    /\ Amount(<<p.user, p.to>>) + p.credit <= MaxAmount
    /\ balance' = [row \in Rows |->
                     CASE row = <<p.user, p.to>>   -> Amount(row) + p.credit
                       [] row = <<p.user, p.from>> -> balance[row] - p.debit
                       [] OTHER                    -> balance[row]]

Next ==
    \/ \E u \in Users : OpenWallet(u)
    \/ \E p \in Postings : Post(p)

Spec == Init /\ [][Next]_vars
=============================================================================
