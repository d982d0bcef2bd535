--------------------------- MODULE WalletsService ---------------------------
(***************************************************************************)
(* Funding, conversion and trade requests over the wallet tables, as       *)
(* src/src/wallets/services/wallets.service.ts runs them against           *)
(* PostgreSQL at READ COMMITTED.  A request is one HTTP handler call; it    *)
(* advances from one awaited call to the next, so every action below is    *)
(* the code between two awaits, and requests interleave at the awaits.     *)
(*                                                                         *)
(* Amounts in requests are integers in 1/SubUnits of the last decimal of a *)
(* numeric(20,8) column; balances and ledger amounts are integers in units *)
(* of that last decimal.  Rates are integers in 1/RateScale, so a rate has *)
(* no more decimals than the ledger's rate column keeps.                   *)
(***************************************************************************)
EXTENDS Integers, FiniteSets, FiniteSetsExt

CONSTANTS
    Requests,       \* handler calls; a retry is another request, same dto
    Users,
    Currencies,     \* every currency code a request can name
    Supported,      \* AppConfig.supportedCurrencies
    Rank,           \* alphabetical position of a currency code
    Keys,           \* idempotency keys
    Offers,         \* the dtos clients may send, with their user
    Quotes,         \* the rates FxRatesService.getRate may answer
    RateScale,      \* rate of one to one
    SubUnits,       \* request amounts per unit of the last stored decimal
    MaxAmount,      \* the largest amount of a numeric(20,8) column
    PoolSize,       \* connections of the TypeORM pool
    Opening,        \* balance rows at the start: [Rows -> Nat \cup {None}]
    None            \* null: absent row, absent optional field

VARIABLES
    balance,        \* committed wallet_balances: [Rows -> amount or None]
    ledger,         \* committed transactions: set of entries
    pc,             \* where each request is
    dto,            \* what each request asks for
    rate,           \* the rate a conversion will execute at
    seen,           \* balance rows as read under FOR UPDATE
    held,           \* row locks held by each request's transaction
    reply           \* what each request answered

vars == <<balance, ledger, pc, dto, rate, seen, held, reply>>
tables == <<balance, ledger>>

-----------------------------------------------------------------------------
(* Records.                                                                *)

Rows == Users \X Currencies

Kinds == {"funding", "conversion", "trade"}

FundDtos ==
    [user: Users, kind: {"funding"}, from: {None}, to: Currencies,
     amount: Nat \ {0}, key: Keys, expected: {None}, tolerance: {None}]

ConvertDtos ==
    [user: Users, kind: {"conversion"}, from: Currencies, to: Currencies,
     amount: Int, key: Keys, expected: {None}, tolerance: {None}]

TradeDtos ==
    [user: Users, kind: {"trade"}, from: Currencies, to: Currencies,
     amount: Int, key: Keys, expected: Int \cup {None},
     tolerance: Int \cup {None}]

Entries ==
    [id: Requests, user: Users, key: Keys, kind: Kinds,
     from: Currencies \cup {None}, to: Currencies,
     debit: Int, credit: Int, rate: Int \cup {None}]

Outside == {"guard", "check", "rate", "wallet"}
(* Mutant: the transaction begins before the wallet is looked up, by a      *)
(* repository that takes a second connection.                              *)
MutantBeginEarly == {"wallet", "lock1", "lock2", "save", "record", "commit"}
InTransaction == {"lock1", "lock2", "save", "record", "commit"}
Ended == {"done", "lost"}

Codes == {"OK", "BadRequest", "NotFound", "Conflict", "InternalError",
          "Unavailable"}

ASSUME ConstantsOK ==
    /\ IsFiniteSet(Currencies)
    /\ Rank \in [Currencies -> Nat]
    /\ \A c, d \in Currencies : Rank[c] = Rank[d] => c = d
    /\ Supported \subseteq Currencies
    /\ Offers \subseteq FundDtos \cup ConvertDtos \cup TradeDtos
    /\ Quotes \subseteq Nat
    /\ RateScale \in Nat \ {0}
    /\ SubUnits \in Nat \ {0}
    /\ MaxAmount \in Nat
    /\ PoolSize \in Nat \ {0}
    /\ Opening \in [Rows -> Nat \cup {None}]

ASSUME NoneIsNoValue ==
    /\ None \notin Int
    /\ None \notin Currencies
    /\ None \notin Requests
    /\ None \notin Offers
    /\ None \notin Codes

-----------------------------------------------------------------------------
(* Arithmetic.                                                             *)

OrZero(amount) == IF amount = None THEN 0 ELSE amount

Abs(n) == IF n < 0 THEN -n ELSE n

(* toFixed(8) and the numeric(20,8) column: halves round up. *)
ToUnits(x) == (2 * x + SubUnits) \div (2 * SubUnits)

(* amount * rate, toDecimalPlaces(8, ROUND_DOWN). *)
Credit(amount, q) == (amount * q) \div (SubUnits * RateScale)

(* A tolerance t stands for t percent. *)
Percent == 100

(* |live - expected| / expected > tolerance, multiplied by |expected|.     *)
(* At expected = 0 Decimal divides to Infinity, which exceeds, or to NaN,   *)
(* which does not.                                                         *)
Slips(d, live) ==
    LET gap == Abs(live - d.expected)
    IN (IF d.expected < 0 THEN -gap ELSE gap) * Percent
          > d.tolerance * Abs(d.expected)

Guarded(d) ==
    d.kind = "trade" /\ d.expected # None /\ d.tolerance # None

-----------------------------------------------------------------------------
(* State formulae.                                                         *)

Blank == [c \in Currencies |-> None]

NoReply == [code |-> None, tx |-> None]

HasWallet(u) == \E c \in Currencies : balance[<<u, c>>] # None

FromRow(d) == <<d.user, d.from>>
ToRow(d) == <<d.user, d.to>>

(* The order [fromCurrency, toCurrency].sort() gives the two row locks. *)
FirstCurrency(d) == IF Rank[d.from] < Rank[d.to] THEN d.from ELSE d.to
SecondCurrency(d) == IF Rank[d.from] < Rank[d.to] THEN d.to ELSE d.from

SameKey(d, e) == d.user = e.user /\ d.key = e.key

(* Mutant: the lookup forgets that keys are scoped to a user. *)
MutantGlobalKeys(d) == {e \in ledger : e.key = d.key}
Posted(d) == {e \in ledger : SameKey(d, e)}

(* The rates getRate may answer for the pair; "1" for equal currencies. *)
QuotesFor(d) == IF d.from = d.to THEN {RateScale} ELSE Quotes

(* The row of transactions that request r inserts for dto d at rate q. *)
Posting(r, d, q) ==
    [id |-> r, user |-> d.user, key |-> d.key, kind |-> d.kind,
     from |-> d.from, to |-> d.to,
     debit  |-> IF d.kind = "funding" THEN 0 ELSE ToUnits(d.amount),
     credit |-> IF d.kind = "funding" THEN ToUnits(d.amount)
                                      ELSE Credit(d.amount, q),
     rate |-> q]

(* The amounts written back, from the values read under the locks. *)
NewFrom(r) == ToUnits(seen[r][dto[r].from] * SubUnits - dto[r].amount)

(* Mutant: the destination is overwritten by the converted amount. *)
MutantOverwrite(r) ==
    IF dto[r].kind = "funding"
    THEN ToUnits(seen[r][dto[r].to] * SubUnits + dto[r].amount)
    ELSE Credit(dto[r].amount, rate[r])

NewTo(r) ==
    IF dto[r].kind = "funding"
    THEN ToUnits(seen[r][dto[r].to] * SubUnits + dto[r].amount)
    ELSE OrZero(seen[r][dto[r].to]) + Credit(dto[r].amount, rate[r])

(* The balance table with what r's transaction writes. *)
Written(r) ==
    [row \in Rows |->
        CASE row = ToRow(dto[r])   -> NewTo(r)
          [] row = FromRow(dto[r]) -> NewFrom(r)
          [] OTHER                 -> balance[row]]

(* The destination row was missing when it was read, so it is inserted. *)
Inserts(r) == dto[r].kind # "funding" /\ seen[r][dto[r].to] = None

(* A pooled connection is taken from BEGIN until COMMIT or ROLLBACK. *)
ConnectionFree ==
    Cardinality({s \in Requests : pc[s] \in InTransaction}) < PoolSize

(* Mutant: the rows are locked source first. *)
MutantUnsortedLocks(r) ==
    <<dto[r].user, IF dto[r].kind # "funding" /\ pc[r] = "lock1"
                   THEN dto[r].from ELSE dto[r].to>>

(* The row whose lock r asks for next. *)
WantedRow(r) ==
    LET d == dto[r]
    IN <<d.user, IF d.kind = "funding" THEN d.to
                 ELSE IF pc[r] = "lock1" THEN FirstCurrency(d)
                                         ELSE SecondCurrency(d)>>

(* PostgreSQL makes r wait for s: for a locked row, or for the outcome of  *)
(* an uncommitted insert with the same unique key.                         *)
Blocks(s, r) ==
    \/ /\ pc[r] \in {"lock1", "lock2"}
       /\ WantedRow(r) \in held[s]
    \/ /\ pc[r] = "save" /\ Inserts(r)
       /\ pc[s] \in {"record", "commit"} /\ Inserts(s)
       /\ ToRow(dto[r]) = ToRow(dto[s])
    \/ /\ pc[r] = "record"
       /\ pc[s] = "commit"
       /\ SameKey(dto[r], dto[s])

Unblocked(r) == \A s \in Requests \ {r} : ~ Blocks(s, r)

-----------------------------------------------------------------------------
(* Steps shared by the handlers.                                           *)

Goto(r, label) == pc' = [pc EXCEPT ![r] = label]

(* The handler's locals and its row locks are gone. *)
Forget(r) ==
    /\ rate' = [rate EXCEPT ![r] = None]
    /\ seen' = [seen EXCEPT ![r] = Blank]
    /\ held' = [held EXCEPT ![r] = {}]

Answer(r, code, tx) ==
    /\ Goto(r, "done")
    /\ reply' = [reply EXCEPT ![r] = [code |-> code, tx |-> tx]]
    /\ Forget(r)
    /\ UNCHANGED dto

(* An exception: the open transaction, if any, is rolled back. *)
Fail(r, code) == Answer(r, code, None) /\ UNCHANGED tables

(* Mutant: the row is read without FOR UPDATE. *)
MutantPlainRead(r, row) ==
    /\ seen' = [seen EXCEPT ![r][row[2]] = balance[row]]
    /\ UNCHANGED held

(* The row is read FOR UPDATE: its committed value, and its lock if it     *)
(* exists; a missing row leaves nothing to lock.                           *)
ReadForUpdate(r, row) ==
    /\ seen' = [seen EXCEPT ![r][row[2]] = balance[row]]
    /\ held' = IF balance[row] = None
               THEN held ELSE [held EXCEPT ![r] = @ \cup {row}]

-----------------------------------------------------------------------------
Init ==
    /\ balance = Opening
    /\ ledger = {}
    /\ pc = [r \in Requests |-> "idle"]
    /\ dto = [r \in Requests |-> None]
    /\ rate = [r \in Requests |-> None]
    /\ seen = [r \in Requests |-> Blank]
    /\ held = [r \in Requests |-> {}]
    /\ reply = [r \in Requests |-> NoReply]

(* Mutant: one supported currency is skipped. *)
MutantCreateWallet(u) ==
    /\ ~ HasWallet(u)
    /\ balance' = [row \in Rows |->
                     IF row[1] = u /\ row[2] \in Supported \ {CHOOSE c \in Supported : TRUE}
                     THEN 0 ELSE balance[row]]
    /\ UNCHANGED <<ledger, pc, dto, rate, seen, held, reply>>

(* createWalletForUserWithManager, inside the registration transaction. *)
CreateWallet(u) ==
    /\ ~ HasWallet(u)
    /\ balance' = [row \in Rows |->
                     IF row[1] = u /\ row[2] \in Supported
                     THEN 0 ELSE balance[row]]
    /\ UNCHANGED <<ledger, pc, dto, rate, seen, held, reply>>

(* A client calls POST /wallet/fund, /wallet/convert or /wallet/trade. *)
Submit(r, d) ==
    /\ pc[r] = "idle"
    /\ Goto(r, IF Guarded(d) THEN "guard" ELSE "check")
    /\ dto' = [dto EXCEPT ![r] = d]
    /\ UNCHANGED <<balance, ledger, rate, seen, held, reply>>

(* tradeCurrency: the live rate is compared with the expected one. *)
GuardTrade(r) ==
    /\ pc[r] = "guard"
    /\ \E live \in QuotesFor(dto[r]) :
         \/ /\ Slips(dto[r], live)
            /\ Fail(r, "BadRequest")
         \/ /\ ~ Slips(dto[r], live)
            /\ Goto(r, "check")
            /\ UNCHANGED <<balance, ledger, dto, rate, seen, held, reply>>

(* Equal currencies are refused before anything is read.                   *)
RefuseSameCurrency(r) ==
    /\ pc[r] = "check"
    /\ dto[r].from = dto[r].to
    /\ Fail(r, "BadRequest")

(* The idempotency lookup, outside any transaction, and the checks on the   *)
(* dto that follow it without another await.                               *)
CheckIdempotency(r) ==
    LET d == dto[r]
        refused == IF d.kind = "funding" THEN d.to \notin Supported
                                         ELSE d.amount <= 0
    IN /\ pc[r] = "check"
       /\ d.from # d.to
       /\ ConnectionFree
       /\ \/ \E e \in Posted(d) : Answer(r, "OK", e.id) /\ UNCHANGED tables
          \/ /\ Posted(d) = {}
             /\ refused
             /\ Fail(r, "BadRequest")
          \/ /\ Posted(d) = {}
             /\ ~ refused
             /\ Goto(r, IF d.kind = "funding" THEN "wallet" ELSE "rate")
             /\ UNCHANGED <<balance, ledger, dto, rate, seen, held, reply>>

(* getRate, awaited before the transaction begins. *)
FetchRate(r) ==
    /\ pc[r] = "rate"
    /\ \E q \in QuotesFor(dto[r]) : rate' = [rate EXCEPT ![r] = q]
    /\ Goto(r, "wallet")
    /\ UNCHANGED <<balance, ledger, dto, seen, held, reply>>

(* getRate has no such pair (400), neither provider nor snapshot (503), or  *)
(* no cache (500).                                                         *)
RateUnavailable(r) ==
    /\ pc[r] \in {"guard", "rate"}
    /\ dto[r].from # dto[r].to
    /\ \E code \in {"BadRequest", "Unavailable", "InternalError"} :
         Fail(r, code)

(* The wallet is looked up and the transaction begins: a conversion looks   *)
(* inside the transaction, funding just before it; wallets never go away.   *)
FindWallet(r) ==
    /\ pc[r] = "wallet"
    /\ ConnectionFree
    /\ \/ /\ ~ HasWallet(dto[r].user)
          /\ Fail(r, "NotFound")
       \/ /\ HasWallet(dto[r].user)
          /\ Goto(r, "lock1")
          /\ UNCHANGED <<balance, ledger, dto, rate, seen, held, reply>>

(* fundWallet: the one row, FOR UPDATE. *)
LockFundedRow(r) ==
    /\ pc[r] = "lock1"
    /\ dto[r].kind = "funding"
    /\ Unblocked(r)
    /\ \/ /\ balance[WantedRow(r)] = None
          /\ Fail(r, "NotFound")
       \/ /\ balance[WantedRow(r)] # None
          /\ ReadForUpdate(r, WantedRow(r))
          /\ Goto(r, "save")
          /\ UNCHANGED <<balance, ledger, dto, rate, reply>>

(* convertCurrency: the alphabetically first row, FOR UPDATE. *)
LockFirstRow(r) ==
    /\ pc[r] = "lock1"
    /\ dto[r].kind # "funding"
    /\ Unblocked(r)
    /\ ReadForUpdate(r, WantedRow(r))
    /\ Goto(r, "lock2")
    /\ UNCHANGED <<balance, ledger, dto, rate, reply>>

(* The source as the two reads return it: the second one just now. *)
SourceRead(r) ==
    IF dto[r].from = SecondCurrency(dto[r])
    THEN balance[FromRow(dto[r])]
    ELSE seen[r][dto[r].from]

(* Mutant: the funds are not checked. *)
MutantUnchecked(amount, d) == amount # None

Covers(amount, d) == amount # None /\ amount * SubUnits >= d.amount

(* convertCurrency: the second row, then the checks on the source.         *)
LockSecondRow(r) ==
    /\ pc[r] = "lock2"
    /\ Unblocked(r)
    /\ \/ /\ ~ Covers(SourceRead(r), dto[r])
          /\ Fail(r, "BadRequest")
       \/ /\ Covers(SourceRead(r), dto[r])
          /\ ReadForUpdate(r, WantedRow(r))
          /\ Goto(r, "save")
          /\ UNCHANGED <<balance, ledger, dto, rate, reply>>

(* Mutant: (wallet_id, currency) is not unique. *)
MutantDuplicateRow(r) ==
    /\ pc[r] = "save"
    /\ NewTo(r) <= MaxAmount
    /\ Goto(r, "record")
    /\ UNCHANGED <<balance, ledger, dto, rate, seen, held, reply>>

(* The balance rows are written, still uncommitted.  An amount out of the   *)
(* column's range is a 22003; inserting a row that another transaction has  *)
(* committed meanwhile is a 23505.                                         *)
Save(r) ==
    /\ pc[r] = "save"
    /\ \/ /\ NewTo(r) > MaxAmount
          /\ Fail(r, "BadRequest")
       \/ /\ NewTo(r) <= MaxAmount
          /\ Unblocked(r)
          /\ Inserts(r) /\ balance[ToRow(dto[r])] # None
          /\ Fail(r, "Conflict")
       \/ /\ NewTo(r) <= MaxAmount
          /\ Unblocked(r)
          /\ Inserts(r) => balance[ToRow(dto[r])] = None
          /\ Goto(r, "record")
          /\ UNCHANGED <<balance, ledger, dto, rate, seen, held, reply>>

(* Mutant: (user_id, idempotency_key) is not unique. *)
MutantNoKeyIndex(r) ==
    /\ pc[r] = "record"
    /\ Goto(r, "commit")
    /\ UNCHANGED <<balance, ledger, dto, rate, seen, held, reply>>

(* Mutant: the balances are saved outside the transaction that fails. *)
MutantPartialFailure(r) ==
    /\ pc[r] = "record"
    /\ \/ /\ Posted(dto[r]) # {}
          /\ balance' = Written(r)
          /\ UNCHANGED ledger
          /\ Answer(r, "Conflict", None)
       \/ /\ Posted(dto[r]) = {}
          /\ Goto(r, "commit")
          /\ UNCHANGED <<balance, ledger, dto, rate, seen, held, reply>>

(* Mutant: the 23505 of the unique index reaches the client unmapped. *)
MutantUnmappedError(r) ==
    /\ pc[r] = "record"
    /\ \/ /\ Posted(dto[r]) # {}
          /\ Fail(r, "23505")
       \/ /\ Posted(dto[r]) = {}
          /\ Goto(r, "commit")
          /\ UNCHANGED <<balance, ledger, dto, rate, seen, held, reply>>

(* The transactions row is inserted, still uncommitted; the unique index on *)
(* (user_id, idempotency_key) refuses a second one.                         *)
RecordTransaction(r) ==
    /\ pc[r] = "record"
    /\ Unblocked(r)
    /\ \/ /\ Posted(dto[r]) # {}
          /\ Fail(r, "Conflict")
       \/ /\ Posted(dto[r]) = {}
          /\ Goto(r, "commit")
          /\ UNCHANGED <<balance, ledger, dto, rate, seen, held, reply>>

(* What COMMIT makes visible. *)
Apply(r) ==
    /\ balance' = Written(r)
    /\ ledger' = ledger \cup {Posting(r, dto[r], rate[r])}

Commit(r) ==
    /\ pc[r] = "commit"
    /\ Apply(r)
    /\ Goto(r, "respond")
    /\ Forget(r)
    /\ UNCHANGED <<dto, reply>>

(* The server committed but the acknowledgement was lost: the handler sees  *)
(* a failed query and answers 500.                                         *)
CommitAckLost(r) ==
    /\ pc[r] = "commit"
    /\ Apply(r)
    /\ Answer(r, "InternalError", None)

Respond(r) ==
    /\ pc[r] = "respond"
    /\ Answer(r, "OK", r)
    /\ UNCHANGED tables

(* The database connection fails before COMMIT: rollback, answer 500. *)
Abort(r) ==
    /\ pc[r] \in {"check", "wallet"} \cup InTransaction
    /\ Fail(r, "InternalError")

(* The process dies: the requests it was serving are never answered and    *)
(* the database rolls their open transactions back.                        *)
Crash(S) ==
    /\ S # {}
    /\ \A r \in S : pc[r] \notin {"idle"} \cup Ended
    /\ pc' = [r \in Requests |-> IF r \in S THEN "lost" ELSE pc[r]]
    /\ rate' = [r \in Requests |-> IF r \in S THEN None ELSE rate[r]]
    /\ seen' = [r \in Requests |-> IF r \in S THEN Blank ELSE seen[r]]
    /\ held' = [r \in Requests |-> IF r \in S THEN {} ELSE held[r]]
    /\ UNCHANGED <<balance, ledger, dto, reply>>

(* Every request has ended; TLC need not report that as a deadlock. *)
Terminating ==
    /\ \A r \in Requests : pc[r] \in Ended
    /\ UNCHANGED vars

(* What the handler of request r does by itself. *)
Step(r) ==
    \/ GuardTrade(r)
    \/ RefuseSameCurrency(r)
    \/ CheckIdempotency(r)
    \/ FetchRate(r)
    \/ RateUnavailable(r)
    \/ FindWallet(r)
    \/ LockFundedRow(r)
    \/ LockFirstRow(r)
    \/ LockSecondRow(r)
    \/ Save(r)
    \/ RecordTransaction(r)
    \/ Commit(r)
    \/ CommitAckLost(r)
    \/ Respond(r)

Next ==
    \/ \E u \in Users : CreateWallet(u)
    \/ \E r \in Requests : \E d \in Offers : Submit(r, d)
    \/ \E r \in Requests : Step(r)
    \/ \E r \in Requests : Abort(r)
    \/ \E S \in SUBSET Requests : Crash(S)
    \/ Terminating

Spec == Init /\ [][Next]_vars

(* Node and PostgreSQL keep running every request they have accepted. *)
Fairness == \A r \in Requests : WF_vars(Step(r))

FairSpec == Spec /\ Fairness
-----------------------------------------------------------------------------
(* Properties.                                                             *)

(* The variables have their types. *)
TypeOK ==
    /\ balance \in [Rows -> Int \cup {None}]
    /\ ledger \subseteq Entries
    /\ pc \in [Requests -> {"idle", "respond"} \cup Outside
                              \cup InTransaction \cup Ended]
    /\ dto \in [Requests -> Offers \cup {None}]
    /\ rate \in [Requests -> Nat \cup {None}]
    /\ seen \in [Requests -> [Currencies -> Int \cup {None}]]
    /\ held \in [Requests -> SUBSET Rows]
    /\ reply \in [Requests -> [code: Codes \cup {None},
                                tx: Requests \cup {None}]]

(* However duplicates of a request interleave, crash and are retried, a     *)
(* user's key is posted once (idempotency lookup plus unique index).        *)
AtMostOncePerKey ==
    \A e, f \in ledger : SameKey(e, f) => e = f

(* No row is ever overdrawn, although funds are checked on a value read     *)
(* earlier and written back as an absolute amount (row locks).              *)
NoOverdraft ==
    \A row \in Rows : balance[row] # None => balance[row] >= 0

(* No lost update: an absolute amount is only ever written over the value   *)
(* it was computed from.  While a transaction's writes are pending, its     *)
(* source and destination rows are what it read of them, locked rows and    *)
(* rows that were missing alike.                                           *)
WritesReplaceWhatWasRead ==
    \A r \in Requests : pc[r] \in {"record", "commit"} =>
        \A row \in Rows \cap {FromRow(dto[r]), ToRow(dto[r])} :
            seen[r][row[2]] = balance[row]

(* A row that a transaction is about to insert does not exist yet, and no   *)
(* other transaction has an insert of it pending.                          *)
PendingInsertsAreUnique ==
    \A r \in Requests :
        pc[r] \in {"record", "commit"} /\ Inserts(r) =>
            /\ balance[ToRow(dto[r])] = None
            /\ \A s \in Requests \ {r} :
                 ~ (/\ pc[s] \in {"record", "commit"}
                    /\ Inserts(s)
                    /\ ToRow(dto[s]) = ToRow(dto[r]))

(* An answer tells the truth: success names a committed transaction of this *)
(* user and key, and every refusal but a 500 means the request itself left  *)
(* nothing in the ledger, whatever step it was refused at.                  *)
RepliesAreTrue ==
    \A r \in Requests : pc[r] = "done" =>
        IF reply[r].code = "OK"
        THEN \E e \in ledger : e.id = reply[r].tx /\ SameKey(e, dto[r])
        ELSE reply[r].code # "InternalError" =>
               \A e \in ledger : e.id # r

(* Transactions never wait for each other in a circle: among any set of     *)
(* open transactions one waits for none of the others (alphabetical locks,  *)
(* then the inserts, in one order in every handler).                       *)
NoWaitCycle ==
    \A S \in SUBSET {r \in Requests : pc[r] \in InTransaction} :
        S # {} => \E r \in S : \A s \in S \ {r} : ~ Blocks(s, r)

(* Every balance is its opening amount plus the credits minus the debits    *)
(* the ledger records: no money moves without a record, or by another       *)
(* amount than recorded.                                                   *)
LedgerExplainsBalances ==
    \A u \in Users, c \in Currencies :
        LET credits == {e \in ledger : e.user = u /\ e.to = c}
            debits  == {e \in ledger : e.user = u /\ e.from = c}
        IN OrZero(balance[<<u, c>>]) =
             OrZero(Opening[<<u, c>>])
               + MapThenSumSet(LAMBDA e : e.credit, credits)
               - MapThenSumSet(LAMBDA e : e.debit, debits)

(* Every record the ledger can receive. *)
Postings ==
    {Posting(r, d, None) : r \in Requests, d \in Offers \cap FundDtos}
    \cup
    {Posting(r, d, q) : r \in Requests, d \in Offers \ FundDtos, q \in Quotes}

Abstract ==
    INSTANCE AtomicLedger WITH
        balance <- balance, ledger <- ledger, Postings <- Postings

(* Requests, locks, rollbacks and crashes together implement the atomic     *)
(* ledger: the two tables only ever change by opening a wallet or posting   *)
(* one covered transaction under a fresh key.                              *)
ImplementsAtomicLedger == Abstract!Spec

(* Every accepted request ends: answered, or lost with its process.         *)
EveryRequestEnds ==
    \A r \in Requests :
        pc[r] \notin {"idle"} \cup Ended ~> pc[r] \in Ended

-----------------------------------------------------------------------------
(* Statements of the repository's documents that the code does not keep;    *)
(* each is refuted by a run of its own.                                    *)

(* README, idempotency keys: "duplicate calls return the original           *)
(* transaction without side effects".  Two copies of one request that pass  *)
(* the lookup together end as the original and a 409.                      *)
DuplicatesReturnOriginal ==
    \A r, s \in Requests :
        (/\ pc[r] = "done" /\ pc[s] = "done"
         /\ dto[r] = dto[s]
         /\ reply[r].code = "OK") => reply[s].code # "Conflict"

(* The same statement for a retried trade: the slippage guard runs before   *)
(* the idempotency lookup, so a trade already posted can be refused.        *)
PostedTradesAreNotRefused ==
    [][\A r \in Requests :
         pc[r] = "guard" /\ Posted(dto[r]) # {}
           => reply'[r].code # "BadRequest"]_vars

(* wallets/decorators/swagger.decorator.ts, trade: "rejected if the live    *)
(* rate has moved beyond the tolerance threshold - protecting against rate  *)
(* movements between quote and execution time".  The rate executed is       *)
(* another one than the rate checked.                                      *)
TradesStayWithinTolerance ==
    \A e \in ledger :
        Guarded(dto[e.id]) => ~ Slips(dto[e.id], e.rate)
=============================================================================
