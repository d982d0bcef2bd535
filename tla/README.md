# Verification of the foreign-exchange wallet API

TLA+ models, TLC configurations and TLAPS proofs for the NestJS service in
`src/src/`: users register and verify an e-mail address, get a wallet with one
balance row per supported currency, fund it, convert between currencies and
trade with a slippage guard, over PostgreSQL, Redis and one external rate API.

## Inventory

| Component | State it keeps | Operations | What is hard | What makes it correct |
| --- | --- | --- | --- | --- |
| Wallet operations (`wallets/services/wallets.service.ts`) | `wallet_balances`, `transactions` | `fundWallet`, `convertCurrency`, `tradeCurrency`, `createWalletForUserWithManager` | handlers interleave at every `await`; idempotency lookup outside the transaction; absolute amounts written back; rows that do not exist cannot be locked; crash around COMMIT; rounding | a key is posted at most once; no overdraft, no lost update; balances equal the ledger; answers are true; no wait cycles; every request ends |
| FX rates (`fx-rates/services/fx-rates.service.ts`) | Redis cache per base currency | `getRates`, `getRate`, `getSupportedRates`, `fetchWithRetry`, `fallbackToSnapshot` | API timeouts and retries, concurrent misses, a stale fallback overwriting a fresh entry, failing cache writes | fallback only after the API failed; staleness is bounded |
| Rate snapshots (`fx-rates/services/fx-snapshot.service.ts`) | `fx_rate_snapshots` | hourly `captureSnapshot`, `getRateHistory` | the cron job can store a stale answer under a new time | a later snapshot never holds older rates than an earlier one |
| Registration and login (`auth/services/auth.service.ts`, `users/services/users.service.ts`) | `users` (verified flag, OTP, expiry), `wallets` | `register`, `verifyOtp`, `resendOtp`, `login`, JWT `validate` | reads and unconditional updates across awaits; mail after the commit | user and wallet together; one account per address; only a verified user acts |
| Mail (`mail/mail.service.ts`) | none | `sendOtp`, `resendOtp` | rethrows SMTP failures | an account can always get another code |
| Transaction history (`transactions/services/transactions.service.ts`) | reads `transactions` | list by offset, get by id | pages move while rows are inserted | only the caller's rows |
| Exception filter (`common/filters/all-exceptions.filter.ts`) | none | maps exceptions and PostgreSQL codes to HTTP answers | a code that hides whether the work was done | a refusal means nothing was done |
| Schema, bootstrap, configuration, guards, logging, Swagger | schema; otherwise none | start-up, per-request predicates, output | migrations run by two instances at once | - |

Interactions: wallet handlers call `getRate` before they open a transaction;
registration creates the wallet inside its own transaction; the snapshot job
reads through the same cache chain that falls back to its snapshots; the filter
turns every exception of a handler into its answer. All shared state is in
PostgreSQL and Redis; the process itself keeps none between requests.
`PROJECT.json` lists every component with its status and every hazard at its
line.

## Plan

Modules, in the order they were written:

1. `AtomicLedger` - what the wallets promise, as an atomic specification. **done**
2. `WalletsService` - the handlers, await by await, shown to implement it. **done**
3. `WalletsServiceProofs`, `WalletsRefinementProofs`, `WalletsLedgerProofs` - its
   safety, the refinement, and the sums over its ledger. **done**
4. `FxRatesService` - cache, provider with retries, fallback, the hourly job and
   the clock that ages them. **done**
5. `AccountLifecycle`, `AuthService` - what registration promises, and the
   handlers shown to implement it. **done**
6. `Exchange` - `AuthService` and `WalletsService` over one database and one
   connection pool. **done**
7. `TransactionHistory` - pages over the growing tables. **done**

8. `FxRatesServiceProofs`, `AuthServiceProofs`, `TransactionHistoryProofs` - the
   safety of the other components, and the refinement of `AccountLifecycle`. **done**
9. `ExchangeProofs` - the composition, and what holds where its parts meet. **done**

Every safety property that a passing run checks, and both refinements, are
proved. What is left to TLC is liveness; see "Only model-checked" below.

## Modules

### `AtomicLedger`

Two variables, `balance` and `ledger`, and two actions: `OpenWallet` and `Post`.
A posting needs a key its user has not used and a covered source row, and moves
exactly the amounts of its record. Nothing else ever changes either table.

### `WalletsService`

A request is one handler call with the dto it was sent (a retry is another
request with the same dto). `pc` says at which `await` it is:

| `pc` | The code is about to |
| --- | --- |
| `guard` | read the live rate for a trade's slippage guard (lines 320-353) |
| `check` | refuse equal currencies, look the idempotency key up, check the dto (119-129, 190-204) |
| `rate` | await `getRate` (206-213) |
| `wallet` | find the wallet and begin the transaction (131-136, 215-221) |
| `lock1`, `lock2` | `SELECT ... FOR UPDATE` the one row of a funding, or the two of a conversion in alphabetical order, then check the funds (137-149, 223-269) |
| `save` | write the balance rows (151-156, 271-285) |
| `record` | insert the `transactions` row (158-169, 287-299) |
| `commit`, `respond` | COMMIT, answer |
| `done`, `lost` | answered; or the process died first |

`balance` and `ledger` are the committed tables. What a transaction has read is
in `seen`, the row locks it holds in `held`; its writes are computed from `seen`
and become visible in `Commit`, as READ COMMITTED has it. `Blocks(s, r)` is the
one place that says when PostgreSQL makes one request wait for another: a locked
row, or an uncommitted insert with the same unique key (`wallet_balances` by
wallet and currency, `transactions` by user and key). A row that does not exist
is read as `None` and locks nothing. The ledger is a set of records, not a
function of the key, so that uniqueness is a property and not a shape.

Failures: `RateUnavailable` (400, 503, 500), `Abort` (the database connection
fails anywhere before COMMIT: rollback, 500), `CommitAckLost` (COMMIT executed,
its answer lost: 500), `Crash(S)` (the process serving the requests in `S` dies:
rollback, no answer). Every answer goes through `Answer`, whose codes are those
the exception filter produces.

Amounts in dtos are integers in `1/SubUnits` of the last stored decimal, so that
amounts finer than `numeric(20,8)` can be expressed; `ToUnits` is `toFixed(8)`
and the column's own rounding (half up), `Credit` is `ROUND_DOWN`. Rates are
integers in `1/RateScale`, with no more decimals than the ledger keeps of them.
The slippage comparison is multiplied out, sign of the expected rate and the
division by zero included.

Abstractions: the text of answers and descriptions, ids, timestamps, the
`status` column (always COMPLETED), the log; the 20-digit precision of
`decimal.js` (see "Not modelled"); `getRate` as an environment that may answer
any of `Quotes` each time (`FxRatesService` is what is behind it; the cache only
restricts it).
Registration's `CreateWallet` is one step here: its rows become visible by one
commit, and no request can be running for a user who does not exist yet;
`Exchange` takes both halves apart.
The dto validators make `idempotencyKey` mandatory, so the partial index's NULL
case is not modelled.

### `FxRatesService`

A call is one `getRates`, with what its caller does to the result: `getRate`
(`kind` `"rate"`), `getSupportedRates` (`"list"`) or `captureSnapshot`
(`"capture"`, only the caller `Cron`).

| `pc` | The code is about to |
| --- | --- |
| `lookup` | read the cache (fx-rates.service.ts:33-44) |
| `fetch`, `backoff` | wait for the provider or its timeout, or for the delay before the next attempt (114-143, 191-220) |
| `store` | cache the fetched rates and return them (47-59) |
| `fallback` | read the newest snapshots (145-185) |
| `keep` | cache the fallback for half a TTL and return it (69-77) |
| `save` | store the rows of a capture (fx-snapshot.service.ts:27-37) |

A rate is represented by the time at which the provider quoted it, so an answer
tells its own age. `cache` maps a base to a table and its expiry, `snapshots` is
the table of rows; several calls run through one cache without any lock.

Time: `now` advances only when every call is waiting for a timer. The provider
goes up and down (`Toggle`, once a tick at most); an answer is one it could have
given at some moment of the attempt, a failure needs a moment at which it was
down. Redis and PostgreSQL answer within a tick, or fail: a cache client that
throws and one that swallows the error are both modelled, because the store
behind `CACHE_MANAGER` decides. `fault` and `since` remember the last failure and
the last change for as long as a property can ask about them (`Memory`). A caller
asks once a tick, and one instance of the application runs the job.

### `AccountLifecycle`, `AuthService`

`AccountLifecycle` has an account per normalised address that goes from absent to
unverified to verified and never back, and the set of addresses that have been
admitted. `AuthService` is the code: a call is one request to `register`,
`verify`, `resend`, `login`, or to a protected endpoint (`access`, the work of
`JwtStrategy.validate`).

| `pc` | The code is about to |
| --- | --- |
| `lookup` | read the user row and decide (auth.service.ts:39-45, 90-113, 133-148, 184-195) |
| `begin` | take a pooled connection for the transaction of `register` (55) |
| `insert`, `wallet`, `commit` | run that transaction, on its connection (55-73) |
| `update` | `usersService.update` (115, 202) |
| `compare` | finish `bcrypt.compare` with the row read before (150-182) |
| `mail` | wait for SMTP (75, 204) |

`found` is the row a call has read, which may be stale when it is used; `users`
and `wallets` are the committed tables, `mailbox` what SMTP took. `Blocks` is the
wait of an insert on an uncommitted one of the same unique address; the waiting
registration keeps its connection. Failures:
`Abort` (database), the last disjuncts of `Commit` and `UpdateUser` (executed,
acknowledgement lost), `SendMail` (refused, or taken and the answer lost),
`Crash`. The dtos' `Transform` (trim and lower case) is the function
`Normalised`. Whether a code has expired is a flag that `OtpExpires` clears at
any time. `generateOtp` may draw a code twice. `Openings` are the tables that
earlier calls (`Earlier`) may have left; `OpeningsOK` asks of them what the keys
of the schema and the handlers guarantee.

### `Exchange`

`WalletsService` extended with an instance of `AuthService`, whose `wallets` is
derived from the wallet tables. A registration's commit is `CreateWallet` of one
and `Commit` of the other in one step; a wallet request enters through
`MayEnter`, the guard; a step that takes a connection needs one that no open
transaction of either part holds. `AuthConstantsOK` gives the instance the
assumptions of its module, and makes every address a user of `WalletsService`.

### `TransactionHistory`

Writers begin (which fixes `created_at`) and commit in any order, the job adds
captures, and readers go through `getUserTransactions` or `getRateHistory` page
by page: rows and total are two queries, in that order, and a short page lets
TypeORM conclude the total without the second. The client that asks for the next
page while the total promises one is external to the repository. A transaction's
id is its time, so times are distinct; the rows of one capture share theirs, and
their order is arbitrary in every query. `ConstantsOK` makes the tables of the
start and the quotes of a capture finite, and has the opening rows be the first.

### `MC...`

The instances. `MCWalletsService`: two users, three currencies of which two are
supported, opening balances with a missing destination row and a user without a
wallet. `MCFxRatesService`: a list, and a conversion from a base without
snapshots to a currency the provider may leave out. `MCAuthService`: one address in two
spellings, unknown, registered or verified at the start. `MCExchange`: one user
who does everything. `MCTransactionHistory`: two users' rows and every filter.

## Runs

| Run | Question | Bounds |
| --- | --- | --- |
| `wallets_race` | Do the tables stay exact, and do the handlers implement `AtomicLedger`, whatever three conflicting requests, crashes, aborts and lost acknowledgements do? | 3 requests (symmetric), each any of 6 dtos; balances 2 and 3 units of a column that holds 4, so that double spends and overflow happen; 2 rates, one that rounds; pool of 2 |
| `wallets_liveness` | Does every accepted request end? | 2 requests of all handlers, refused dtos included, half-unit grain, pool of 1 |
| `wallets_duplicates` | refutes README.md:595 for copies in flight together | 2 copies of one conversion |
| `wallets_trade_retry` | refutes it for a retried trade | 2 copies of one trade |
| `wallets_tolerance` | refutes the trade documentation | 1 trade |
| `wallets_half_units` | refutes README.md:592, "exact arithmetic" | 1 request of half a unit |
| `fx_rates` | How old, how mixed and how late can an answer be while calls overlap and the provider and the stores fail? | 1 client and the job; TTL 2, timeout and delay 1, 2 attempts, a capture every 5 ticks, clock to 8: two captures and calls that span both |
| `fx_liveness` | Is every call answered? | the same with a clock to 4 |
| `fx_relabel` | refutes "captured automatically every hour" | as `fx_rates` |
| `accounts` | Do the calls implement `AccountLifecycle`, and are their answers and mails true? | 3 calls (symmetric), 2 codes, 2 passwords, pool of 2 |
| `exchange` | Is an admitted user's wallet ready, does only a verified user trade, does sharing the pool starve nobody? | 3 account calls (register, verify, log in), 2 wallet requests, pool of 2 |
| `history` | Does a reader who follows the pages see everything, in order, his own rows only, under a total that holds? | 3 opening rows, 2 writers, 2 captures of 2 rows, 1 reader, pages of 1 and 2 rows |

Three wallet requests let every pair of conflicting handlers meet while a third
party holds what the second waits for, and leave room for wait cycles of two and
of three transactions; three account calls let two conflicting calls meet with a
third that observes or revives what they did. A token is lost to a race
within three: a verification, a resend that overlaps it, and the login between
their writes. Two calls share the rate cache in
every overlap of lookup, fetch, fallback and write. Larger cycles and
interleavings are not covered by the runs; the theorems below do not depend on
these bounds.

Properties of `wallets_race`: `AtMostOncePerKey`, `NoOverdraft`,
`WritesReplaceWhatWasRead` (no lost update), `PendingInsertsAreUnique`,
`RepliesAreTrue` (success names a committed transaction of that user and key; any
refusal but a 500 left nothing), `NoWaitCycle` (stated over sets of transactions,
because aborts would hide a deadlock from TLC), `LedgerExplainsBalances`, and
`ImplementsAtomicLedger`, the refinement.

Properties of `fx_rates`: `AnswersAreOneQuote` (no answer mixes captures or
bases), `AnswersAreFresh` (what counts as the provider's is younger than a TTL and
a timeout), `StaleAnswersEnd` (a fallback outlives the failure that caused it by
half a TTL and a timeout at most, although it may overwrite fresh rates),
`HomeSurvivesOutage` (no 503 for NGN once there is a capture and the database
works), `CapturesNeverGoBack` (a later capture never stores older rates; this
needs a TTL and the longest wait together to be no more than the hour, as
configured: 60 and 10.5 seconds),
`DeadlineMet` (no call waits longer than all its timeouts and delays).

Properties of `accounts`: `OneAccountPerAddress`, `AccountsHaveWallets`,
`AnswersAreTrue`, `StoredCodeIsDelivered` (an unverified user's current code was
mailed, or the call that stored it failed visibly), `TokensAreHonoured` (at every
moment the guard would let in every token issued so far; a fourth call that shows
the token is not needed), and `ImplementsAccountLifecycle`, the refinement. Of
`exchange`: `WalletsAreReady`, `OnlyVerifiedUsersTrade`, `EveryCallEnds`. Of
`history`: `PagesMissNothing`,
`RepeatsAreExplained` (a row is repeated only for a row that came),
`HistoryInOrder`, `OwnRowsOnly`, `TotalsCoverPages` (the total told with a page,
read after its rows, is never below the rows shown). The first three are stated
for lists whose order is determined: transactions, and the history of one
currency; for all currencies at once the ties of a capture may repeat one row and
skip another, and nothing in the repository promises otherwise.

Fairness is always per request or call, never for submissions, aborts, crashes,
outages or expiry. `WF_vars(Step(r))` in `WalletsService`, and for wallet
requests and account calls together in `Exchange`: Node resumes every settled await and
PostgreSQL grants every lock and connection that stays free. Weak fairness is
enough because each request takes a lock once, so a lock cannot be taken away
from a waiter for ever. A connection can be taken first by another call, but
only finitely often, since the calls of an instance are finitely many.
`FxRatesService` also needs `WF_vars(Tick)`: timers fire. Nothing is claimed of
when a reader of pages is done: that depends on how fast the table grows.

Every property of a passing run has a mutant (named `Mutant...`, beside the
definition it replaces) that reproduces a plausible mistake - an index or a lock
missing, locks unsorted, the funds check dropped, a loop that miscounts, a row
saved whole, a mail not awaited - and breaks it.

## Divergences found

1. Copies of one request in flight together: the loser is answered 409 (or 400,
   if the winner spent the balance), not the original transaction.
2. A posted trade that is sent again after the rate moved is refused by the
   slippage guard, which runs before the idempotency lookup.
3. A guarded trade can execute outside its tolerance: the rate is fetched again
   after the guard.
4. An amount with more than eight decimals is rounded separately in the balance
   and in the record: half a unit is recorded as a debit of one and debits none.
5. The hourly snapshot is not always of its hour: during an outage it stores the
   previous snapshot again under a new time, and the next fallback takes it as
   the newest.

More are visible in the models without a run of their own, because one call shows
them: `convertCurrency` never checks `supportedCurrencies` (README.md:582 promises
a 400); a trade with `expectedRate` alone has no guard (trade-currency.dto.ts:15
documents a default of 1%); README.md:600 says the snapshots ensure "rate
availability even during API outages", and they exist for base NGN only; when
caching a fallback fails, the call is a 500 although the fallback was read
(`KeepFails`), and when caching fetched rates fails and the cache client throws,
they are dropped for a fallback or a 503 although the provider answered
(`StoreFails`); README.md:297-298 draws a token issued by `verify-otp`, which
answers a message only (auth.service.ts:115-130): a token comes from `login`.

## Proofs

The theorems hold for any sets of requests, calls, users, currencies, rows and
queries and for any amounts, rates, lifetimes and page sizes that satisfy the
assumptions the modules name (`ConstantsOK`, `NoneIsNoValue`, `OpeningsOK`,
`AuthConstantsOK`), which TLC evaluates on every run. The few theorems that need
more of the constants say so in an `ASSUME ... PROVE`:

| Condition | Needed for | Why it is there |
| --- | --- | --- |
| `NoHalves`: no conversion or trade is of an amount that ends in half a stored unit | `Refinement` and `MoneyIsExplained` of the wallets | `convertCurrency` rounds the balance and the record in two directions; the run `wallets_half_units` shows the property fails without it |
| `LastingFallbacks`: half a cache lifetime is at least one tick | `StaleEnd` | a fallback that expires as it is cached may still be answered once more; configured: 30 seconds |
| `RunsApart`: a lifetime, a timeout and the longest call fit between two runs of the job | `CapturesInOrder` | otherwise a capture may cache what a later one stores; configured: 75.5 seconds of an hour |
| `CompleteOpening`: wallets of the start have a row for every supported currency | `ReadyWallets` | wallets created before a currency was supported get no row for it |

| Module | Theorem | States |
| --- | --- | --- |
| `WalletsServiceProofs` | `TypeCorrect`, `AtMostOnce`, `Solvent`, `NoLostUpdate`, `UniqueInserts` | `TypeOK`, `AtMostOncePerKey`, `NoOverdraft`, `WritesReplaceWhatWasRead`, `PendingInsertsAreUnique` |
| `WalletsRefinementProofs` | `TrueReplies`, `NoDeadlock`, `Refinement` | `RepliesAreTrue`, `NoWaitCycle`, `ImplementsAtomicLedger` |
| `WalletsLedgerProofs` | `MoneyIsExplained` | `LedgerExplainsBalances` |
| `AuthServiceProofs` | `TypeCorrect`, `OneAccount`, `WalletForEveryAccount`, `TrueAnswers`, `CodesDelivered`, `HonouredTokens`, `Refinement` | `TypeOK`, `OneAccountPerAddress`, `AccountsHaveWallets`, `AnswersAreTrue`, `StoredCodeIsDelivered`, `TokensAreHonoured`, `ImplementsAccountLifecycle` |
| `FxRatesServiceProofs` | `TypeCorrect`, `Deadline`, `OneQuote`, `Fresh`, `StaleEnd`, `SurvivesOutage`, `CapturesInOrder` | `TypeOK`, `DeadlineMet`, `AnswersAreOneQuote`, `AnswersAreFresh`, `StaleAnswersEnd`, `HomeSurvivesOutage`, `CapturesNeverGoBack` |
| `TransactionHistoryProofs` | `TypeCorrect`, `OwnRows`, `NothingMissed`, `RepeatsExplained`, `HistorySorted`, `TotalsHold` | `TypeOK`, `OwnRowsOnly`, `PagesMissNothing`, `RepeatsAreExplained`, `HistoryInOrder`, `TotalsCoverPages` |
| `ExchangeProofs` | `Joined`, `Composition`, `VerifiedUsersTrade`, `ReadyWallets` | the invariants of both parts, both specifications, `OnlyVerifiedUsersTrade`, `WalletsAreReady` |

### Wallets

No property is inductive alone. `AtMostOncePerKey` needs to know that a
transaction waiting to commit is alone with its key (`KeyOK`), which the unique
index establishes in `RecordTransaction` and every other commit must not undo.
`NoOverdraft` needs that the funds checked are still there at the commit, hence
that what was read under lock is current, hence that locks exclude each other and
that a row about to be inserted is still absent (`LocksOK`, `InsertOK`).
`IInv` is their conjunction with `RequestOK`, what a request has been checked for
at each `pc`. A step that leaves the tables alone changes one request only, and
`LemmaLocal` reduces it to that request's part of `IInv`; `LemmaCommit` shows that
a commit changes only rows its request holds or inserts, so nobody else's part is
disturbed; `LemmaCreateWallet` and `LemmaCrash` do the rest.

The refinement and the truth of answers need in addition where a request has been
(`Paths`): its rate is one that `getRate` answered, what it writes fits the
column, and its record is in the ledger exactly when it has committed. Every step
but `CreateWallet` and the commits leaves both tables alone; a commit is `Post` of
the record, because the rows it writes are current under its locks and because a
whole amount is rounded alike in the balance and in the record. `NoWaitCycle`
follows state by state: in any set of open transactions, the one that is furthest
(recording before saving before locking, and among those at their second lock the
one whose first currency comes last in the alphabet) waits for nobody in the set.

`LedgerExplainsBalances` is about sums over the whole ledger. The library's
induction theorems take an operator and cannot be used, so `WalletsLedgerProofs`
argues by a smallest counterexample, from the well-foundedness of strict inclusion on
finite sets (`SubsetInduction`): the recursive function behind `MapThenSumSet`
exists, its values do not depend on the element chosen first, and one element
more adds its field (`TotalAdd`). With that, `Balanced` is preserved: a commit
adds one record and changes the balances by its fields.

### Accounts

`IInv` says of a call what it has been checked for (`RequestOK`), that the row it
has read is still there and as verified as it was (`FoundOK`: nobody deletes a row
or takes a verification back, so a stale row is wrong only in its code), that its
own row is there exactly when its transaction has committed (`RowOK`), and that an address
about to be committed is free and nobody else's (`UniqueOK`, which is what the
unique index and the wait of an insert on another give). `AnswersAreTrue` and
`TokensAreHonoured` are inductive in that company (`TablesOK`). `StoredCodeIsDelivered` is, because
every call that stores a code carries it in `code` until the mail is taken or the
call ends visibly. The refinement takes each commit, update and token to its step of
the life cycle; all other steps stutter.

### Rates

`IInv` bounds when a call can be at each label by the number of its attempts
(`TimesOK`, which `DeadlineMet` reads off), says what the table in hand is worth
(`TableOK`: one base and one moment; `HeldOK`: fresh from the provider, or a
fallback with its cause), and what a cached entry is worth until it expires
(`EntryOK`), whoever wrote it and over whatever. A cause is stated relative to the time an
entry was cached, since the failure may be over when the entry is read.
`CapturesNeverGoBack` needs a second invariant, `OrderedInv`: what the job holds,
what a fallback is about to cache, and what a fallback has cached are no older
than any captured row, except for rows captured since. `RunsApart` makes those
exceptions end before the next run can read them.

### History

The argument is about the place of a row: how many rows of the list come no later
than it. A page shows the places of one window, the windows of consecutive pages
adjoin, and a commit pushes rows to later places only, so that a row of the
beginning that is not yet shown is in a window still to come (`CompleteOK`). Hence
nothing is missed, and the pages are no longer than the list, which bounds the
repetitions by the rows that came. That no page goes past the end of the list
(`CountOK`) needs no order at all, so the totals hold of every list
(`TotalsCoverPages`). A capture is last in the history of its currency, so there no place
ever changes, and the pages are sorted (`SortedOK`).

### Composition

`Composition` says that `Exchange` is `WalletsService` and `AuthService` at once:
each of its steps is a step or a stutter of either. The side to show is
`AuthService`'s, whose `wallets` is derived from the balance table: only
`CreateWallet` gives a user rows who has none (a conversion inserts rows only for
a user it has found a wallet of, `FoundWallets`), so nothing else changes who has
a wallet. All safety theorems of the parts therefore hold of the application.
`OnlyVerifiedUsersTrade` follows from the guard and from verification being
final; `WalletsAreReady` from the wallet being committed with its user, one row for every
supported currency.

### Only model-checked

Liveness under fairness (`EveryRequestEnds`, `EveryCallEnds`) is out of the
prover's reach and stays with TLC on the bounded instances, as do the five
refutations. Everything else that a passing run checks is a theorem.

## Not modelled

- The 20 significant digits of `decimal.js`: an amount times a rate is rounded
  half up before it is rounded down to eight decimals. Telling the two apart needs
  products beyond 10^20, which TLC's integers do not hold; the effect is one unit
  of the last decimal in rare products.
- `getWalletByUserId` (read-only), `createWalletForUser` and `UsersService.create`
  (no caller); `createWalletForUser` appears as a mutant of registration.
- Token expiry and the request throttler, which are library configuration;
  `RolesGuard`, which compares two values of one request.
- Migrations at boot, which several instances may start together: TypeORM's.
- Several instances of the application running the hourly job at one time: their
  captures would be distinct times, as two captures are.
- A crash during a call for rates: it leaves what it had already written to the
  stores, which is what a call leaves that has not got further.
- Pages of the rate history with a `page` or `limit` below 1 or not a number: its
  controller (fx-rates.controller.ts:40-41) validates neither, the model's
  queries have both at least 1.
- Logging, response shaping, Swagger metadata, mail templates and configuration
  parsing keep no state the program reads back.
