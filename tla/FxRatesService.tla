--------------------------- MODULE FxRatesService ---------------------------
(***************************************************************************)
(* Exchange rates: the cache per base currency, the provider with its      *)
(* timeout and retries, the fallback to the newest stored snapshot, and     *)
(* the hourly job that stores snapshots through the same chain             *)
(* (src/src/fx-rates/services/fx-rates.service.ts, fx-snapshot.service.ts). *)
(*                                                                         *)
(* One discrete clock drives everything.  Waiting for the provider and the *)
(* delay between attempts take time; Redis, PostgreSQL and the code         *)
(* between two awaits answer within a tick.  A rate is represented by the   *)
(* time at which the provider quoted it, so that its age can be told.      *)
(***************************************************************************)
EXTENDS Integers, FiniteSets, FiniteSetsExt

CONSTANTS
    Clients,        \* callers of getRate and getSupportedRates
    Cron,           \* the caller that is the hourly job
    Currencies,
    Supported,      \* AppConfig.supportedCurrencies
    Home,           \* "NGN", the base of lists and snapshots
    Queries,        \* what clients may ask
    QuoteSets,      \* the sets of currencies the provider may quote
    MaxRetries,     \* attempts in total
    RetryDelay,
    FetchTimeout,
    TTL,            \* AppConfig.fxCacheTtl
    Hour,           \* ticks between two runs of the job
    MaxTime,        \* bound: the clock stops here
    None

VARIABLES
    now,            \* the clock
    up, since,      \* whether the provider answers, and since when
    fault,          \* when Redis or PostgreSQL last failed a call, or None
    cache,          \* Redis: a rate table per base, with its expiry
    snapshots,      \* rows of fx_rate_snapshots
    pc,             \* where each call is
    query, asked,   \* what it asks for, and when it did
    attempt,        \* which attempt it is at
    wake,           \* when its timeout or its delay is over
    rates,          \* the table it holds
    reply,          \* what it answered
    lastRun         \* when the job last started

provider == <<up, since>>
stores == <<cache, snapshots>>
locals == <<query, asked, attempt, wake, rates>>
vars == <<now, provider, fault, stores, pc, locals, reply, lastRun>>

-----------------------------------------------------------------------------
(* Records.                                                                *)

Calls == Clients \cup {Cron}

Times == 0..MaxTime

RateQueries == [kind: {"rate"}, base: Currencies, quote: Currencies]
ListQuery == [kind |-> "list", base |-> Home, quote |-> None]
CaptureQuery == [kind |-> "capture", base |-> Home, quote |-> None]

(* A table of rates by quote currency, and where the log says it is from.  *)
Tables ==
    [base: Currencies, source: {"api", "snapshot"},
     quotes: UNION {[S -> Times] : S \in SUBSET Currencies}]

Entries == [table: Tables, expires: Nat]

SnapshotRows ==
    [base: Currencies, quote: Currencies, rate: Times, at: Times]

Codes == {"OK", "BadRequest", "Unavailable", "InternalError"}

Labels == {"idle", "lookup", "fetch", "backoff", "store", "fallback",
           "keep", "save", "done"}

ASSUME ConstantsOK ==
    /\ Home \in Supported
    /\ Supported \subseteq Currencies
    /\ Cron \notin Clients
    /\ Queries \subseteq RateQueries \cup {ListQuery}
    /\ QuoteSets \subseteq SUBSET Currencies
    /\ MaxRetries \in Nat \ {0}
    /\ {FetchTimeout, TTL, Hour, MaxTime} \subseteq Nat \ {0}
    /\ RetryDelay \in Nat
    /\ None \notin Times

(* How far back the outages and failures of the stores are remembered.      *)
Memory == FetchTimeout + TTL \div 2

(* The longest a call may wait: every attempt times out, with all delays.  *)
Patience ==
    MaxRetries * FetchTimeout
      + RetryDelay * ((MaxRetries * (MaxRetries - 1)) \div 2)

-----------------------------------------------------------------------------
(* Steps shared by the calls.                                              *)

Goto(c, label) == pc' = [pc EXCEPT ![c] = label]

Answer(c, code, table) ==
    /\ Goto(c, "done")
    /\ reply' = [reply EXCEPT ![c] = [code |-> code, table |-> table]]
    /\ rates' = [rates EXCEPT ![c] = None]
    /\ attempt' = [attempt EXCEPT ![c] = 0]
    /\ wake' = [wake EXCEPT ![c] = 0]
    /\ UNCHANGED <<query, asked>>

Fail(c, code) == Answer(c, code, None)

(* What the caller of getRates does with the table it returns: a missing    *)
(* rate is a 400, a list keeps what there is, the job goes on to save.     *)
Deliver(c, table) ==
    LET q == query[c]
    IN \/ /\ q.kind = "rate" /\ q.quote \notin DOMAIN table.quotes
          /\ Fail(c, "BadRequest")
       \/ /\ q.kind = "rate" => q.quote \in DOMAIN table.quotes
          /\ q.kind # "capture"
          /\ Answer(c, "OK", table)
       \/ /\ q.kind = "capture"
          /\ rates' = [rates EXCEPT ![c] = table]
          /\ Goto(c, "save")
          /\ UNCHANGED <<query, asked, attempt, wake, reply>>

StartAttempt(c, n) ==
    /\ Goto(c, "fetch")
    /\ attempt' = [attempt EXCEPT ![c] = n]
    /\ wake' = [wake EXCEPT ![c] = now + FetchTimeout]
    /\ UNCHANGED <<query, asked, rates, reply>>

(* Mutant: fallback rates are cached as long as the provider's. *)
MutantLifetime(table) == TTL
Lifetime(table) == IF table.source = "api" THEN TTL ELSE TTL \div 2

Cached(c, table) ==
    cache' = [cache EXCEPT ![query[c].base] =
                [table |-> table, expires |-> now + Lifetime(table)]]

-----------------------------------------------------------------------------
Init ==
    /\ now = 0
    /\ up \in BOOLEAN /\ since = 0
    /\ fault = None
    /\ cache = [b \in Currencies |-> None]
    /\ snapshots = {}
    /\ pc = [c \in Calls |-> "idle"]
    /\ query = [c \in Calls |-> None]
    /\ asked = [c \in Calls |-> 0]
    /\ attempt = [c \in Calls |-> 0]
    /\ wake = [c \in Calls |-> 0]
    /\ rates = [c \in Calls |-> None]
    /\ reply = [c \in Calls |-> None]
    /\ lastRun = None

(* A caller asks at most once a tick, so that the clock can go on. *)
Begin(c, q) ==
    /\ pc[c] = "idle"
    /\ now + Patience <= MaxTime
    /\ Goto(c, "lookup")
    /\ query' = [query EXCEPT ![c] = q]
    /\ asked' = [asked EXCEPT ![c] = now]
    /\ UNCHANGED <<now, provider, fault, stores, attempt, wake, rates, reply>>

(* A conversion, a trade or GET /fx/rates asks.  A rate of a currency to    *)
(* itself is "1" without a call and is left out.                           *)
Ask(c, q) ==
    /\ q.base # q.quote
    /\ Begin(c, q)
    /\ UNCHANGED lastRun

(* @Cron("0 * * * *"): captureSnapshot. *)
CaptureSnapshot ==
    /\ now % Hour = 0
    /\ lastRun # now
    /\ lastRun' = now
    /\ Begin(Cron, CaptureQuery)

Hit(c) ==
    LET entry == cache[query[c].base]
    IN /\ pc[c] = "lookup"
       /\ entry # None
       /\ Deliver(c, entry.table)
       /\ UNCHANGED <<now, provider, fault, stores, lastRun>>

Miss(c) ==
    /\ pc[c] = "lookup"
    /\ cache[query[c].base] = None
    /\ StartAttempt(c, 1)
    /\ UNCHANGED <<now, provider, fault, stores, lastRun>>

(* Redis fails the lookup: the client library throws, outside the handler's *)
(* try block, or answers a miss.                                           *)
LookupFails(c) ==
    /\ pc[c] = "lookup"
    /\ fault' = now
    /\ Fail(c, "InternalError") \/ StartAttempt(c, 1)
    /\ UNCHANGED <<now, provider, stores, lastRun>>

(* When the provider may have computed the answer to c's attempt: a time    *)
(* since the attempt began at which it was up.                             *)
QuotedAt(c) ==
    {t \in (wake[c] - FetchTimeout)..now : IF up THEN t >= since
                                                 ELSE t <= since}

FetchAnswered(c) ==
    /\ pc[c] = "fetch"
    /\ \E t \in QuotedAt(c), S \in QuoteSets :
         rates' = [rates EXCEPT ![c] =
                     [base |-> query[c].base, source |-> "api",
                      quotes |-> [quote \in S |-> t]]]
    /\ Goto(c, "store")
    /\ UNCHANGED <<now, provider, fault, stores, query, asked, attempt,
                   wake, reply, lastRun>>

(* Mutant: MAX_RETRIES counts the attempts after the first. *)
MutantAttemptsLeft(c) == attempt[c] <= MaxRetries
AttemptsLeft(c) == attempt[c] < MaxRetries

(* The provider was down at some moment of the attempt: it was refused, it  *)
(* reported an error, or the timeout passed.                               *)
FetchFails(c) ==
    /\ pc[c] = "fetch"
    /\ ~ up \/ since >= wake[c] - FetchTimeout
    /\ \/ /\ AttemptsLeft(c)
          /\ Goto(c, "backoff")
          /\ wake' = [wake EXCEPT ![c] = now + RetryDelay * attempt[c]]
       \/ /\ ~ AttemptsLeft(c)
          /\ Goto(c, "fallback")
          /\ UNCHANGED wake
    /\ UNCHANGED <<now, provider, fault, stores, query, asked, attempt,
                   rates, reply, lastRun>>

(* Mutant: the loop does not count. *)
MutantRetry(c) ==
    /\ pc[c] = "backoff"
    /\ now >= wake[c]
    /\ StartAttempt(c, attempt[c])
    /\ UNCHANGED <<now, provider, fault, stores, lastRun>>

Retry(c) ==
    /\ pc[c] = "backoff"
    /\ now >= wake[c]
    /\ StartAttempt(c, attempt[c] + 1)
    /\ UNCHANGED <<now, provider, fault, stores, lastRun>>

(* The provider's rates are cached and returned. *)
Store(c) ==
    /\ pc[c] = "store"
    /\ Cached(c, rates[c])
    /\ Deliver(c, rates[c])
    /\ UNCHANGED <<now, provider, fault, snapshots, lastRun>>

(* A write to the cache that fails may have been executed. *)
WriteFails(c) ==
    /\ fault' = now
    /\ Cached(c, rates[c]) \/ UNCHANGED cache
    /\ UNCHANGED snapshots

(* Redis fails the write.  If the client library throws, the catch block    *)
(* treats it as a failed fetch and drops the rates.                        *)
StoreFails(c) ==
    /\ pc[c] = "store"
    /\ WriteFails(c)
    /\ \/ Deliver(c, rates[c])
       \/ /\ Goto(c, "fallback")
          /\ rates' = [rates EXCEPT ![c] = None]
          /\ UNCHANGED <<query, asked, attempt, wake, reply>>
    /\ UNCHANGED <<now, provider, lastRun>>

StoredFor(b) == {s \in snapshots : s.base = b}

(* Mutant: a rate is taken for every currency, newest or not. *)
MutantUnfilteredRows(b) ==
    {s \in StoredFor(b) :
        \A t \in StoredFor(b) : s.quote = t.quote => s.at <= t.at}

(* fallbackToSnapshot: the rows of the newest capture. *)
FallbackRows(b) ==
    {s \in StoredFor(b) : \A t \in StoredFor(b) : t.at <= s.at}

Fallback(c) ==
    LET rows == FallbackRows(query[c].base)
        RateOf(quote) == (CHOOSE s \in rows : s.quote = quote).rate
    IN /\ pc[c] = "fallback"
       /\ \/ /\ rows = {}
             /\ Fail(c, "Unavailable")
          \/ /\ rows # {}
             /\ rates' = [rates EXCEPT ![c] =
                  [base |-> query[c].base, source |-> "snapshot",
                   quotes |-> [quote \in {s.quote : s \in rows}
                                 |-> RateOf(quote)]]]
             /\ Goto(c, "keep")
             /\ UNCHANGED <<query, asked, attempt, wake, reply>>
       /\ UNCHANGED <<now, provider, fault, stores, lastRun>>

(* PostgreSQL fails the query; the catch block answers null. *)
FallbackFails(c) ==
    /\ pc[c] = "fallback"
    /\ fault' = now
    /\ Fail(c, "Unavailable")
    /\ UNCHANGED <<now, provider, stores, lastRun>>

(* The fallback is cached over whatever is there, and returned. *)
Keep(c) ==
    /\ pc[c] = "keep"
    /\ Cached(c, rates[c])
    /\ Deliver(c, rates[c])
    /\ UNCHANGED <<now, provider, fault, snapshots, lastRun>>

(* A write that fails here is thrown out of the handler, or ignored.       *)
KeepFails(c) ==
    /\ pc[c] = "keep"
    /\ WriteFails(c)
    /\ Fail(c, "InternalError") \/ Deliver(c, rates[c])
    /\ UNCHANGED <<now, provider, lastRun>>

(* Mutant: base and quote are swapped. *)
MutantCaptured(table) ==
    {[base |-> quote, quote |-> Home, rate |-> table.quotes[quote],
      at |-> now] : quote \in (Supported \ {Home}) \cap DOMAIN table.quotes}

(* One row per supported currency the table has; they are inserted in one   *)
(* transaction, which gives them one time.                                 *)
Captured(table) ==
    {[base |-> Home, quote |-> quote, rate |-> table.quotes[quote],
      at |-> now] : quote \in (Supported \ {Home}) \cap DOMAIN table.quotes}

Save ==
    /\ pc[Cron] = "save"
    /\ snapshots' = snapshots \cup Captured(rates[Cron])
    /\ Answer(Cron, "OK", rates[Cron])
    /\ UNCHANGED <<now, provider, fault, cache, lastRun>>

(* The job swallows the error; the rows may have been committed. *)
SaveFails ==
    /\ pc[Cron] = "save"
    /\ fault' = now
    /\ snapshots' \in {snapshots, snapshots \cup Captured(rates[Cron])}
    /\ Fail(Cron, "InternalError")
    /\ UNCHANGED <<now, provider, cache, lastRun>>

-----------------------------------------------------------------------------
(* The environment.                                                        *)

(* The provider goes down or comes back, at most once a tick. *)
Toggle ==
    /\ now > since
    /\ up' = ~ up
    /\ since' = now
    /\ UNCHANGED <<now, fault, stores, pc, locals, reply, lastRun>>

Waits(c) ==
    \/ pc[c] \in {"idle", "done"}
    \/ pc[c] \in {"fetch", "backoff"} /\ now < wake[c]

(* Mutant: entries never expire. *)
MutantExpired(entry) == entry # entry
Expired(entry) == entry.expires <= now + 1

(* Time passes while nobody has anything to do.  Redis drops what expires, *)
(* answered callers are free to ask again, and what happened longer ago     *)
(* than Memory is only known to be that long ago.                          *)
Tick ==
    LET done == {c \in Calls : pc[c] = "done"}
        Reset(f, v) == [c \in Calls |-> IF c \in done THEN v ELSE f[c]]
    IN /\ now < MaxTime
       /\ \A c \in Calls : Waits(c)
       /\ now' = now + 1
       /\ cache' = [b \in Currencies |->
                      IF cache[b] # None /\ Expired(cache[b])
                      THEN None ELSE cache[b]]
       /\ since' = Max({since, now' - Memory})
       /\ fault' = IF fault # None /\ fault < now' - Memory
                   THEN None ELSE fault
       /\ pc' = Reset(pc, "idle")
       /\ query' = Reset(query, None)
       /\ asked' = Reset(asked, 0)
       /\ reply' = Reset(reply, None)
       /\ UNCHANGED <<up, snapshots, attempt, wake, rates, lastRun>>

(* The bound of the clock is no deadlock. *)
Terminating ==
    /\ now = MaxTime
    /\ \A c \in Calls : pc[c] \in {"idle", "done"}
    /\ UNCHANGED vars

Step(c) ==
    \/ Hit(c)
    \/ Miss(c)
    \/ LookupFails(c)
    \/ FetchAnswered(c)
    \/ FetchFails(c)
    \/ Retry(c)
    \/ Store(c)
    \/ StoreFails(c)
    \/ Fallback(c)
    \/ FallbackFails(c)
    \/ Keep(c)
    \/ KeepFails(c)

Next ==
    \/ \E c \in Clients, q \in Queries : Ask(c, q)
    \/ CaptureSnapshot
    \/ \E c \in Calls : Step(c)
    \/ Save
    \/ SaveFails
    \/ Toggle
    \/ Tick
    \/ Terminating

Spec == Init /\ [][Next]_vars

(* Settled calls are resumed, and the clock does not stop. *)
Fairness ==
    /\ \A c \in Calls : WF_vars(Step(c))
    /\ WF_vars(Save \/ SaveFails)
    /\ WF_vars(Tick)

FairSpec == Spec /\ Fairness

-----------------------------------------------------------------------------
(* Properties.                                                             *)

(* The variables have their types. *)
TypeOK ==
    /\ {now, since} \subseteq Times
    /\ up \in BOOLEAN
    /\ {fault, lastRun} \subseteq Times \cup {None}
    /\ cache \in [Currencies -> Entries \cup {None}]
    /\ snapshots \subseteq SnapshotRows
    /\ pc \in [Calls -> Labels]
    /\ query \in [Calls -> Queries \cup {CaptureQuery, None}]
    /\ asked \in [Calls -> Times]
    /\ attempt \in [Calls -> 0..MaxRetries]
    /\ wake \in [Calls -> Nat]
    /\ rates \in [Calls -> Tables \cup {None}]
    /\ reply \in [Calls -> [code: Codes, table: Tables \cup {None}]
                            \cup {None}]

(* The answers given at this moment. *)
Answered == {c \in Calls : reply[c] # None}

OKNow == {c \in Answered : reply[c].code = "OK"}

(* All rates of an answer are for the base that was asked, and were quoted  *)
(* at one moment: neither the cache nor the fallback mixes bases or         *)
(* captures, though every call writes and reads the same stores.           *)
AnswersAreOneQuote ==
    \A c \in OKNow :
        LET table == reply[c].table
        IN /\ table.base = query[c].base
           /\ \A a, b \in DOMAIN table.quotes :
                table.quotes[a] = table.quotes[b]

(* What is answered as the provider's rate was quoted less than a cache     *)
(* lifetime and a request timeout ago, however calls overlap.              *)
AnswersAreFresh ==
    \A c \in OKNow :
        reply[c].table.source = "api" =>
            \A quote \in DOMAIN reply[c].table.quotes :
                now - reply[c].table.quotes[quote] < TTL + FetchTimeout

(* A fallback outlives its cause only briefly: within half a lifetime and   *)
(* a timeout of its answer, the provider was down or a store failed.  This  *)
(* includes a fallback cached over rates that were fetched meanwhile.      *)
StaleAnswersEnd ==
    \A c \in OKNow :
        reply[c].table.source = "snapshot" =>
            \/ ~ up
            \/ now - since < FetchTimeout + TTL \div 2
            \/ fault # None /\ now - fault < TTL \div 2

(* While captures exist and the stores work, nobody who asks for rates of   *)
(* the home currency is told 503, however long the provider is down.       *)
HomeSurvivesOutage ==
    \A c \in Answered :
        (/\ query[c].base = Home
         /\ \E s \in snapshots : s.at < now
         /\ fault # now) => reply[c].code # "Unavailable"

(* A newer capture never holds older rates than an earlier one, although    *)
(* the job may store what it read from the cache or from its own rows.     *)
CapturesNeverGoBack ==
    \A s, t \in snapshots :
        s.at < t.at => s.rate <= t.rate

(* No call takes longer than all its timeouts and delays, whatever others  *)
(* do to the cache meanwhile.                                              *)
DeadlineMet ==
    \A c \in Calls :
        pc[c] \notin {"idle", "done"} => now - asked[c] <= Patience

(* Every call is answered. *)
EveryCallEnds ==
    \A c \in Calls : pc[c] = "lookup" ~> pc[c] = "done"

-----------------------------------------------------------------------------
(* fx-rates/decorators/swagger.decorator.ts, history: "hourly rate          *)
(* snapshots ... captured automatically every hour".  Refuted by a run of   *)
(* its own: a row can be older than an hour at its own time.               *)
SnapshotsAreOfTheirHour ==
    \A s \in snapshots : s.at - s.rate < Hour
=============================================================================
