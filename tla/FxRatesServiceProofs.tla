------------------------ MODULE FxRatesServiceProofs ------------------------
(***************************************************************************)
(* Proofs about FxRatesService, for every set of callers and currencies,    *)
(* every lifetime, timeout, delay and number of attempts, and every set of  *)
(* currencies the provider may quote.                                      *)
(*                                                                         *)
(* The inductive invariant IInv says how far each call's waiting has got    *)
(* (TimesOK), what the table it holds is worth (TableOK, HeldOK), what a    *)
(* cached entry is worth until it expires (EntryOK), and what the job's     *)
(* rows are (SnapshotsOK).  Two facts need more of the constants than the   *)
(* rest, and are stated under these conditions:                            *)
(*   LastingFallbacks - a fallback is cached for at least a tick;           *)
(*   RunsApart        - the job's runs are further apart than a cache        *)
(*                      lifetime and the longest a run can take.            *)
(***************************************************************************)
EXTENDS FxRatesService, FiniteSetTheorems, TLAPS

LastingFallbacks == TTL \div 2 > 0

RunsApart == TTL + FetchTimeout + Patience <= Hour + 1

(* A call's latest moment when its nth attempt times out after all others. *)
Due(n) == n * FetchTimeout + RetryDelay * ((n * (n - 1)) \div 2)

Busy(c) == pc[c] \notin {"idle", "done"}

Holding == {"store", "keep", "save"}

(* Who asks what: only the job captures, and only a capture is saved. *)
QueryOK(c) ==
    /\ pc[c] # "idle" =>
         IF c = Cron THEN query[c] = CaptureQuery ELSE query[c] \in Queries
    /\ pc[c] = "save" => c = Cron
    /\ reply[c] # None => pc[c] = "done"

(* How late it can be by the time a call gets somewhere. *)
TimesOK(c) ==
    /\ Busy(c) => asked[c] <= now /\ now <= asked[c] + Patience
    /\ pc[c] = "lookup" => now = asked[c]
    /\ pc[c] = "fetch" =>
         /\ attempt[c] \in 1..MaxRetries
         /\ asked[c] + FetchTimeout <= wake[c]
         /\ wake[c] <= asked[c] + Due(attempt[c])
         /\ now <= wake[c]
    /\ pc[c] = "backoff" =>
         /\ attempt[c] \in 1..(MaxRetries - 1)
         /\ wake[c] <= asked[c] + Due(attempt[c]) + RetryDelay * attempt[c]
         /\ now <= wake[c]

(* A table of one base and one moment. *)
TableOK(table, b) ==
    /\ table \in Tables
    /\ table.base = b
    /\ \A q, r \in DOMAIN table.quotes : table.quotes[q] = table.quotes[r]
    /\ \A q \in DOMAIN table.quotes : table.quotes[q] <= now

QuotedSince(table, t) ==
    \A q \in DOMAIN table.quotes : t <= table.quotes[q]

(* Something was broken at time t, or a timeout before it, or is since. *)
Cause(t) ==
    \/ ~ up
    \/ since >= t - FetchTimeout
    \/ fault # None /\ fault >= t

(* StaleAnswersEnd of one answer. *)
Recent ==
    \/ ~ up
    \/ now - since < FetchTimeout + TTL \div 2
    \/ fault # None /\ now - fault < TTL \div 2

(* What may be answered at this moment. *)
Answerable(table) ==
    /\ table.source = "api" => QuotedSince(table, now - TTL - FetchTimeout + 1)
    /\ table.source = "snapshot" /\ LastingFallbacks => Recent

(* What a call holds, and what it answers. *)
HeldOK(c) ==
    /\ pc[c] \in Holding => TableOK(rates[c], query[c].base)
    /\ pc[c] = "store" =>
         rates[c].source = "api" /\ QuotedSince(rates[c], now - FetchTimeout)
    /\ pc[c] = "keep" => rates[c].source = "snapshot"
    /\ pc[c] \in {"fallback", "keep"} => Cause(now)
    /\ pc[c] = "save" => Answerable(rates[c])

ReplyOK(c) ==
    reply[c] # None =>
        /\ reply[c].code = "OK" =>
             /\ TableOK(reply[c].table, query[c].base)
             /\ Answerable(reply[c].table)
        /\ reply[c].code = "Unavailable" /\ query[c].base = Home =>
             fault = now \/ \A s \in snapshots : s.at >= now

CallOK(c) == QueryOK(c) /\ TimesOK(c) /\ HeldOK(c) /\ ReplyOK(c)

(* When an entry was cached. *)
CachedAt(entry) == entry.expires - Lifetime(entry.table)

(* What an entry is worth while it is there. *)
EntryOK(b) ==
    LET entry == cache[b]
    IN entry # None =>
        /\ TableOK(entry.table, b)
        /\ CachedAt(entry) <= now
        /\ now <= entry.expires
        /\ now < entry.expires \/ Lifetime(entry.table) = 0
        /\ entry.table.source = "api" =>
             /\ now < entry.expires
             /\ QuotedSince(entry.table, CachedAt(entry) - FetchTimeout)
        /\ entry.table.source = "snapshot" /\ now < entry.expires =>
             Cause(CachedAt(entry))

(* The rows of a capture share its time and its rate; there is one capture  *)
(* a run, at the run's end.                                                *)
SnapshotsOK ==
    /\ \A s \in snapshots : s.base = Home /\ s.rate <= s.at /\ s.at <= now
    /\ \A s, t \in snapshots : s.at = t.at => s.rate = t.rate
    /\ pc[Cron] # "done" => \A s \in snapshots : s.at < now

IInv ==
    /\ TypeOK
    /\ since <= now
    /\ fault # None => fault <= now
    /\ \A c \in Calls : CallOK(c)
    /\ \A b \in Currencies : EntryOK(b)
    /\ SnapshotsOK

-----------------------------------------------------------------------------
(* What CapturesNeverGoBack needs beyond IInv, when RunsApart.             *)

(* No row has a rate newer than the table's, except those captured from    *)
(* time t on.                                                              *)
Newest(table, t) ==
    \A s \in snapshots, q \in DOMAIN table.quotes :
        s.rate <= table.quotes[q] \/ s.at >= t

(* The job's runs start on the hour, and its rows are not much younger. *)
RunsOK ==
    /\ lastRun # None => lastRun % Hour = 0 /\ lastRun <= now
    /\ Busy(Cron) => lastRun = asked[Cron]
    /\ \A s \in snapshots :
         /\ lastRun # None
         /\ s.at <= lastRun + Patience
         /\ Busy(Cron) => s.at + Hour <= lastRun + Patience

(* What is about to be cached, or to be saved, and what is cached already.  *)
KeptIsNewest ==
    \A c \in Calls : pc[c] = "keep" => Newest(rates[c], now)

SavedIsNewest ==
    pc[Cron] \in Holding => Newest(rates[Cron], now + 1)

CachedIsNewest ==
    \A b \in Currencies :
        cache[b] # None /\ cache[b].table.source = "snapshot" =>
            Newest(cache[b].table, CachedAt(cache[b]))

OrderedInv ==
    /\ RunsOK /\ CapturesNeverGoBack
    /\ KeptIsNewest /\ SavedIsNewest /\ CachedIsNewest

-----------------------------------------------------------------------------
(* Arithmetic of the delays, and of the runs of the job.                   *)

LEMMA Constants ==
    /\ MaxRetries \in Nat /\ MaxRetries > 0
    /\ FetchTimeout \in Nat /\ FetchTimeout > 0
    /\ TTL \in Nat /\ TTL > 0 /\ TTL \div 2 \in Nat /\ TTL \div 2 <= TTL
    /\ Hour \in Nat /\ Hour > 0 /\ MaxTime \in Nat /\ RetryDelay \in Nat
    /\ None \notin Times /\ Home \in Currencies /\ Cron \notin Clients
BY ConstantsOK

LEMMA Product ==
    ASSUME NEW x \in Nat, NEW y \in Nat, NEW z \in Nat, x <= y
    PROVE  x * z <= y * z /\ z * x <= z * y /\ x * z \in Nat /\ z * x \in Nat
<1>1. PICK d \in Nat : y = x + d
  <2>1. y - x \in Nat /\ y = x + (y - x)
    OBVIOUS
  <2> QED BY <2>1
<1>2. d * z \in Nat /\ x * z \in Nat
  OBVIOUS
<1>3. y * z = x * z + d * z
  BY <1>1
<1> QED BY <1>2, <1>3

(* Every failed attempt adds its timeout and the delay after it. *)
LEMMA DueStep ==
    ASSUME NEW n \in Nat \ {0}
    PROVE  /\ Due(n) \in Nat
           /\ Due(n + 1) = Due(n) + RetryDelay * n + FetchTimeout
<1> DEFINE m == n * (n - 1)
<1>1. n - 1 \in Nat /\ m \in Nat
  OBVIOUS
<1>2. (n + 1) * (n + 1 - 1) = m + 2 * n
  OBVIOUS
<1> HIDE DEF m
<1>3. /\ m \div 2 \in Nat
      /\ (m + 2 * n) \div 2 = m \div 2 + n
  BY <1>1
<1>4. RetryDelay * ((m \div 2) + n) = RetryDelay * (m \div 2) + RetryDelay * n
  BY <1>3, Constants
<1>5. (n + 1) * FetchTimeout = n * FetchTimeout + FetchTimeout
  BY Constants
<1>6. n * FetchTimeout \in Nat /\ RetryDelay * (m \div 2) \in Nat
  BY <1>3, Constants
<1>7. Due(n) = n * FetchTimeout + RetryDelay * (m \div 2)
  BY DEF Due, m
<1>8. Due(n + 1) = (n + 1) * FetchTimeout + RetryDelay * ((m + 2 * n) \div 2)
  BY <1>2 DEF Due
<1>9. RetryDelay * n \in Nat
  BY Constants
<1> HIDE DEF Due
<1> QED BY <1>3, <1>4, <1>5, <1>6, <1>7, <1>8, <1>9, Constants

LEMMA DueFirst == Due(1) = FetchTimeout
<1>1. (1 * (1 - 1)) \div 2 = 0
  OBVIOUS
<1>2. Due(1) = 1 * FetchTimeout + RetryDelay * 0
  BY <1>1 DEF Due
<1> QED BY <1>2, Constants

LEMMA DueIsPatience ==
    ASSUME NEW n \in 1..MaxRetries
    PROVE  Due(n) <= Patience /\ Patience \in Nat /\ Due(n) \in Nat
<1> DEFINE m(x) == x * (x - 1)
<1>1. n \in Nat /\ n - 1 \in Nat /\ MaxRetries - 1 \in Nat /\ n <= MaxRetries
      /\ n - 1 <= MaxRetries - 1
  BY Constants
<1>2. n * (n - 1) <= MaxRetries * (n - 1)
      /\ MaxRetries * (n - 1) <= MaxRetries * (MaxRetries - 1)
      /\ n * (n - 1) \in Nat /\ MaxRetries * (n - 1) \in Nat
      /\ MaxRetries * (MaxRetries - 1) \in Nat
  BY <1>1, Constants, Product
<1>3. m(n) \in Nat /\ m(MaxRetries) \in Nat /\ m(n) <= m(MaxRetries)
  BY <1>2
<1> HIDE DEF m
<1>4. /\ m(n) \div 2 \in Nat /\ m(MaxRetries) \div 2 \in Nat
      /\ m(n) \div 2 <= m(MaxRetries) \div 2
  BY <1>3
<1>5. /\ RetryDelay * (m(n) \div 2) <= RetryDelay * (m(MaxRetries) \div 2)
      /\ RetryDelay * (m(n) \div 2) \in Nat
      /\ RetryDelay * (m(MaxRetries) \div 2) \in Nat
  BY <1>4, Product, Constants
<1>6. /\ n * FetchTimeout <= MaxRetries * FetchTimeout
      /\ n * FetchTimeout \in Nat /\ MaxRetries * FetchTimeout \in Nat
  BY <1>1, Product, Constants
<1>7. /\ Due(n) = n * FetchTimeout + RetryDelay * (m(n) \div 2)
      /\ Patience = MaxRetries * FetchTimeout
                      + RetryDelay * (m(MaxRetries) \div 2)
  BY DEF Due, Patience, m
<1> HIDE DEF Due, Patience
<1> QED BY <1>5, <1>6, <1>7

LEMMA PatienceType == Patience \in Nat /\ FetchTimeout <= Patience
<1>1. 1 \in 1..MaxRetries
  BY Constants
<1> QED BY <1>1, DueIsPatience, DueFirst

(* Two different runs on the hour are at least an hour apart. *)
LEMMA HoursApart ==
    ASSUME NEW x \in Nat, NEW y \in Nat, x % Hour = 0, y % Hour = 0, x < y
    PROVE  x + Hour <= y
<1>1. PICK i \in Int : x = Hour * i
  BY Constants, SMTT(60)
<1>2. PICK j \in Int : y = Hour * j
  BY Constants, SMTT(60)
<1>3. i < j
  <2>1. SUFFICES ASSUME j <= i PROVE FALSE
    OBVIOUS
  <2>2. i - j \in Nat
    BY <2>1
  <2>3. Hour * (i - j) \in Nat
    BY <2>2, Constants
  <2>4. Hour * (i - j) = Hour * i - Hour * j
    BY Constants
  <2> QED BY <1>1, <1>2, <2>3, <2>4
<1>4. j - (i + 1) \in Nat
  BY <1>3
<1>5. Hour * (j - (i + 1)) \in Nat
  BY <1>4, Constants
<1>6. Hour * (j - (i + 1)) = Hour * j - Hour * i - Hour
  BY Constants, SMTT(60)
<1> QED BY <1>1, <1>2, <1>5, <1>6, Constants

-----------------------------------------------------------------------------
(* What a step that takes no time does to the shared state.                *)

(* The provider may turn, a store may fail, the job may add rows. *)
SameTime ==
    /\ now' = now
    /\ (up' = up /\ since' = since) \/ since' = now
    /\ fault' \in {fault, now}
    /\ snapshots \subseteq snapshots'
    /\ \A s \in snapshots' \ snapshots : s.at = now

(* A step that only call c takes. *)
OthersKeep(c) ==
    \A d \in Calls \ {c} :
        /\ pc'[d] = pc[d] /\ query'[d] = query[d] /\ asked'[d] = asked[d]
        /\ attempt'[d] = attempt[d] /\ wake'[d] = wake[d]
        /\ rates'[d] = rates[d] /\ reply'[d] = reply[d]

(* TypeOK of the calls, and of what they share. *)
LocalTypes ==
    /\ pc \in [Calls -> Labels]
    /\ query \in [Calls -> Queries \cup {CaptureQuery, None}]
    /\ asked \in [Calls -> Times]
    /\ attempt \in [Calls -> 0..MaxRetries]
    /\ wake \in [Calls -> Nat]
    /\ rates \in [Calls -> Tables \cup {None}]
    /\ reply \in [Calls -> [code: Codes, table: Tables \cup {None}]
                            \cup {None}]

SharedTypes ==
    /\ {now, since} \subseteq Times
    /\ up \in BOOLEAN
    /\ {fault, lastRun} \subseteq Times \cup {None}
    /\ cache \in [Currencies -> Entries \cup {None}]
    /\ snapshots \subseteq SnapshotRows

(* IInv of the calls, and of the clock and the faults. *)
CallsOK == LocalTypes /\ \A c \in Calls : CallOK(c)

ClockOK == since <= now /\ (fault # None => fault <= now)

EntriesOK == \A b \in Currencies : EntryOK(b)

LEMMA Parts ==
    IInv <=> SharedTypes /\ ClockOK /\ CallsOK /\ EntriesOK /\ SnapshotsOK
BY DEF IInv, TypeOK, SharedTypes, LocalTypes, ClockOK, CallsOK, EntriesOK

LEMMA PartsNext ==
    IInv' <=> SharedTypes' /\ ClockOK' /\ CallsOK' /\ EntriesOK' /\ SnapshotsOK'
BY DEF IInv, TypeOK, SharedTypes, LocalTypes, ClockOK, CallsOK, EntriesOK

LEMMA TableType ==
    ASSUME NEW table \in Tables
    PROVE  /\ table.base \in Currencies
           /\ table.source \in {"api", "snapshot"}
           /\ DOMAIN table.quotes \subseteq Currencies
           /\ \A q \in DOMAIN table.quotes :
                table.quotes[q] \in Times /\ table.quotes[q] \in Nat
           /\ Lifetime(table) \in Nat
<1>1. PICK S \in SUBSET Currencies : table.quotes \in [S -> Times]
  BY DEF Tables
<1>2. /\ DOMAIN table.quotes = S
      /\ \A q \in S : table.quotes[q] \in Times
  BY <1>1
<1>3. Times \subseteq Nat
  BY DEF Times
<1>4. table.base \in Currencies /\ table.source \in {"api", "snapshot"}
  BY DEF Tables
<1> QED BY <1>2, <1>3, <1>4, Constants DEF Lifetime

LEMMA QueryType ==
    ASSUME NEW c \in Calls, LocalTypes, QueryOK(c), pc[c] # "idle"
    PROVE  /\ query[c].base \in Currencies
           /\ query[c].kind \in {"rate", "list", "capture"}
           /\ query[c].kind = "capture" <=> c = Cron
           /\ query[c] \in Queries \cup {CaptureQuery}
           /\ c = Cron => query[c].base = Home
<1>1. \A q \in Queries : q.base \in Currencies /\ q.kind \in {"rate", "list"}
  BY ConstantsOK DEF RateQueries, ListQuery
<1> QED BY <1>1, ConstantsOK DEF QueryOK, CaptureQuery

LEMMA CauseKept ==
    ASSUME SharedTypes, ClockOK, SameTime, NEW t \in Int, t <= now, Cause(t)
    PROVE  Cause(t)'
BY Constants DEF SharedTypes, ClockOK, SameTime, Cause, Times

LEMMA AnswerableKept ==
    ASSUME SharedTypes, SameTime, NEW table \in Tables, Answerable(table)
    PROVE  Answerable(table)'
<1>1. QuotedSince(table, now - TTL - FetchTimeout + 1)
        <=> QuotedSince(table, now - TTL - FetchTimeout + 1)'
  BY DEF SameTime, QuotedSince
<1>2. ASSUME LastingFallbacks, Recent PROVE Recent'
  BY <1>2, Constants
     DEF SharedTypes, SameTime, Recent, Times, LastingFallbacks
<1> QED BY <1>1, <1>2 DEF Answerable

(* A fallback may be answered in the tick it was read in. *)
LEMMA CauseIsRecent ==
    ASSUME SharedTypes, NEW t \in Int, Cause(t), now < t + TTL \div 2,
           LastingFallbacks
    PROVE  Recent
BY Constants DEF SharedTypes, Cause, Recent, Times, LastingFallbacks

LEMMA TableKept ==
    ASSUME SameTime, NEW table, NEW b, TableOK(table, b)
    PROVE  TableOK(table, b)'
BY DEF SameTime, TableOK

(* The other calls do not notice. *)
LEMMA OthersKept ==
    ASSUME SharedTypes, ClockOK, SameTime, NEW c \in Calls, CallOK(c), LocalTypes,
           pc'[c] = pc[c], query'[c] = query[c], asked'[c] = asked[c],
           attempt'[c] = attempt[c], wake'[c] = wake[c],
           rates'[c] = rates[c], reply'[c] = reply[c]
    PROVE  CallOK(c)'
<1> USE DEF CallOK
<1>0. now \in Nat
  BY DEF SharedTypes, Times
<1>1. QueryOK(c)'
  BY DEF QueryOK
<1>2. TimesOK(c)'
  BY DEF TimesOK, Busy, SameTime, Due, Patience
<1>3. HeldOK(c)'
  <2>1. pc[c] \in Holding => TableOK(rates[c], query[c].base)'
    BY TableKept DEF HeldOK
  <2>2. pc[c] \in {"fallback", "keep"} => Cause(now)'
    <3>1. SUFFICES ASSUME Cause(now) PROVE Cause(now)'
      BY DEF HeldOK
    <3> QED BY <1>0, <3>1, Constants
            DEF SharedTypes, ClockOK, SameTime, Cause, Times
  <2>3. pc[c] = "save" => Answerable(rates[c])'
    <3>1. SUFFICES ASSUME pc[c] = "save" PROVE Answerable(rates[c])'
      OBVIOUS
    <3>2. PICK table \in Tables : table = rates[c]
      BY <3>1 DEF HeldOK, Holding, TableOK
    <3>3. Answerable(table)'
      BY <3>1, <3>2, AnswerableKept DEF HeldOK
    <3> QED BY <3>2, <3>3 DEF Answerable, QuotedSince
  <2> QED BY <2>1, <2>2, <2>3 DEF HeldOK, QuotedSince, SameTime
<1>4. ReplyOK(c)'
  <2>1. SUFFICES ASSUME reply[c] # None PROVE ReplyOK(c)'
    BY DEF ReplyOK
  <2>2. ASSUME reply[c].code = "OK"
        PROVE  /\ TableOK(reply[c].table, query[c].base)'
               /\ Answerable(reply[c].table)'
    <3>1. TableOK(reply[c].table, query[c].base) /\ Answerable(reply[c].table)
      BY <2>1, <2>2 DEF ReplyOK
    <3>2. PICK table \in Tables : table = reply[c].table
      BY <3>1 DEF TableOK
    <3>3. Answerable(table)'
      BY <3>1, <3>2, AnswerableKept
    <3>4. PICK b : b = query[c].base
      OBVIOUS
    <3>5. TableOK(table, b)'
      BY <3>1, <3>2, <3>4, TableKept
    <3> QED BY <3>2, <3>3, <3>4, <3>5 DEF Answerable, QuotedSince, TableOK
  <2>3. ASSUME reply[c].code = "Unavailable", query[c].base = Home
        PROVE  fault' = now' \/ \A s \in snapshots' : s.at >= now'
    BY <1>0, <2>1, <2>3 DEF ReplyOK, SameTime
  <2> QED BY <2>1, <2>2, <2>3 DEF ReplyOK
<1> QED BY <1>1, <1>2, <1>3, <1>4

-----------------------------------------------------------------------------
(* What an answer, a delivery and a new attempt make of a call.            *)

LEMMA PatienceAtMost ==
    ASSUME NEW c \in Calls, SharedTypes, LocalTypes, TimesOK(c),
           pc[c] \in {"fetch", "backoff"}
    PROVE  Due(attempt[c]) \in Nat /\ Due(attempt[c]) <= Patience
<1>1. attempt[c] \in 1..MaxRetries
  BY Constants DEF TimesOK
<1> QED BY <1>1, DueIsPatience

LEMMA Replied ==
    ASSUME SharedTypes, ClockOK, CallsOK, SameTime, NEW c \in Calls,
           pc[c] \notin {"idle", "done"},
           NEW code \in Codes, NEW table \in Tables \cup {None},
           code = "OK" =>
             TableOK(table, query[c].base) /\ Answerable(table)',
           code = "Unavailable" /\ query[c].base = Home =>
             fault' = now \/ \A s \in snapshots' : s.at >= now,
           Answer(c, code, table)
    PROVE  CallsOK' /\ (pc[Cron] = "done" => pc'[Cron] = "done")
<1>1. LocalTypes'
  BY Constants DEF Answer, Goto, CallsOK, LocalTypes, Labels
<1>2. ASSUME NEW d \in Calls, d # c PROVE CallOK(d)'
  <2>1. /\ pc'[d] = pc[d] /\ query'[d] = query[d] /\ asked'[d] = asked[d]
        /\ attempt'[d] = attempt[d] /\ wake'[d] = wake[d]
        /\ rates'[d] = rates[d] /\ reply'[d] = reply[d]
    BY <1>2 DEF Answer, Goto, CallsOK, LocalTypes
  <2> QED BY <2>1, OthersKept DEF CallsOK
<1>3. CallOK(c)'
  <2>1. /\ pc'[c] = "done" /\ query'[c] = query[c]
        /\ reply'[c] = [code |-> code, table |-> table]
    BY DEF Answer, Goto, CallsOK, LocalTypes
  <2>2. QueryOK(c)'
    BY <2>1 DEF CallsOK, CallOK, QueryOK
  <2>3. TimesOK(c)' /\ HeldOK(c)'
    BY <2>1 DEF TimesOK, HeldOK, Busy, Holding
  <2>4. ReplyOK(c)'
    <3>1. ASSUME code = "OK" PROVE TableOK(reply[c].table, query[c].base)'
      BY <2>1, <3>1 DEF TableOK, SameTime
    <3>2. ASSUME code = "OK" PROVE Answerable(reply[c].table)'
      BY <2>1, <3>2 DEF Answerable, QuotedSince
    <3> QED BY <2>1, <3>1, <3>2 DEF ReplyOK, SameTime
  <2> QED BY <2>2, <2>3, <2>4 DEF CallOK
<1>4. pc[Cron] = "done" => pc'[Cron] = "done"
  BY DEF Answer, Goto, CallsOK, LocalTypes, Calls
<1> QED BY <1>1, <1>2, <1>3, <1>4 DEF CallsOK

(* A delivery answers, or hands the job its table. *)
LEMMA Delivered ==
    ASSUME SharedTypes, ClockOK, CallsOK, SameTime, NEW c \in Calls,
           pc[c] \notin {"idle", "done"}, NEW table \in Tables,
           TableOK(table, query[c].base), Answerable(table)',
           Deliver(c, table)
    PROVE  CallsOK' /\ (pc[Cron] = "done" => pc'[Cron] = "done")
<1>0. QueryOK(c) /\ LocalTypes
  BY DEF CallsOK, CallOK
<1>1. CASE Fail(c, "BadRequest")
  BY <1>1, Replied DEF Fail, Codes
<1>2. CASE Answer(c, "OK", table)
  BY <1>2, Replied DEF Codes
<1>3. CASE /\ query[c].kind = "capture"
           /\ rates' = [rates EXCEPT ![c] = table]
           /\ Goto(c, "save")
           /\ UNCHANGED <<query, asked, attempt, wake, reply>>
  <2>1. LocalTypes'
    BY <1>3 DEF Goto, CallsOK, LocalTypes, Labels
  <2>2. ASSUME NEW d \in Calls, d # c PROVE CallOK(d)'
    <3>1. /\ pc'[d] = pc[d] /\ query'[d] = query[d] /\ asked'[d] = asked[d]
          /\ attempt'[d] = attempt[d] /\ wake'[d] = wake[d]
          /\ rates'[d] = rates[d] /\ reply'[d] = reply[d]
      BY <1>3, <2>2 DEF Goto, CallsOK, LocalTypes
    <3> QED BY <3>1, OthersKept DEF CallsOK
  <2>3. /\ pc'[c] = "save" /\ rates'[c] = table
        /\ query'[c] = query[c] /\ asked'[c] = asked[c] /\ reply'[c] = reply[c]
    BY <1>3 DEF Goto, CallsOK, LocalTypes
  <2>4. QueryOK(c)'
    BY <1>0, <1>3, <2>3, QueryType DEF QueryOK
  <2>5. TimesOK(c)'
    BY <2>3 DEF CallsOK, CallOK, TimesOK, Busy, SameTime, Patience
  <2>6. HeldOK(c)'
    <3>1. TableOK(rates[c], query[c].base)'
      BY <2>3 DEF TableOK, SameTime
    <3>2. Answerable(rates[c])'
      BY <2>3 DEF Answerable, QuotedSince
    <3> QED BY <2>3, <3>1, <3>2 DEF HeldOK
  <2>7. ReplyOK(c)'
    BY <2>3 DEF CallsOK, CallOK, QueryOK, ReplyOK
  <2>8. pc[Cron] = "done" => pc'[Cron] = "done"
    BY <1>3 DEF Goto, CallsOK, LocalTypes, Calls
  <2> QED BY <2>1, <2>2, <2>4, <2>5, <2>6, <2>7, <2>8 DEF CallsOK, CallOK
<1> QED BY <1>1, <1>2, <1>3 DEF Deliver

(* The first attempt starts when the call was made, each further one when  *)
(* the delay after the one before is over.                                 *)
LEMMA Started ==
    ASSUME SharedTypes, ClockOK, CallsOK, SameTime, NEW c \in Calls,
           pc[c] \in {"lookup", "backoff"}, NEW n \in 1..MaxRetries,
           now + FetchTimeout <= asked[c] + Due(n),
           StartAttempt(c, n)
    PROVE  CallsOK' /\ (pc[Cron] = "done" => pc'[Cron] = "done")
<1>0. now \in Nat /\ asked[c] \in Nat /\ Due(n) \in Nat /\ Due(n) <= Patience
      /\ Patience \in Nat
  BY DueIsPatience DEF SharedTypes, CallsOK, LocalTypes, Times
<1>1. LocalTypes'
  BY <1>0, Constants DEF StartAttempt, Goto, CallsOK, LocalTypes, Labels
<1>2. ASSUME NEW d \in Calls, d # c PROVE CallOK(d)'
  <2>1. /\ pc'[d] = pc[d] /\ query'[d] = query[d] /\ asked'[d] = asked[d]
        /\ attempt'[d] = attempt[d] /\ wake'[d] = wake[d]
        /\ rates'[d] = rates[d] /\ reply'[d] = reply[d]
    BY <1>2 DEF StartAttempt, Goto, CallsOK, LocalTypes
  <2> QED BY <2>1, OthersKept DEF CallsOK
<1>3. /\ pc'[c] = "fetch" /\ query'[c] = query[c] /\ asked'[c] = asked[c]
      /\ attempt'[c] = n /\ wake'[c] = now + FetchTimeout
      /\ reply'[c] = reply[c]
  BY DEF StartAttempt, Goto, CallsOK, LocalTypes
<1>4. QueryOK(c)' /\ HeldOK(c)' /\ ReplyOK(c)'
  BY <1>3 DEF CallsOK, CallOK, QueryOK, HeldOK, ReplyOK, Holding
<1>5. TimesOK(c)'
  <2>1. asked[c] <= now /\ now <= asked[c] + Patience
    BY DEF CallsOK, CallOK, TimesOK, Busy
  <2> HIDE DEF Due, Patience
  <2>2. Due(attempt[c])' = Due(n)
    BY <1>3 DEF Due
  <2>3. Patience' = Patience
    BY DEF Patience
  <2> QED BY <1>0, <1>3, <2>1, <2>2, <2>3, Constants DEF TimesOK, Busy, SameTime
<1>6. pc[Cron] = "done" => pc'[Cron] = "done"
  BY DEF StartAttempt, Goto, CallsOK, LocalTypes, Calls
<1> QED BY <1>1, <1>2, <1>4, <1>5, <1>6 DEF CallsOK, CallOK

-----------------------------------------------------------------------------
(* What the steps make of the cache, the rows and the clock.               *)

LEMMA SharedKept ==
    ASSUME SharedTypes, ClockOK, SameTime,
           up' \in BOOLEAN, lastRun' \in {lastRun, now},
           snapshots' \subseteq SnapshotRows,
           cache' \in [Currencies -> Entries \cup {None}]
    PROVE  SharedTypes' /\ ClockOK'
BY Constants DEF SharedTypes, ClockOK, SameTime, Times

LEMMA EntryKept ==
    ASSUME SharedTypes, ClockOK, SameTime, NEW b \in Currencies, EntryOK(b),
           cache'[b] = cache[b]
    PROVE  EntryOK(b)'
<1>1. SUFFICES ASSUME cache[b] # None PROVE EntryOK(b)'
  BY DEF EntryOK
<1>2. PICK entry \in Entries : entry = cache[b]
  BY <1>1 DEF SharedTypes
<1>3. entry.table \in Tables /\ entry.expires \in Nat
  BY <1>2 DEF Entries
<1>4. PICK table \in Tables, t \in Int :
        table = entry.table /\ t = CachedAt(entry)
  BY <1>3, TableType DEF CachedAt
<1>5. TableOK(table, b) => TableOK(table, b)'
  BY TableKept
<1>6. t <= now /\ Cause(t) => Cause(t)'
  BY CauseKept
<1>7. CachedAt(cache[b]) = t /\ CachedAt(cache'[b]) = t
      /\ Lifetime(cache[b].table) = Lifetime(table)
      /\ cache[b].table = table
  BY <1>2, <1>4
<1>8. /\ TableOK(table, b) /\ t <= now
      /\ now <= entry.expires
      /\ now < entry.expires \/ Lifetime(table) = 0
      /\ table.source = "api" =>
             now < entry.expires /\ QuotedSince(table, t - FetchTimeout)
      /\ table.source = "snapshot" /\ now < entry.expires => Cause(t)
  BY <1>1, <1>2, <1>4, <1>7 DEF EntryOK
<1>9. /\ TableOK(table, b)' /\ t <= now'
      /\ now' <= entry.expires
      /\ now' < entry.expires \/ Lifetime(table) = 0
      /\ table.source = "api" =>
             now' < entry.expires /\ QuotedSince(table, t - FetchTimeout)
      /\ table.source = "snapshot" /\ now' < entry.expires => Cause(t)'
  BY <1>5, <1>6, <1>8 DEF SameTime
<1> QED
  BY <1>1, <1>2, <1>4, <1>7, <1>9
     DEF EntryOK, CachedAt, Lifetime, TableOK, QuotedSince, Cause

(* What is cached now is worth a lifetime from now. *)
LEMMA EntryCached ==
    ASSUME SharedTypes, ClockOK, EntriesOK, SameTime, NEW c \in Calls,
           TableOK(rates[c], query[c].base), query[c].base \in Currencies,
           rates[c].source = "api" => QuotedSince(rates[c], now - FetchTimeout),
           rates[c].source = "snapshot" => Cause(now)',
           Cached(c, rates[c])
    PROVE  /\ cache' \in [Currencies -> Entries \cup {None}]
           /\ EntriesOK'
<1>1. PICK table \in Tables : table = rates[c]
  BY DEF TableOK
<1>2. PICK entry : entry = [table |-> table, expires |-> now + Lifetime(table)]
  OBVIOUS
<1>3. /\ now \in Nat /\ Lifetime(table) \in Nat
      /\ entry \in Entries /\ entry.table = table
      /\ entry.expires = now + Lifetime(table)
      /\ entry.expires - Lifetime(table) = now
  BY <1>2, TableType DEF Entries, SharedTypes, Times
<1>4. cache' = [cache EXCEPT ![query[c].base] = entry]
  BY <1>1, <1>2 DEF Cached
<1>5. cache' \in [Currencies -> Entries \cup {None}]
  BY <1>3, <1>4 DEF SharedTypes
<1>6. ASSUME NEW b \in Currencies, b # query[c].base PROVE EntryOK(b)'
  <2>1. cache'[b] = cache[b]
    BY <1>4, <1>6 DEF SharedTypes
  <2> QED BY <2>1, EntryKept DEF EntriesOK
<1>7. ASSUME NEW b \in Currencies, b = query[c].base PROVE EntryOK(b)'
  <2>1. cache'[b] = entry
    BY <1>4, <1>7 DEF SharedTypes
  <2>2. TableOK(entry.table, b)'
    BY <1>1, <1>3, <1>7 DEF TableOK, SameTime
  <2>3. CachedAt(entry) = now /\ now' = now
    BY <1>3 DEF CachedAt, SameTime
  <2>4. /\ now <= entry.expires
        /\ now < entry.expires \/ Lifetime(entry.table) = 0
    BY <1>3
  <2>5. table.source = "api" => now < entry.expires
    BY <1>3, Constants DEF Lifetime
  <2>6. table.source = "snapshot" => Cause(CachedAt(entry))'
    BY <1>1, <2>3 DEF Cause, CachedAt
  <2>7. table.source = "api" =>
          QuotedSince(entry.table, CachedAt(entry) - FetchTimeout)
    BY <1>1, <1>3, <2>3
  <2> QED
    BY <1>3, <2>1, <2>2, <2>3, <2>4, <2>5, <2>6, <2>7
       DEF EntryOK, TableOK, CachedAt, Cause, QuotedSince, Lifetime
<1> QED BY <1>5, <1>6, <1>7 DEF EntriesOK

(* Steps that touch neither table. *)
LEMMA Untouched ==
    ASSUME SharedTypes, ClockOK, EntriesOK, SnapshotsOK, SameTime,
           up' \in BOOLEAN, lastRun' \in {lastRun, now}, UNCHANGED stores,
           pc[Cron] = "done" => pc'[Cron] = "done"
    PROVE  SharedTypes' /\ ClockOK' /\ EntriesOK' /\ SnapshotsOK'
<1>1. SharedTypes' /\ ClockOK'
  BY SharedKept DEF SharedTypes, stores
<1>2. EntriesOK'
  BY EntryKept DEF EntriesOK, stores
<1>3. SnapshotsOK'
  BY DEF SnapshotsOK, SameTime, stores
<1> QED BY <1>1, <1>2, <1>3

-----------------------------------------------------------------------------
(* The steps.                                                              *)

LEMMA InitInv == Init => IInv
<1> SUFFICES ASSUME Init PROVE IInv
  OBVIOUS
<1>1. SharedTypes /\ ClockOK /\ LocalTypes
  BY Constants
     DEF Init, SharedTypes, ClockOK, LocalTypes, Times, Labels
<1>2. ASSUME NEW c \in Calls PROVE CallOK(c)
  BY <1>2
     DEF Init, CallOK, QueryOK, TimesOK, HeldOK, ReplyOK, Busy, Holding
<1>3. EntriesOK
  BY DEF Init, EntriesOK, EntryOK
<1>4. SnapshotsOK
  BY DEF Init, SnapshotsOK
<1> QED BY <1>1, <1>2, <1>3, <1>4, Parts DEF CallsOK

LEMMA BeginInv ==
    ASSUME IInv, NEW c \in Calls, NEW q \in Queries \cup {CaptureQuery},
           IF c = Cron THEN q = CaptureQuery ELSE q \in Queries,
           Begin(c, q), lastRun' \in {lastRun, now}
    PROVE  IInv'
<1> USE Parts
<1>1. SameTime /\ UNCHANGED stores /\ up' \in BOOLEAN
  BY DEF Begin, SameTime, provider, stores, SharedTypes
<1>2. /\ pc'[c] = "lookup" /\ query'[c] = q /\ asked'[c] = now
      /\ reply'[c] = reply[c]
  BY DEF Begin, Goto, CallsOK, LocalTypes
<1>3. LocalTypes'
  BY DEF Begin, Goto, CallsOK, LocalTypes, Labels, SharedTypes
<1>4. ASSUME NEW d \in Calls, d # c PROVE CallOK(d)'
  <2>1. /\ pc'[d] = pc[d] /\ query'[d] = query[d] /\ asked'[d] = asked[d]
        /\ attempt'[d] = attempt[d] /\ wake'[d] = wake[d]
        /\ rates'[d] = rates[d] /\ reply'[d] = reply[d]
    BY <1>4 DEF Begin, Goto, CallsOK, LocalTypes
  <2> QED BY <1>1, <2>1, OthersKept DEF CallsOK
<1>5. CallOK(c)'
  <2>1. reply[c] = None
    BY DEF Begin, CallsOK, CallOK, QueryOK
  <2>2. QueryOK(c)' /\ HeldOK(c)' /\ ReplyOK(c)'
    BY <1>2, <2>1 DEF QueryOK, HeldOK, ReplyOK, Holding
  <2>3. TimesOK(c)'
    <3>1. now \in Nat /\ Patience' = Patience /\ Patience \in Nat
      BY PatienceType DEF SharedTypes, Times, Patience
    <3> QED BY <1>1, <1>2, <3>1 DEF TimesOK, Busy, SameTime
  <2> QED BY <2>2, <2>3 DEF CallOK
<1>6. pc[Cron] = "done" => pc'[Cron] = "done"
  BY DEF Begin, Goto, CallsOK, LocalTypes, Calls
<1> QED BY <1>1, <1>3, <1>4, <1>5, <1>6, Untouched, PartsNext DEF CallsOK

LEMMA HitInv ==
    ASSUME IInv, NEW c \in Calls, Hit(c)
    PROVE  IInv'
<1> USE Parts
<1>1. /\ SameTime /\ UNCHANGED stores /\ up' \in BOOLEAN /\ lastRun' = lastRun
      /\ UNCHANGED <<up, since, fault, now>>
  BY DEF Hit, SameTime, provider, stores, SharedTypes
<1>2. PICK b \in Currencies : b = query[c].base
  BY QueryType DEF Hit, CallsOK, CallOK
<1>3. cache[b] # None /\ cache[b] \in Entries /\ EntryOK(b)
  BY <1>2 DEF Hit, SharedTypes, EntriesOK
<1>4. PICK entry \in Entries : entry = cache[b]
  BY <1>3
<1>5. PICK table \in Tables : table = entry.table
  BY DEF Entries
<1>6. TableOK(table, b)
  BY <1>3, <1>4, <1>5 DEF EntryOK
<1>7. Answerable(table)
  <2>0. now \in Nat /\ entry.expires \in Nat
    BY DEF SharedTypes, Times, Entries
  <2>1. ASSUME table.source = "api"
        PROVE  QuotedSince(table, now - TTL - FetchTimeout + 1)
    <3>1. Lifetime(table) = TTL
      BY <2>1 DEF Lifetime
    <3>2. /\ now < entry.expires
          /\ QuotedSince(table, entry.expires - TTL - FetchTimeout)
      BY <1>3, <1>4, <1>5, <2>1, <3>1 DEF EntryOK, CachedAt
    <3>3. now - TTL - FetchTimeout + 1 <= entry.expires - TTL - FetchTimeout
      BY <2>0, <3>2, Constants
    <3> QED BY <2>0, <3>2, <3>3, TableType, Constants DEF QuotedSince
  <2>2. ASSUME table.source = "snapshot", LastingFallbacks PROVE Recent
    <3>1. Lifetime(table) = TTL \div 2 /\ Lifetime(table) > 0
      BY <2>2 DEF Lifetime, LastingFallbacks
    <3>2. PICK t \in Int : t = CachedAt(entry)
      BY <1>5, <2>0, TableType DEF CachedAt
    <3>3. now < entry.expires /\ Cause(t)
      BY <1>3, <1>4, <1>5, <2>2, <3>1, <3>2, Constants DEF EntryOK
    <3>4. now < t + TTL \div 2
      BY <1>5, <2>0, <3>1, <3>2, <3>3, Constants DEF CachedAt
    <3> QED BY <2>2, <3>3, <3>4, CauseIsRecent
  <2> QED BY <2>1, <2>2 DEF Answerable
<1>8. Answerable(table)'
  BY <1>1, <1>7, AnswerableKept
<1>9. Deliver(c, table) /\ pc[c] = "lookup"
  BY <1>2, <1>4, <1>5 DEF Hit
<1>10. CallsOK' /\ (pc[Cron] = "done" => pc'[Cron] = "done")
  BY <1>1, <1>2, <1>6, <1>8, <1>9, Delivered
<1> QED BY <1>1, <1>10, Untouched, PartsNext

LEMMA LookupInv ==
    ASSUME IInv, NEW c \in Calls, Miss(c) \/ LookupFails(c)
    PROVE  IInv'
<1> USE Parts
<1>1. SameTime /\ UNCHANGED stores /\ up' \in BOOLEAN /\ lastRun' = lastRun
      /\ pc[c] = "lookup"
  BY DEF Miss, LookupFails, SameTime, provider, stores, SharedTypes
<1>2. 1 \in 1..MaxRetries /\ now + FetchTimeout <= asked[c] + Due(1)
  <2>1. now = asked[c] /\ now \in Nat
    BY <1>1 DEF CallsOK, CallOK, TimesOK, SharedTypes, Times
  <2> QED BY <2>1, DueFirst, Constants
<1>3. CASE StartAttempt(c, 1)
  BY <1>1, <1>2, <1>3, Started, Untouched, PartsNext
<1>4. CASE Fail(c, "InternalError")
  BY <1>1, <1>4, Replied, Untouched, PartsNext DEF Fail, Codes
<1> QED BY <1>3, <1>4 DEF Miss, LookupFails

LEMMA AnsweredInv ==
    ASSUME IInv, NEW c \in Calls, FetchAnswered(c)
    PROVE  IInv'
<1> USE Parts
<1>1. SameTime /\ UNCHANGED stores /\ up' \in BOOLEAN /\ lastRun' = lastRun
  BY DEF FetchAnswered, SameTime, provider, stores, SharedTypes
<1>2. PICK t \in QuotedAt(c), S \in QuoteSets :
        rates' = [rates EXCEPT ![c] =
                    [base |-> query[c].base, source |-> "api",
                     quotes |-> [quote \in S |-> t]]]
  BY DEF FetchAnswered
<1>3. query[c].base \in Currencies /\ pc[c] = "fetch"
  BY QueryType DEF FetchAnswered, CallsOK, CallOK
<1>4. t \in Times /\ t <= now /\ now - FetchTimeout <= t
  <2>1. /\ wake[c] \in Nat /\ asked[c] \in Nat /\ now \in Nat /\ now <= MaxTime
        /\ asked[c] + FetchTimeout <= wake[c] /\ now <= wake[c]
    BY <1>3
       DEF CallsOK, CallOK, TimesOK, LocalTypes, SharedTypes, Times
  <2>2. t \in (wake[c] - FetchTimeout)..now
    BY DEF QuotedAt
  <2> QED BY <2>1, <2>2, Constants DEF Times
<1>5. PICK table :
        table = [base |-> query[c].base, source |-> "api",
                 quotes |-> [quote \in S |-> t]]
  OBVIOUS
<1>6. /\ table \in Tables /\ table.base = query[c].base /\ table.source = "api"
      /\ DOMAIN table.quotes = S
      /\ \A q \in S : table.quotes[q] = t
  <2>1. S \in SUBSET Currencies /\ [quote \in S |-> t] \in [S -> Times]
    BY <1>4, ConstantsOK
  <2> QED BY <1>3, <1>5, <2>1 DEF Tables
<1>7. /\ pc'[c] = "store" /\ rates'[c] = table /\ query'[c] = query[c]
      /\ asked'[c] = asked[c] /\ reply'[c] = reply[c]
  BY <1>2, <1>5 DEF FetchAnswered, Goto, CallsOK, LocalTypes
<1>8. LocalTypes'
  <2>1. rates' \in [Calls -> Tables \cup {None}]
    BY <1>2, <1>5, <1>6 DEF CallsOK, LocalTypes
  <2> QED BY <2>1 DEF FetchAnswered, Goto, CallsOK, LocalTypes, Labels
<1>9. ASSUME NEW d \in Calls, d # c PROVE CallOK(d)'
  <2>1. /\ pc'[d] = pc[d] /\ query'[d] = query[d] /\ asked'[d] = asked[d]
        /\ attempt'[d] = attempt[d] /\ wake'[d] = wake[d]
        /\ rates'[d] = rates[d] /\ reply'[d] = reply[d]
    BY <1>2, <1>9 DEF FetchAnswered, Goto, CallsOK, LocalTypes
  <2> QED BY <1>1, <2>1, OthersKept DEF CallsOK
<1>10. CallOK(c)'
  <2>1. QueryOK(c)' /\ ReplyOK(c)'
    BY <1>3, <1>7 DEF CallsOK, CallOK, QueryOK, ReplyOK
  <2>2. TimesOK(c)'
    BY <1>1, <1>3, <1>7
       DEF CallsOK, CallOK, TimesOK, Busy, SameTime, Patience
  <2>3. HeldOK(c)'
    BY <1>1, <1>4, <1>6, <1>7
       DEF HeldOK, TableOK, QuotedSince, SameTime, SharedTypes, Times
  <2> QED BY <2>1, <2>2, <2>3 DEF CallOK
<1>11. pc[Cron] = "done" => pc'[Cron] = "done"
  BY DEF FetchAnswered, Goto, CallsOK, LocalTypes, Calls
<1> QED BY <1>1, <1>8, <1>9, <1>10, <1>11, Untouched, PartsNext DEF CallsOK

LEMMA FetchFailsInv ==
    ASSUME IInv, NEW c \in Calls, FetchFails(c)
    PROVE  IInv'
<1> USE Parts
<1>1. SameTime /\ UNCHANGED stores /\ up' \in BOOLEAN /\ lastRun' = lastRun
      /\ UNCHANGED <<up, since, fault>>
  BY DEF FetchFails, SameTime, provider, stores, SharedTypes
<1>2. /\ pc[c] = "fetch" /\ attempt[c] \in 1..MaxRetries
      /\ asked[c] + FetchTimeout <= wake[c]
      /\ wake[c] <= asked[c] + Due(attempt[c])
      /\ now <= wake[c] /\ asked[c] <= now
      /\ wake[c] \in Nat /\ asked[c] \in Nat /\ now \in Nat
  BY DEF FetchFails, CallsOK, CallOK, TimesOK, Busy, LocalTypes,
         SharedTypes, Times
<1>3. /\ query' = query /\ asked' = asked /\ attempt' = attempt
      /\ rates' = rates /\ reply' = reply
  BY DEF FetchFails
<1>4. PICK l \in {"backoff", "fallback"} : pc' = [pc EXCEPT ![c] = l]
  BY DEF FetchFails, Goto
<1>5. RetryDelay * attempt[c] \in Nat
  BY <1>2, Constants
<1>6. LocalTypes'
  <2>1. wake' \in [Calls -> Nat]
    BY <1>2, <1>5 DEF FetchFails, CallsOK, LocalTypes
  <2> QED BY <1>3, <1>4, <2>1 DEF CallsOK, LocalTypes, Labels
<1>7. ASSUME NEW d \in Calls, d # c PROVE CallOK(d)'
  <2>1. /\ pc'[d] = pc[d] /\ query'[d] = query[d] /\ asked'[d] = asked[d]
        /\ attempt'[d] = attempt[d] /\ wake'[d] = wake[d]
        /\ rates'[d] = rates[d] /\ reply'[d] = reply[d]
    BY <1>3, <1>4, <1>7 DEF FetchFails, CallsOK, LocalTypes
  <2> QED BY <1>1, <2>1, OthersKept DEF CallsOK
<1>8. CallOK(c)'
  <2>1. pc'[c] = l
    BY <1>4 DEF CallsOK, LocalTypes
  <2>2. QueryOK(c)' /\ ReplyOK(c)'
    BY <1>2, <1>3, <2>1 DEF CallsOK, CallOK, QueryOK, ReplyOK
  <2>3. Cause(now)'
    BY <1>1, <1>2, Constants
       DEF FetchFails, Cause, SameTime, SharedTypes, Times
  <2>4. HeldOK(c)'
    BY <2>1, <2>3 DEF HeldOK, Holding
  <2>5. now <= asked[c] + Patience
    BY <1>2 DEF CallsOK, CallOK, TimesOK, Busy
  <2>6. l = "backoff" =>
          /\ attempt[c] < MaxRetries
          /\ wake'[c] = now + RetryDelay * attempt[c]
    BY <1>4, <2>1 DEF FetchFails, AttemptsLeft, Goto, CallsOK, LocalTypes
  <2>7. TimesOK(c)'
    <3>1. Due(attempt[c])' = Due(attempt[c]) /\ Patience' = Patience
      BY <1>3 DEF Due, Patience
    <3>2. Due(attempt[c]) \in Nat /\ Patience \in Nat
      BY <1>2, DueIsPatience
    <3>3. Busy(c)' => asked'[c] <= now' /\ now' <= asked'[c] + Patience
      BY <1>1, <1>2, <1>3, <2>5 DEF SameTime
    <3>4. l = "backoff" =>
            /\ attempt[c] \in 1..(MaxRetries - 1)
            /\ wake'[c] <= asked[c] + Due(attempt[c]) + RetryDelay * attempt[c]
            /\ now <= wake'[c]
      BY <1>2, <1>5, <2>6, <3>2, Constants
    <3> QED BY <1>1, <1>3, <2>1, <3>1, <3>3, <3>4 DEF TimesOK, SameTime
  <2> QED BY <2>2, <2>4, <2>7 DEF CallOK
<1>9. pc[Cron] = "done" => pc'[Cron] = "done"
  BY <1>2, <1>4 DEF CallsOK, LocalTypes, Calls
<1> QED BY <1>1, <1>6, <1>7, <1>8, <1>9, Untouched, PartsNext DEF CallsOK

LEMMA RetryInv ==
    ASSUME IInv, NEW c \in Calls, Retry(c)
    PROVE  IInv'
<1> USE Parts
<1>1. SameTime /\ UNCHANGED stores /\ up' \in BOOLEAN /\ lastRun' = lastRun
  BY DEF Retry, SameTime, provider, stores, SharedTypes
<1>2. /\ pc[c] = "backoff" /\ attempt[c] \in 1..(MaxRetries - 1)
      /\ wake[c] <= asked[c] + Due(attempt[c]) + RetryDelay * attempt[c]
      /\ now = wake[c]
      /\ asked[c] \in Nat /\ now \in Nat
  <2>1. pc[c] = "backoff" /\ now >= wake[c] /\ TimesOK(c)
    BY DEF Retry, CallsOK, CallOK
  <2>2. wake[c] \in Nat /\ asked[c] \in Nat /\ now \in Nat
    BY DEF CallsOK, LocalTypes, SharedTypes, Times
  <2> QED BY <2>1, <2>2 DEF TimesOK
<1>3. attempt[c] \in Nat \ {0} /\ attempt[c] + 1 \in 1..MaxRetries
  BY <1>2, Constants
<1>4. /\ Due(attempt[c] + 1)
           = Due(attempt[c]) + RetryDelay * attempt[c] + FetchTimeout
      /\ Due(attempt[c]) \in Nat /\ RetryDelay * attempt[c] \in Nat
  BY <1>3, DueStep, Constants
<1>5. now + FetchTimeout <= asked[c] + Due(attempt[c] + 1)
  BY <1>2, <1>4, Constants
<1> QED
  BY <1>1, <1>2, <1>3, <1>5, Started, Untouched, PartsNext DEF Retry

(* What is stored can be answered. *)
LEMMA HeldIsAnswerable ==
    ASSUME IInv, NEW c \in Calls, pc[c] \in {"store", "keep"}
    PROVE  /\ rates[c] \in Tables /\ TableOK(rates[c], query[c].base)
           /\ query[c].base \in Currencies
           /\ Answerable(rates[c])
           /\ rates[c].source = "api" =>
                QuotedSince(rates[c], now - FetchTimeout)
           /\ rates[c].source = "snapshot" => Cause(now)
<1> USE Parts
<1>1. HeldOK(c) /\ query[c].base \in Currencies
  BY QueryType DEF CallsOK, CallOK
<1>2. TableOK(rates[c], query[c].base)
  BY <1>1 DEF HeldOK, Holding
<1>3. PICK table \in Tables : table = rates[c]
  BY <1>2 DEF TableOK
<1>4. now \in Nat
  BY DEF SharedTypes, Times
<1>5. ASSUME table.source = "api"
      PROVE  /\ QuotedSince(table, now - FetchTimeout)
             /\ QuotedSince(table, now - TTL - FetchTimeout + 1)
  <2>1. QuotedSince(table, now - FetchTimeout)
    BY <1>1, <1>3, <1>5 DEF HeldOK
  <2> QED BY <1>4, <2>1, TableType, Constants DEF QuotedSince
<1>6. ASSUME table.source = "snapshot"
      PROVE  Cause(now) /\ (LastingFallbacks => Recent)
  <2>1. Cause(now)
    BY <1>1, <1>3, <1>6 DEF HeldOK
  <2>2. PICK t \in Int : t = now
    BY <1>4
  <2>3. LastingFallbacks => now < t + TTL \div 2
    BY <1>4, <2>2, Constants DEF LastingFallbacks
  <2> QED BY <2>1, <2>2, <2>3, CauseIsRecent
<1> QED BY <1>1, <1>2, <1>3, <1>5, <1>6 DEF Answerable

(* Store and Keep, and the failures after which the table is answered. *)
LEMMA CachedInv ==
    ASSUME IInv, NEW c \in Calls, SameTime, UNCHANGED <<snapshots, up, lastRun>>,
           pc[c] \in {"store", "keep"},
           Cached(c, rates[c]) \/ UNCHANGED cache
    PROVE  /\ SharedTypes' /\ ClockOK' /\ EntriesOK'
           /\ pc'[Cron] = "done" \/ pc[Cron] # "done" => SnapshotsOK'
<1> USE Parts
<1>1. /\ rates[c] \in Tables /\ TableOK(rates[c], query[c].base)
      /\ query[c].base \in Currencies
      /\ rates[c].source = "api" => QuotedSince(rates[c], now - FetchTimeout)
      /\ rates[c].source = "snapshot" => Cause(now)
  BY HeldIsAnswerable
<1>2. Cause(now) => Cause(now)'
  BY Constants DEF SharedTypes, ClockOK, SameTime, Cause, Times
<1>3. cache' \in [Currencies -> Entries \cup {None}] /\ EntriesOK'
  <2>1. CASE Cached(c, rates[c])
    BY <1>1, <1>2, <2>1, EntryCached
  <2>2. CASE UNCHANGED cache
    BY <2>2, EntryKept DEF EntriesOK, SharedTypes
  <2> QED BY <2>1, <2>2
<1>4. SharedTypes' /\ ClockOK'
  BY <1>3, SharedKept DEF SharedTypes
<1>5. pc'[Cron] = "done" \/ pc[Cron] # "done" => SnapshotsOK'
  BY DEF SnapshotsOK, SameTime
<1> QED BY <1>3, <1>4, <1>5

LEMMA DeliveredInv ==
    ASSUME IInv, NEW c \in Calls, SameTime, UNCHANGED <<snapshots, up, lastRun>>,
           pc[c] \in {"store", "keep"},
           Cached(c, rates[c]) \/ UNCHANGED cache,
           Deliver(c, rates[c])
    PROVE  IInv'
<1> USE Parts
<1>1. PICK table \in Tables : table = rates[c]
  BY HeldIsAnswerable
<1>2. TableOK(table, query[c].base) /\ Answerable(table)
  BY <1>1, HeldIsAnswerable
<1>3. Answerable(table)' /\ Deliver(c, table)
  BY <1>1, <1>2, AnswerableKept
<1>4. CallsOK' /\ (pc[Cron] = "done" => pc'[Cron] = "done")
  BY <1>2, <1>3, Delivered
<1> QED BY <1>4, CachedInv, PartsNext

LEMMA StoreInv ==
    ASSUME IInv, NEW c \in Calls, Store(c) \/ StoreFails(c)
    PROVE  IInv'
<1> USE Parts
<1>1. /\ SameTime /\ UNCHANGED <<snapshots, up, lastRun>> /\ pc[c] = "store"
      /\ Cached(c, rates[c]) \/ UNCHANGED cache
  BY DEF Store, StoreFails, WriteFails, SameTime, provider
<1>2. CASE Deliver(c, rates[c])
  BY <1>1, <1>2, DeliveredInv
<1>3. CASE /\ fault' = now
           /\ Goto(c, "fallback")
           /\ rates' = [rates EXCEPT ![c] = None]
           /\ UNCHANGED <<query, asked, attempt, wake, reply>>
  <2>1. LocalTypes'
    BY <1>3 DEF Goto, CallsOK, LocalTypes, Labels
  <2>2. ASSUME NEW d \in Calls, d # c PROVE CallOK(d)'
    <3>1. /\ pc'[d] = pc[d] /\ query'[d] = query[d] /\ asked'[d] = asked[d]
          /\ attempt'[d] = attempt[d] /\ wake'[d] = wake[d]
          /\ rates'[d] = rates[d] /\ reply'[d] = reply[d]
      BY <1>3, <2>2 DEF Goto, CallsOK, LocalTypes
    <3> QED BY <1>1, <3>1, OthersKept DEF CallsOK
  <2>3. /\ pc'[c] = "fallback" /\ query'[c] = query[c]
        /\ asked'[c] = asked[c] /\ reply'[c] = reply[c]
    BY <1>3 DEF Goto, CallsOK, LocalTypes
  <2>4. QueryOK(c)' /\ ReplyOK(c)'
    BY <1>1, <2>3 DEF CallsOK, CallOK, QueryOK, ReplyOK
  <2>5. TimesOK(c)'
    BY <1>1, <2>3 DEF CallsOK, CallOK, TimesOK, Busy, SameTime, Patience
  <2>6. HeldOK(c)'
    <3>1. Cause(now)'
      BY <1>1, <1>3, Constants DEF Cause, SameTime, SharedTypes, Times
    <3> QED BY <2>3, <3>1 DEF HeldOK, Holding
  <2>7. pc[Cron] = "done" => pc'[Cron] = "done"
    BY <1>1, <1>3 DEF Goto, CallsOK, LocalTypes, Calls
  <2> QED
    BY <1>1, <2>1, <2>2, <2>4, <2>5, <2>6, <2>7, CachedInv, PartsNext
       DEF CallsOK, CallOK
<1> QED BY <1>2, <1>3 DEF Store, StoreFails, WriteFails

LEMMA KeepInv ==
    ASSUME IInv, NEW c \in Calls, Keep(c) \/ KeepFails(c)
    PROVE  IInv'
<1> USE Parts
<1>1. /\ SameTime /\ UNCHANGED <<snapshots, up, lastRun>> /\ pc[c] = "keep"
      /\ Cached(c, rates[c]) \/ UNCHANGED cache
  BY DEF Keep, KeepFails, WriteFails, SameTime, provider
<1>2. CASE Deliver(c, rates[c])
  BY <1>1, <1>2, DeliveredInv
<1>3. CASE Fail(c, "InternalError")
  <2>1. CallsOK' /\ (pc[Cron] = "done" => pc'[Cron] = "done")
    BY <1>1, <1>3, Replied DEF Fail, Codes
  <2> QED BY <1>1, <2>1, CachedInv, PartsNext
<1> QED BY <1>2, <1>3 DEF Keep, KeepFails

-----------------------------------------------------------------------------
(* The rows of the newest capture.                                         *)

LEMMA Latest ==
    ASSUME NEW A \in SUBSET Times, A # {}
    PROVE  \E x \in A : \A y \in A : y <= x
<1> DEFINE after(x) == {y \in A : y > x}
           R == StrictSubsetOrdering(A)
           T == {after(x) : x \in A}
<1>1. IsFiniteSet(A) /\ A \subseteq Nat
  <2>1. MaxTime \in Int /\ 0 \in Int
    BY Constants
  <2>2. IsFiniteSet(Times)
    BY <2>1, FS_Interval DEF Times
  <2>3. IsFiniteSet(A)
    BY <2>2, FS_Subset
  <2>4. Times \subseteq Nat
    BY DEF Times
  <2> QED BY <2>3, <2>4
<1>2. IsWellFoundedOn(R, FiniteSubsetsOf(A))
  BY FS_StrictSubsetOrderingWellFounded
<1>3. T \subseteq FiniteSubsetsOf(A) /\ T # {}
  <2>1. FiniteSubsetsOf(A) = SUBSET A
    BY <1>1, FS_FiniteSubsetsOfFinite
  <2>2. \A x \in A : after(x) \in SUBSET A
    OBVIOUS
  <2>3. T \subseteq SUBSET A /\ T # {}
    <3> HIDE DEF after
    <3> QED BY <2>2
  <2> QED BY <2>1, <2>3
<1>4. \E X \in T : \A Y \in T : ~ (<<Y, X>> \in R)
  <2> HIDE DEF R, T
  <2> QED BY <1>2, <1>3, WFMin
<1>5. PICK x \in A : \A Y \in T : ~ (<<Y, after(x)>> \in R)
  BY <1>4
<1>6. ASSUME NEW y \in A PROVE y <= x
  <2>1. SUFFICES ASSUME y > x PROVE FALSE
    BY <1>1
  <2>2. /\ \A z \in A : z > y => z > x
        /\ ~ (y > y)
    BY <1>1, <2>1
  <2>3. after(y) \subseteq after(x) /\ y \in after(x) /\ y \notin after(y)
    BY <2>1, <2>2
  <2>4. <<after(y), after(x)>> \in R
    BY <2>3 DEF StrictSubsetOrdering
  <2> QED BY <1>5, <2>4
<1> QED BY <1>6

(* A base with rows has a newest capture. *)
LEMMA NewestCapture ==
    ASSUME SharedTypes, NEW b, StoredFor(b) # {}
    PROVE  FallbackRows(b) # {}
<1> DEFINE A == {s.at : s \in StoredFor(b)}
<1>1. A \in SUBSET Times /\ A # {}
  BY DEF SharedTypes, SnapshotRows, StoredFor
<1>2. PICK x \in A : \A y \in A : y <= x
  BY <1>1, Latest
<1>3. PICK s \in StoredFor(b) : s.at = x
  OBVIOUS
<1>4. \A t \in StoredFor(b) : t.at <= s.at
  BY <1>2, <1>3
<1> QED BY <1>3, <1>4 DEF FallbackRows

(* What fallbackToSnapshot returns. *)
FallbackTable(b) ==
    [base |-> b, source |-> "snapshot",
     quotes |-> [quote \in {s.quote : s \in FallbackRows(b)} |->
                   (CHOOSE s \in FallbackRows(b) : s.quote = quote).rate]]

(* It is of one capture. *)
LEMMA FallbackTableOK ==
    ASSUME IInv, NEW b \in Currencies, FallbackRows(b) # {}
    PROVE  /\ TableOK(FallbackTable(b), b)
           /\ FallbackTable(b).source = "snapshot"
           /\ \A q \in DOMAIN FallbackTable(b).quotes :
                \E s \in FallbackRows(b) : FallbackTable(b).quotes[q] = s.rate
<1> USE Parts
<1> DEFINE rows == FallbackRows(b)
           D == {s.quote : s \in rows}
<1>1. rows \subseteq snapshots /\ rows \subseteq SnapshotRows
      /\ \A s, t \in rows : s.at <= t.at
  BY DEF FallbackRows, StoredFor, SharedTypes
<1>2. /\ \A s \in rows : s.quote \in Currencies /\ s.rate \in Times
      /\ \A s \in rows : s.rate <= now
      /\ \A s, t \in rows : s.rate = t.rate
  <2>1. \A s \in rows : /\ s.quote \in Currencies /\ s.rate \in Times
                        /\ s.at \in Nat /\ s.rate \in Nat
    BY <1>1 DEF SnapshotRows, Times
  <2>2. \A s \in rows : s.rate <= now
    BY <1>1, <2>1 DEF SnapshotsOK, SharedTypes, Times
  <2>3. \A s, t \in rows : s.at = t.at
    BY <1>1, <2>1
  <2> QED BY <1>1, <2>1, <2>2, <2>3 DEF SnapshotsOK
<1> DEFINE f == [quote \in D |-> (CHOOSE s \in rows : s.quote = quote).rate]
<1>3. \A q \in D : \E s \in rows : f[q] = s.rate
  OBVIOUS
<1>4. D \in SUBSET Currencies
  BY <1>2
<1>5. f \in [D -> Times] /\ DOMAIN f = D
  BY <1>2, <1>3
<1>6. FallbackTable(b) = [base |-> b, source |-> "snapshot", quotes |-> f]
  BY DEF FallbackTable
<1> HIDE DEF f, D
<1>7. FallbackTable(b) \in Tables
  <2>1. f \in UNION {[S -> Times] : S \in SUBSET Currencies}
    BY <1>4, <1>5
  <2> QED BY <1>6, <2>1 DEF Tables
<1>8. TableOK(FallbackTable(b), b)
  BY <1>2, <1>3, <1>5, <1>6, <1>7 DEF TableOK
<1> QED BY <1>3, <1>5, <1>6, <1>8

LEMMA FallbackInv ==
    ASSUME IInv, NEW c \in Calls, Fallback(c) \/ FallbackFails(c)
    PROVE  IInv'
<1> USE Parts
<1>1. SameTime /\ UNCHANGED stores /\ up' \in BOOLEAN /\ lastRun' = lastRun
      /\ pc[c] = "fallback"
  BY DEF Fallback, FallbackFails, SameTime, provider, stores, SharedTypes
<1>2. PICK b \in Currencies : b = query[c].base
  BY <1>1, QueryType DEF CallsOK, CallOK
<1>3. CASE FallbackRows(b) = {} /\ Fail(c, "Unavailable")
  <2>1. b = Home => \A s \in snapshots : s.at >= now
    BY <1>3, NewestCapture DEF SnapshotsOK, StoredFor
  <2> QED
    BY <1>1, <1>2, <1>3, <2>1, Replied, Untouched, PartsNext
       DEF Fail, Codes, stores
<1>4. CASE fault' = now /\ Fail(c, "Unavailable")
  BY <1>1, <1>4, Replied, Untouched, PartsNext DEF Fail, Codes
<1>5. CASE /\ Fallback(c) /\ FallbackRows(b) # {}
  <2>1. PICK table : table = FallbackTable(b)
    OBVIOUS
  <2>2. /\ rates' = [rates EXCEPT ![c] = table]
        /\ Goto(c, "keep")
        /\ UNCHANGED <<query, asked, attempt, wake, reply, up, since, fault>>
    BY <1>2, <1>5, <2>1 DEF Fallback, FallbackTable, provider
  <2>3. table \in Tables /\ TableOK(table, b) /\ table.source = "snapshot"
    BY <1>5, <2>1, FallbackTableOK DEF TableOK
  <2>4. LocalTypes'
    BY <2>2, <2>3 DEF Goto, CallsOK, LocalTypes, Labels
  <2>5. ASSUME NEW d \in Calls, d # c PROVE CallOK(d)'
    <3>1. /\ pc'[d] = pc[d] /\ query'[d] = query[d] /\ asked'[d] = asked[d]
          /\ attempt'[d] = attempt[d] /\ wake'[d] = wake[d]
          /\ rates'[d] = rates[d] /\ reply'[d] = reply[d]
      BY <2>2, <2>5 DEF Goto, CallsOK, LocalTypes
    <3> QED BY <1>1, <3>1, OthersKept DEF CallsOK
  <2>6. /\ pc'[c] = "keep" /\ query'[c] = query[c] /\ rates'[c] = table
        /\ asked'[c] = asked[c] /\ reply'[c] = reply[c]
    BY <2>2 DEF Goto, CallsOK, LocalTypes
  <2>7. QueryOK(c)' /\ ReplyOK(c)'
    BY <1>1, <2>6 DEF CallsOK, CallOK, QueryOK, ReplyOK
  <2>8. TimesOK(c)'
    BY <1>1, <2>6 DEF CallsOK, CallOK, TimesOK, Busy, SameTime, Patience
  <2>9. HeldOK(c)'
    <3>1. TableOK(rates[c], query[c].base)'
      BY <1>1, <1>2, <2>3, <2>6 DEF TableOK, SameTime
    <3>2. Cause(now)
      BY <1>1 DEF CallsOK, CallOK, HeldOK
    <3>3. Cause(now)'
      BY <1>1, <2>2, <3>2 DEF Cause, SameTime
    <3> QED BY <2>3, <2>6, <3>1, <3>3 DEF HeldOK
  <2>10. pc[Cron] = "done" => pc'[Cron] = "done"
    BY <1>1, <2>2 DEF Goto, CallsOK, LocalTypes, Calls
  <2> QED
    BY <1>1, <2>4, <2>5, <2>7, <2>8, <2>9, <2>10, Untouched, PartsNext
       DEF CallsOK, CallOK
<1>6. Fallback(c) => \/ FallbackRows(b) = {} /\ Fail(c, "Unavailable")
                     \/ FallbackRows(b) # {}
  BY <1>2 DEF Fallback
<1>7. FallbackFails(c) => fault' = now /\ Fail(c, "Unavailable")
  BY DEF FallbackFails
<1> QED BY <1>3, <1>4, <1>5, <1>6, <1>7

(* The rows of a capture have its time and its rate, and are of Home. *)
LEMMA CapturedRows ==
    ASSUME IInv, pc[Cron] = "save"
    PROVE  /\ TableOK(rates[Cron], Home) /\ Answerable(rates[Cron])
           /\ Captured(rates[Cron]) \subseteq SnapshotRows
           /\ \A s \in Captured(rates[Cron]) :
                /\ s.base = Home /\ s.at = now /\ s.rate <= s.at
                /\ \E q \in DOMAIN rates[Cron].quotes :
                     s.rate = rates[Cron].quotes[q]
           /\ \A s, t \in Captured(rates[Cron]) : s.rate = t.rate
<1> USE Parts
<1>1. HeldOK(Cron) /\ query[Cron].base = Home
  BY QueryType DEF CallsOK, CallOK, Calls
<1>2. TableOK(rates[Cron], Home) /\ Answerable(rates[Cron])
  BY <1>1 DEF HeldOK, Holding
<1>3. PICK table \in Tables : table = rates[Cron]
  BY <1>2 DEF TableOK
<1>4. /\ DOMAIN table.quotes \subseteq Currencies
      /\ \A q \in DOMAIN table.quotes :
           table.quotes[q] \in Times /\ table.quotes[q] <= now
      /\ \A q, r \in DOMAIN table.quotes : table.quotes[q] = table.quotes[r]
  BY <1>2, <1>3, TableType DEF TableOK
<1>5. now \in Times /\ Home \in Currencies
  BY Constants DEF SharedTypes
<1>6. ASSUME NEW s \in Captured(table)
      PROVE  /\ s \in SnapshotRows
             /\ s.base = Home /\ s.at = now /\ s.rate <= s.at
             /\ \E q \in DOMAIN table.quotes : s.rate = table.quotes[q]
  <2>1. PICK quote \in (Supported \ {Home}) \cap DOMAIN table.quotes :
          s = [base |-> Home, quote |-> quote,
               rate |-> table.quotes[quote], at |-> now]
    BY DEF Captured
  <2> QED BY <1>4, <1>5, <2>1 DEF SnapshotRows
<1>7. \A s, t \in Captured(table) : s.rate = t.rate
  BY <1>4, <1>6
<1> QED BY <1>2, <1>3, <1>6, <1>7

LEMMA SaveInv ==
    ASSUME IInv, Save \/ SaveFails
    PROVE  IInv'
<1> USE Parts
<1>1. /\ pc[Cron] = "save" /\ Cron \in Calls
      /\ now' = now /\ fault' \in {fault, now}
      /\ UNCHANGED <<up, since, cache, lastRun>>
      /\ snapshots' \in {snapshots, snapshots \cup Captured(rates[Cron])}
  BY DEF Save, SaveFails, provider, Calls
<1>2. SameTime
  BY <1>1, CapturedRows DEF SameTime
<1>3. SharedTypes' /\ ClockOK'
  <2>1. snapshots' \subseteq SnapshotRows
    BY <1>1, CapturedRows DEF SharedTypes
  <2> QED BY <1>1, <1>2, <2>1, SharedKept DEF SharedTypes
<1>4. EntriesOK'
  BY <1>1, <1>2, EntryKept DEF EntriesOK
<1>5. CallsOK'
  <2>1. PICK table \in Tables : table = rates[Cron]
    BY <1>1, CapturedRows DEF TableOK
  <2>2. Answerable(table)' /\ TableOK(table, query[Cron].base)
    <3>1. query[Cron].base = Home
      BY <1>1, QueryType DEF CallsOK, CallOK
    <3> QED BY <1>1, <1>2, <2>1, <3>1, CapturedRows, AnswerableKept
  <2>3. Answer(Cron, "OK", table) \/ Fail(Cron, "InternalError")
    BY <2>1 DEF Save, SaveFails
  <2> QED BY <1>1, <1>2, <2>2, <2>3, Replied DEF Fail, Codes
<1>6. SnapshotsOK'
  <2>1. pc'[Cron] = "done"
    BY <1>1 DEF Save, SaveFails, Answer, Fail, Goto, CallsOK, LocalTypes
  <2>2. now \in Nat /\ \A s \in snapshots : s.at < now
    BY <1>1 DEF SnapshotsOK, SharedTypes, Times
  <2>3. ASSUME NEW s \in snapshots'
        PROVE  s.base = Home /\ s.rate <= s.at /\ s.at <= now
    BY <1>1, <2>2, <2>3, CapturedRows DEF SnapshotsOK
  <2>4. ASSUME NEW s \in snapshots', NEW t \in snapshots', s.at = t.at
        PROVE  s.rate = t.rate
    <3>1. \A r \in Captured(rates[Cron]) : r.at = now
      BY <1>1, CapturedRows
    <3> QED BY <1>1, <2>2, <2>4, <3>1, CapturedRows DEF SnapshotsOK
  <2> QED BY <1>1, <2>1, <2>3, <2>4 DEF SnapshotsOK
<1> QED BY <1>3, <1>4, <1>5, <1>6, PartsNext

LEMMA ToggleInv ==
    ASSUME IInv, Toggle
    PROVE  IInv'
<1> USE Parts
<1>1. /\ SameTime /\ UNCHANGED stores /\ up' \in BOOLEAN /\ lastRun' = lastRun
      /\ UNCHANGED <<pc, query, asked, attempt, wake, rates, reply>>
  BY DEF Toggle, SameTime, stores, locals, SharedTypes
<1>2. CallsOK'
  <2>1. LocalTypes'
    BY <1>1 DEF CallsOK, LocalTypes
  <2>2. ASSUME NEW c \in Calls PROVE CallOK(c)'
    BY <1>1, OthersKept DEF CallsOK
  <2> QED BY <2>1, <2>2 DEF CallsOK
<1> QED BY <1>1, <1>2, Untouched, PartsNext

(* The last time anything changed, or as far back as is remembered. *)
LEMMA MaxPair ==
    ASSUME NEW x \in Int, NEW y \in Int
    PROVE  /\ Max({x, y}) \in {x, y}
           /\ Max({x, y}) >= x /\ Max({x, y}) >= y
<1>1. \E z \in {x, y} : \A w \in {x, y} : z >= w
  BY x >= y \/ y >= x
<1> QED BY <1>1 DEF Max

LEMMA MemoryType == Memory \in Nat /\ Memory >= TTL \div 2 /\ Memory > 0
BY Constants DEF Memory

LEMMA TickClock ==
    ASSUME SharedTypes, ClockOK, Tick
    PROVE  /\ now' = now + 1 /\ now \in Nat /\ now' \in Times
           /\ since' \in Times /\ since' <= now' /\ since <= since'
           /\ fault' \in {fault, None}
           /\ fault # None /\ fault' = None => fault < now' - Memory
           /\ UNCHANGED <<up, snapshots, lastRun>>
<1>1. now' = now + 1 /\ now \in Nat /\ now < MaxTime /\ since \in Nat
  BY DEF Tick, SharedTypes, Times
<1>2. now' \in Times
  BY <1>1, Constants DEF Times
<1>3. PICK m \in Int : m = now' - Memory
  BY <1>1, MemoryType
<1>4. since' = Max({since, m})
  BY <1>3 DEF Tick
<1>5. since' \in {since, m} /\ since' >= since
  BY <1>1, <1>3, <1>4, MaxPair
<1>6. since' \in Times /\ since' <= now'
  BY <1>1, <1>2, <1>3, <1>5, MemoryType, Constants DEF Times, ClockOK
<1>7. /\ fault' \in {fault, None}
      /\ fault # None /\ fault' = None => fault < now' - Memory
      /\ UNCHANGED <<up, snapshots, lastRun>>
  BY DEF Tick
<1> QED BY <1>1, <1>2, <1>5, <1>6, <1>7

(* An entry that Redis keeps is worth what it was: whatever broke before   *)
(* it was cached is still remembered.                                      *)
LEMMA TickEntry ==
    ASSUME SharedTypes, ClockOK, Tick, NEW b \in Currencies, EntryOK(b)
    PROVE  cache'[b] \in Entries \cup {None} /\ EntryOK(b)'
<1>1. cache'[b] = IF cache[b] # None /\ Expired(cache[b]) THEN None ELSE cache[b]
  BY DEF Tick
<1>2. CASE cache'[b] = None
  BY <1>2 DEF EntryOK
<1>3. CASE cache'[b] # None
  <2>1. cache'[b] = cache[b] /\ cache[b] # None /\ ~ Expired(cache[b])
    BY <1>1, <1>3
  <2>2. PICK entry \in Entries : entry = cache[b]
    BY <2>1 DEF SharedTypes
  <2>3. entry.table \in Tables /\ entry.expires \in Nat
    BY <2>2 DEF Entries
  <2>4. PICK table \in Tables, t \in Int :
          table = entry.table /\ t = CachedAt(entry)
    BY <2>3, TableType DEF CachedAt
  <2>5. /\ TableOK(table, b) /\ t <= now
        /\ now + 1 < entry.expires
        /\ table.source = "api" => QuotedSince(table, t - FetchTimeout)
        /\ table.source = "snapshot" => Cause(t)
    <3>1. now + 1 < entry.expires
      BY <2>1, <2>2, <2>3, TickClock DEF Expired
    <3>2. now < entry.expires
      BY <2>3, <3>1, TickClock
    <3> QED BY <2>1, <2>2, <2>4, <3>1, <3>2 DEF EntryOK
  <2>6. TableOK(table, b)'
    BY <2>5, TableType, TickClock DEF TableOK
  <2>7. table.source = "snapshot" => Cause(t)'
    <3>1. SUFFICES ASSUME table.source = "snapshot" PROVE Cause(t)'
      OBVIOUS
    <3>2. t = entry.expires - TTL \div 2
      BY <2>4, <3>1 DEF CachedAt, Lifetime
    <3>3. now' - Memory <= t
      BY <2>3, <2>5, <3>2, TickClock, MemoryType, Constants
    <3>4. CASE ~ up
      BY <3>4, TickClock DEF Cause
    <3>5. CASE since >= t - FetchTimeout
      <4>1. since' >= t - FetchTimeout
        BY <3>5, TickClock, Constants DEF SharedTypes, Times
      <4> QED BY <4>1 DEF Cause
    <3>6. CASE fault # None /\ fault >= t
      <4>1. fault \in Nat /\ ~ (fault < now' - Memory)
        BY <3>3, <3>6, TickClock, MemoryType DEF SharedTypes, Times
      <4>2. fault' = fault
        BY <3>6, <4>1, TickClock
      <4> QED BY <3>6, <4>2 DEF Cause
    <3> QED BY <2>5, <3>1, <3>4, <3>5, <3>6 DEF Cause
  <2>8. t <= now' /\ now' < entry.expires /\ now' <= entry.expires
    BY <2>3, <2>5, TickClock
  <2>9. CachedAt(cache'[b]) = t /\ cache'[b] = entry
    BY <2>1, <2>2, <2>4
  <2>10. cache'[b] \in Entries
    BY <2>9
  <2>11. EntryOK(b)'
    BY <2>4, <2>5, <2>6, <2>7, <2>8, <2>9
       DEF EntryOK, CachedAt, Lifetime, TableOK, QuotedSince, Cause
  <2> QED BY <2>10, <2>11
<1> QED BY <1>2, <1>3

(* Who waits, waits within its deadline; answers are forgotten.            *)
LEMMA TickCall ==
    ASSUME IInv, Tick, NEW c \in Calls
    PROVE  CallOK(c)'
<1> USE Parts
<1>1. /\ LocalTypes /\ QueryOK(c) /\ TimesOK(c) /\ Waits(c)
      /\ now' = now + 1 /\ now \in Nat
  BY TickClock DEF CallsOK, CallOK, Tick
<1>2. CASE pc[c] = "done"
  <2>1. pc'[c] = "idle" /\ reply'[c] = None
    BY <1>2 DEF Tick
  <2> QED
    BY <2>1 DEF CallOK, QueryOK, TimesOK, HeldOK, ReplyOK, Busy, Holding
<1>3. CASE pc[c] # "done"
  <2>1. /\ pc'[c] = pc[c] /\ query'[c] = query[c] /\ asked'[c] = asked[c]
        /\ attempt'[c] = attempt[c] /\ wake'[c] = wake[c]
        /\ reply'[c] = None /\ reply[c] = None
    BY <1>1, <1>3 DEF Tick, QueryOK
  <2>2. \/ pc[c] = "idle"
        \/ pc[c] \in {"fetch", "backoff"} /\ now < wake[c]
    BY <1>1, <1>3 DEF Waits
  <2>3. QueryOK(c)' /\ HeldOK(c)' /\ ReplyOK(c)'
    BY <1>1, <2>1, <2>2 DEF QueryOK, HeldOK, ReplyOK, Holding
  <2>4. TimesOK(c)'
    <3>1. CASE pc[c] = "idle"
      BY <2>1, <3>1 DEF TimesOK, Busy
    <3>2. CASE pc[c] \in {"fetch", "backoff"} /\ now < wake[c]
      <4>1. /\ attempt[c] \in 1..MaxRetries
            /\ asked[c] \in Nat /\ wake[c] \in Nat
            /\ asked[c] <= now
            /\ now + 1 <= wake[c]
        BY <1>1, <3>2, Constants DEF TimesOK, LocalTypes, Times, Busy
      <4>2. Due(attempt[c]) \in Nat /\ Due(attempt[c]) <= Patience
            /\ Patience \in Nat
        BY <4>1, DueIsPatience
      <4>3. wake[c] <= asked[c] + Patience
        <5>1. CASE pc[c] = "fetch"
          BY <1>1, <4>1, <4>2, <5>1 DEF TimesOK
        <5>2. CASE pc[c] = "backoff"
          <6>1. attempt[c] \in Nat \ {0} /\ attempt[c] + 1 \in 1..MaxRetries
                /\ wake[c] <= asked[c] + Due(attempt[c]) + RetryDelay * attempt[c]
            BY <1>1, <5>2, Constants DEF TimesOK
          <6>2. /\ Due(attempt[c] + 1)
                     = Due(attempt[c]) + RetryDelay * attempt[c] + FetchTimeout
                /\ Due(attempt[c] + 1) <= Patience
                /\ RetryDelay * attempt[c] \in Nat
            BY <6>1, DueStep, DueIsPatience, Constants
          <6> QED BY <4>1, <4>2, <6>1, <6>2, Constants
        <5> QED BY <3>2, <5>1, <5>2
      <4>4. Due(attempt[c])' = Due(attempt[c]) /\ Patience' = Patience
        BY <2>1 DEF Due, Patience
      <4>5. asked[c] <= now + 1 /\ now + 1 <= asked[c] + Patience
        BY <1>1, <4>1, <4>2, <4>3
      <4> QED BY <1>1, <2>1, <3>2, <4>1, <4>4, <4>5 DEF TimesOK, Busy
    <3> QED BY <2>2, <3>1, <3>2
  <2> QED BY <2>3, <2>4 DEF CallOK
<1> QED BY <1>2, <1>3

LEMMA TickInv ==
    ASSUME IInv, Tick
    PROVE  IInv'
<1> USE Parts
<1>1. LocalTypes'
  <2>1. 0 \in Times /\ LocalTypes
    BY Constants DEF Times, CallsOK
  <2> QED BY <2>1 DEF Tick, LocalTypes, Labels
<1>2. SharedTypes' /\ ClockOK'
  <2>1. cache' \in [Currencies -> Entries \cup {None}]
    BY TickEntry DEF Tick, EntriesOK
  <2>2. fault' # None => fault' <= now'
    BY TickClock DEF ClockOK, SharedTypes, Times
  <2> QED BY <2>1, <2>2, TickClock DEF SharedTypes, ClockOK
<1>3. EntriesOK'
  BY TickEntry DEF EntriesOK
<1>4. SnapshotsOK'
  <2>1. \A s \in snapshots : s.at \in Nat /\ s.at < now + 1 /\ s.at <= now + 1
    BY TickClock DEF SnapshotsOK, SharedTypes, SnapshotRows, Times
  <2> QED BY <2>1, TickClock DEF SnapshotsOK
<1> QED BY <1>1, <1>2, <1>3, <1>4, TickCall, PartsNext DEF CallsOK

LEMMA NextInv == IInv /\ [Next]_vars => IInv'
<1> SUFFICES ASSUME IInv, [Next]_vars PROVE IInv'
  OBVIOUS
<1>1. ASSUME NEW c \in Clients, NEW q \in Queries, Ask(c, q) PROVE IInv'
  BY <1>1, BeginInv, Constants DEF Ask, Calls
<1>2. CASE CaptureSnapshot
  BY <1>2, BeginInv DEF CaptureSnapshot, Calls
<1>3. ASSUME NEW c \in Calls, Step(c) PROVE IInv'
  BY <1>3, HitInv, LookupInv, AnsweredInv, FetchFailsInv, RetryInv, StoreInv,
     FallbackInv, KeepInv DEF Step
<1>4. CASE UNCHANGED vars
  <2>1. /\ SameTime /\ UNCHANGED <<cache, snapshots, up, since, fault, lastRun>>
        /\ UNCHANGED <<pc, query, asked, attempt, wake, rates, reply>>
    BY <1>4 DEF vars, stores, provider, locals, SameTime
  <2>2. SharedTypes' /\ ClockOK' /\ EntriesOK' /\ SnapshotsOK'
    BY <2>1, Parts, Untouched DEF stores, SharedTypes
  <2>3. CallsOK'
    BY <2>1, Parts, OthersKept DEF CallsOK, LocalTypes
  <2> QED BY <2>2, <2>3, PartsNext
<1> QED
  BY <1>1, <1>2, <1>3, <1>4, SaveInv, ToggleInv, TickInv DEF Next, Terminating

LEMMA Inductive == Spec => []IInv
BY InitInv, NextInv, PTL DEF Spec

-----------------------------------------------------------------------------
(* The properties that the invariant implies.                              *)

(* Every variable of the rate service keeps its type: no attempt beyond the *)
(* last, no table without base, no rate quoted after the end of the clock.  *)
THEOREM TypeCorrect == Spec => []TypeOK
<1>1. IInv => TypeOK
  BY DEF IInv
<1> QED BY <1>1, Inductive, PTL

(* No call of getRates takes longer than all its timeouts and delays, for   *)
(* every number of attempts and every delay.                               *)
THEOREM Deadline == Spec => []DeadlineMet
<1>1. IInv => DeadlineMet
  <2> SUFFICES ASSUME IInv, NEW c \in Calls, pc[c] \notin {"idle", "done"}
               PROVE  now - asked[c] <= Patience
    BY DEF DeadlineMet
  <2>1. now \in Nat /\ asked[c] \in Nat /\ now <= asked[c] + Patience
    BY Parts
       DEF CallsOK, CallOK, TimesOK, Busy, SharedTypes, LocalTypes, Times
  <2> QED BY <2>1, PatienceType
<1> QED BY <1>1, Inductive, PTL

LEMMA RepliesHold ==
    ASSUME IInv, NEW c \in Answered
    PROVE  /\ c \in Calls
           /\ reply[c].code = "OK" =>
                /\ TableOK(reply[c].table, query[c].base)
                /\ Answerable(reply[c].table)
           /\ reply[c].code = "Unavailable" /\ query[c].base = Home =>
                fault = now \/ \A s \in snapshots : s.at >= now
BY Parts DEF Answered, CallsOK, CallOK, ReplyOK

(* getRate and getSupportedRates never answer rates of another base than    *)
(* was asked, nor of two quotes or two captures.                           *)
THEOREM OneQuote == Spec => []AnswersAreOneQuote
<1>1. IInv => AnswersAreOneQuote
  BY RepliesHold DEF AnswersAreOneQuote, OKNow, TableOK
<1> QED BY <1>1, Inductive, PTL

(* What is answered as the provider's is younger than a cache lifetime and *)
(* a request timeout, for every lifetime and every timeout.                *)
THEOREM Fresh == Spec => []AnswersAreFresh
<1>1. IInv => AnswersAreFresh
  <2> SUFFICES ASSUME IInv, NEW c \in OKNow, reply[c].table.source = "api",
                      NEW q \in DOMAIN reply[c].table.quotes
               PROVE  now - reply[c].table.quotes[q] < TTL + FetchTimeout
    BY DEF AnswersAreFresh
  <2>1. /\ reply[c].table \in Tables
        /\ QuotedSince(reply[c].table, now - TTL - FetchTimeout + 1)
    BY RepliesHold DEF OKNow, TableOK, Answerable
  <2>2. reply[c].table.quotes[q] \in Nat /\ now \in Nat
    BY <2>1, TableType, Parts DEF SharedTypes, Times
  <2> QED BY <2>1, <2>2, Constants DEF QuotedSince
<1> QED BY <1>1, Inductive, PTL

(* A fallback is answered only while its cause lasts, or briefly after: the *)
(* half lifetime of its entry and a timeout.                               *)
THEOREM StaleEnd ==
    ASSUME LastingFallbacks
    PROVE  Spec => []StaleAnswersEnd
<1>1. IInv => StaleAnswersEnd
  BY RepliesHold DEF StaleAnswersEnd, OKNow, Answerable, Recent
<1> QED BY <1>1, Inductive, PTL

(* Once a capture is stored, rates of the home currency are never refused   *)
(* with 503 because the provider is down; only a failing store can.        *)
THEOREM SurvivesOutage == Spec => []HomeSurvivesOutage
<1>1. IInv => HomeSurvivesOutage
  <2> SUFFICES ASSUME IInv, NEW c \in Answered, query[c].base = Home,
                      NEW s \in snapshots, s.at < now, fault # now,
                      reply[c].code = "Unavailable"
               PROVE  FALSE
    BY DEF HomeSurvivesOutage
  <2>1. s.at >= now
    BY RepliesHold
  <2>2. s.at \in Nat /\ now \in Nat
    BY Parts DEF SharedTypes, SnapshotRows, Times
  <2> QED BY <2>1, <2>2
<1> QED BY <1>1, Inductive, PTL

-----------------------------------------------------------------------------
(* The order of the captures.                                              *)

LEMMA Apart ==
    ASSUME RunsApart
    PROVE  /\ Patience < Hour
           /\ Patience - Hour <= 1 - TTL - FetchTimeout
           /\ TTL \div 2 < TTL + FetchTimeout - 1
<1>1. TTL \div 2 < TTL
  BY Constants
<1> QED BY <1>1, Constants, PatienceType DEF RunsApart

LEMMA RowType ==
    ASSUME IInv
    PROVE  /\ now \in Nat
           /\ \A s \in snapshots :
                /\ s.at \in Nat /\ s.rate \in Nat /\ s.base = Home
                /\ s.rate <= s.at /\ s.at <= now
BY Parts DEF SharedTypes, SnapshotRows, SnapshotsOK, Times

(* When the job is under way, its own last rows are older than anything it  *)
(* may still read from the cache.                                          *)
LEMMA RowsAreOld ==
    ASSUME IInv, RunsOK, RunsApart, Busy(Cron), NEW s \in snapshots
    PROVE  /\ asked[Cron] \in Nat /\ asked[Cron] <= now
           /\ s.rate < asked[Cron]
           /\ s.at <= asked[Cron] + 1 - TTL - FetchTimeout
<1>1. Cron \in Calls /\ asked[Cron] \in Nat /\ asked[Cron] <= now
  BY Parts DEF Calls, CallsOK, LocalTypes, CallOK, TimesOK, Times
<1>2. s.at + Hour <= asked[Cron] + Patience
  BY DEF RunsOK
<1>3. s.at < asked[Cron] /\ s.at <= asked[Cron] + 1 - TTL - FetchTimeout
  BY <1>1, <1>2, Apart, RowType, PatienceType, Constants
<1> QED BY <1>1, <1>3, RowType

LEMMA FetchIsNewest ==
    ASSUME IInv, RunsOK, RunsApart, FetchAnswered(Cron)
    PROVE  Newest(rates'[Cron], now + 1)
<1> USE Parts
<1>1. Cron \in Calls /\ pc[Cron] = "fetch" /\ Busy(Cron)
  BY DEF FetchAnswered, Calls, Busy
<1>2. PICK t \in QuotedAt(Cron), S \in QuoteSets :
        rates' = [rates EXCEPT ![Cron] =
                    [base |-> query[Cron].base, source |-> "api",
                     quotes |-> [quote \in S |-> t]]]
  BY DEF FetchAnswered
<1>3. rates'[Cron].quotes = [quote \in S |-> t]
  BY <1>1, <1>2 DEF CallsOK, LocalTypes
<1>4. t \in Int /\ asked[Cron] <= t
  <2>1. /\ asked[Cron] + FetchTimeout <= wake[Cron]
        /\ wake[Cron] \in Nat /\ asked[Cron] \in Nat /\ now \in Nat
    BY <1>1 DEF CallsOK, CallOK, TimesOK, LocalTypes, SharedTypes, Times
  <2>2. t \in (wake[Cron] - FetchTimeout)..now
    BY DEF QuotedAt
  <2> QED BY <2>1, <2>2, Constants
<1>5. ASSUME NEW s \in snapshots PROVE s.rate <= t
  BY <1>1, <1>4, RowsAreOld, RowType
<1> QED BY <1>3, <1>5 DEF Newest

LEMMA FallbackIsNewest ==
    ASSUME IInv, CapturesNeverGoBack, NEW b \in Currencies,
           FallbackRows(b) # {}, NEW t \in Int
    PROVE  Newest(FallbackTable(b), t)
<1> SUFFICES ASSUME NEW s \in snapshots,
                    NEW q \in DOMAIN FallbackTable(b).quotes
             PROVE  s.rate <= FallbackTable(b).quotes[q]
  BY DEF Newest
<1>1. PICK r \in FallbackRows(b) : FallbackTable(b).quotes[q] = r.rate
  BY FallbackTableOK
<1>2. r \in snapshots /\ b = Home
  BY RowType DEF FallbackRows, StoredFor
<1>3. s.at <= r.at
  BY <1>2, RowType DEF FallbackRows, StoredFor
<1>4. s.at < r.at \/ s.at = r.at
  BY <1>2, <1>3, RowType
<1>5. s.at = r.at => s.rate = r.rate
  BY <1>2, Parts DEF SnapshotsOK
<1>6. s.at < r.at => s.rate <= r.rate
  BY <1>2 DEF CapturesNeverGoBack
<1> QED BY <1>1, <1>2, <1>4, <1>5, <1>6, RowType

LEMMA HitIsNewest ==
    ASSUME IInv, OrderedInv, RunsApart, pc[Cron] = "lookup",
           NEW b \in Currencies, cache[b] # None
    PROVE  Newest(cache[b].table, now + 1)
<1> USE Parts
<1>1. Cron \in Calls /\ Busy(Cron) /\ now = asked[Cron] /\ now \in Nat
  BY DEF CallsOK, CallOK, TimesOK, Busy, Calls, SharedTypes, Times
<1>2. PICK entry \in Entries : entry = cache[b] /\ EntryOK(b)
  BY DEF SharedTypes, EntriesOK
<1>3. PICK table \in Tables : table = entry.table
  BY DEF Entries
<1>4. entry.expires \in Nat /\ now <= entry.expires
  BY <1>2 DEF Entries, EntryOK
<1> SUFFICES ASSUME NEW s \in snapshots, NEW q \in DOMAIN table.quotes
             PROVE  s.rate <= table.quotes[q]
  BY <1>2, <1>3 DEF Newest
<1>5. /\ s.at <= now + 1 - TTL - FetchTimeout
      /\ s.rate <= s.at /\ s.rate \in Nat /\ s.at \in Nat
      /\ table.quotes[q] \in Nat
  BY <1>1, RowsAreOld, RowType, TableType DEF OrderedInv
<1>6. CASE table.source = "api"
  <2>1. /\ now < entry.expires
        /\ QuotedSince(table, entry.expires - TTL - FetchTimeout)
    BY <1>2, <1>3, <1>6 DEF EntryOK, CachedAt, Lifetime
  <2>2. entry.expires - TTL - FetchTimeout <= table.quotes[q]
    BY <2>1 DEF QuotedSince
  <2> QED BY <1>1, <1>4, <1>5, <2>1, <2>2, Constants
<1>7. CASE table.source = "snapshot"
  <2>1. Newest(table, entry.expires - TTL \div 2)
    BY <1>2, <1>3, <1>7 DEF OrderedInv, CachedIsNewest, CachedAt, Lifetime
  <2>2. ~ (s.at >= entry.expires - TTL \div 2)
    BY <1>1, <1>4, <1>5, Apart, Constants
  <2> QED BY <2>1, <2>2 DEF Newest
<1> QED BY <1>6, <1>7, TableType

(* What a step of a call may put into its hands. *)
Elsewhere(c) ==
    \A d \in Calls \ {c} : pc'[d] = pc[d] /\ rates'[d] = rates[d]

Gets(c) ==
    \/ pc'[c] \notin Holding
    \/ pc'[c] = "store" /\ FetchAnswered(c)
    \/ /\ pc'[c] = "keep"
       /\ FallbackRows(query[c].base) # {}
       /\ rates'[c] = FallbackTable(query[c].base)
    \/ /\ pc'[c] = "save" /\ pc[c] \in {"store", "keep"}
       /\ rates'[c] = rates[c]
    \/ /\ pc'[c] = "save" /\ pc[c] = "lookup"
       /\ cache[query[c].base] # None
       /\ rates'[c] = cache[query[c].base].table

Caches(c) == pc[c] \in {"store", "keep"} /\ Cached(c, rates[c])

LEMMA StepEffect ==
    ASSUME IInv, NEW c \in Calls, Step(c)
    PROVE  /\ UNCHANGED <<now, snapshots, lastRun, asked>> /\ Busy(c)
           /\ Elsewhere(c) /\ Gets(c) /\ (UNCHANGED cache \/ Caches(c))
<1>0. pc \in [Calls -> Labels] /\ rates \in [Calls -> Tables \cup {None}]
  BY Parts DEF CallsOK, LocalTypes
<1>1. ASSUME NEW table, Deliver(c, table)
      PROVE  /\ Elsewhere(c) /\ UNCHANGED asked
             /\ pc'[c] \in {"done", "save"}
             /\ pc'[c] = "save" => rates'[c] = table
  BY <1>0, <1>1 DEF Deliver, Fail, Answer, Goto, Elsewhere
<1>2. ASSUME NEW code, Fail(c, code)
      PROVE  Elsewhere(c) /\ UNCHANGED asked /\ pc'[c] = "done"
  BY <1>0, <1>2 DEF Fail, Answer, Goto, Elsewhere
<1>3. ASSUME NEW n, StartAttempt(c, n)
      PROVE  Elsewhere(c) /\ UNCHANGED asked /\ pc'[c] = "fetch"
  BY <1>0, <1>3 DEF StartAttempt, Goto, Elsewhere
<1>4. ASSUME NEW l, pc' = [pc EXCEPT ![c] = l],
             UNCHANGED rates \/ \E table : rates' = [rates EXCEPT ![c] = table]
      PROVE  Elsewhere(c) /\ pc'[c] = l
  BY <1>0, <1>4 DEF Elsewhere
<1>5. \A l \in {"done", "fetch", "backoff", "fallback"} :
        pc'[c] = l => Gets(c)
  BY DEF Gets, Holding
<1>6. CASE Hit(c)
  <2>1. /\ pc[c] = "lookup" /\ cache[query[c].base] # None
        /\ Deliver(c, cache[query[c].base].table)
        /\ UNCHANGED <<now, snapshots, lastRun, cache>>
    BY <1>6 DEF Hit, stores
  <2> QED BY <1>1, <1>5, <2>1 DEF Gets, Busy
<1>7. CASE Miss(c) \/ LookupFails(c)
  <2>1. /\ pc[c] = "lookup" /\ UNCHANGED <<now, snapshots, lastRun, cache>>
        /\ StartAttempt(c, 1) \/ Fail(c, "InternalError")
    BY <1>7 DEF Miss, LookupFails, stores
  <2> QED BY <1>2, <1>3, <1>5, <2>1 DEF Busy
<1>8. CASE FetchAnswered(c)
  <2>1. /\ pc[c] = "fetch" /\ pc' = [pc EXCEPT ![c] = "store"]
        /\ UNCHANGED <<now, snapshots, lastRun, cache, asked>>
        /\ \E table : rates' = [rates EXCEPT ![c] = table]
    BY <1>8 DEF FetchAnswered, Goto, stores
  <2> QED BY <1>4, <1>8, <2>1 DEF Gets, Busy
<1>9. CASE FetchFails(c)
  <2>1. /\ pc[c] = "fetch"
        /\ \/ pc' = [pc EXCEPT ![c] = "backoff"]
           \/ pc' = [pc EXCEPT ![c] = "fallback"]
        /\ UNCHANGED <<now, snapshots, lastRun, cache, asked, rates>>
    BY <1>9 DEF FetchFails, Goto, stores
  <2> QED BY <1>4, <1>5, <2>1 DEF Busy
<1>10. CASE Retry(c)
  <2>1. /\ pc[c] = "backoff" /\ UNCHANGED <<now, snapshots, lastRun, cache>>
        /\ StartAttempt(c, attempt[c] + 1)
    BY <1>10 DEF Retry, stores
  <2> QED BY <1>3, <1>5, <2>1 DEF Busy
<1>11. CASE Store(c) \/ StoreFails(c) \/ Keep(c) \/ KeepFails(c)
  <2>1. /\ pc[c] \in {"store", "keep"} /\ UNCHANGED <<now, snapshots, lastRun>>
        /\ UNCHANGED cache \/ Cached(c, rates[c])
        /\ \/ Deliver(c, rates[c])
           \/ Fail(c, "InternalError")
           \/ /\ pc' = [pc EXCEPT ![c] = "fallback"]
              /\ rates' = [rates EXCEPT ![c] = None]
              /\ UNCHANGED asked
    BY <1>11 DEF Store, StoreFails, Keep, KeepFails, WriteFails, Goto
  <2>2. CASE Deliver(c, rates[c])
    BY <1>1, <1>5, <2>1, <2>2 DEF Gets, Busy, Caches
  <2>3. CASE Fail(c, "InternalError")
    BY <1>2, <1>5, <2>1, <2>3 DEF Busy, Caches
  <2>4. CASE /\ pc' = [pc EXCEPT ![c] = "fallback"]
             /\ rates' = [rates EXCEPT ![c] = None]
             /\ UNCHANGED asked
    BY <1>4, <1>5, <2>1, <2>4 DEF Busy, Caches
  <2> QED BY <2>1, <2>2, <2>3, <2>4
<1>12. CASE Fallback(c) \/ FallbackFails(c)
  <2>1. pc[c] = "fallback" /\ UNCHANGED <<now, snapshots, lastRun, cache>>
    BY <1>12 DEF Fallback, FallbackFails, stores
  <2>2. CASE Fail(c, "Unavailable")
    BY <1>2, <1>5, <2>1, <2>2 DEF Busy
  <2>3. CASE /\ FallbackRows(query[c].base) # {}
             /\ rates' = [rates EXCEPT ![c] = FallbackTable(query[c].base)]
             /\ pc' = [pc EXCEPT ![c] = "keep"]
             /\ UNCHANGED asked
    <3>1. rates'[c] = FallbackTable(query[c].base)
      BY <1>0, <2>3
    <3> QED BY <1>4, <2>1, <2>3, <3>1 DEF Gets, Busy
  <2> QED
    BY <1>12, <2>2, <2>3 DEF Fallback, FallbackFails, FallbackTable, Goto
<1> QED BY <1>6, <1>7, <1>8, <1>9, <1>10, <1>11, <1>12 DEF Step

LEMMA RunsKept ==
    ASSUME IInv, RunsOK, now' \in {now, now + 1}, UNCHANGED <<snapshots, lastRun>>,
           Busy(Cron)' => Busy(Cron) /\ asked'[Cron] = asked[Cron]
    PROVE  RunsOK'
<1>1. now \in Nat /\ (lastRun # None => lastRun \in Nat)
  BY Parts DEF SharedTypes, Times
<1>2. Patience' = Patience
  BY DEF Patience
<1> QED BY <1>1, <1>2 DEF RunsOK

LEMMA NewestKept ==
    ASSUME UNCHANGED snapshots, NEW table, NEW t, Newest(table, t)
    PROVE  Newest(table, t)'
BY DEF Newest

LEMMA StepOrdered ==
    ASSUME IInv, OrderedInv, RunsApart, NEW c \in Calls, Step(c)
    PROVE  OrderedInv'
<1> USE Parts
<1>1. /\ UNCHANGED <<now, snapshots, lastRun, asked>> /\ Busy(c)
      /\ Elsewhere(c) /\ Gets(c) /\ (UNCHANGED cache \/ Caches(c))
  BY StepEffect
<1>2. /\ pc[c] # "idle" /\ now \in Nat /\ Cron \in Calls
      /\ query[c].base \in Currencies /\ LocalTypes
      /\ c = Cron => query[c].base = Home
  BY <1>1, QueryType
     DEF CallsOK, CallOK, Busy, Calls, SharedTypes, Times
<1>3. RunsOK'
  <2>1. Busy(Cron)' => Busy(Cron)
    BY <1>1, <1>2 DEF Elsewhere, Busy
  <2> QED BY <1>1, <2>1, RunsKept DEF OrderedInv
<1>4. CapturesNeverGoBack'
  BY <1>1 DEF OrderedInv, CapturesNeverGoBack
<1>5. KeptIsNewest'
  <2> SUFFICES ASSUME NEW d \in Calls, pc'[d] = "keep"
               PROVE  Newest(rates[d], now)'
    BY DEF KeptIsNewest
  <2>1. CASE d # c
    <3>1. Newest(rates[d], now) /\ rates'[d] = rates[d]
      BY <1>1, <2>1 DEF OrderedInv, KeptIsNewest, Elsewhere
    <3> QED BY <1>1, <3>1 DEF Newest
  <2>2. CASE d = c
    <3>1. /\ FallbackRows(query[c].base) # {}
          /\ rates'[c] = FallbackTable(query[c].base)
      BY <1>1, <2>2 DEF Gets, Holding
    <3>2. Newest(FallbackTable(query[c].base), now)
      BY <1>2, <3>1, FallbackIsNewest DEF OrderedInv
    <3> QED BY <1>1, <2>2, <3>1, <3>2 DEF Newest
  <2> QED BY <2>1, <2>2
<1>6. SavedIsNewest'
  <2> SUFFICES ASSUME pc'[Cron] \in Holding
               PROVE  Newest(rates[Cron], now + 1)'
    BY DEF SavedIsNewest
  <2>1. SUFFICES Newest(rates'[Cron], now + 1)
    BY <1>1 DEF Newest
  <2>2. CASE Cron # c
    BY <1>1, <1>2, <2>2 DEF OrderedInv, SavedIsNewest, Elsewhere
  <2>3. CASE Cron = c
    <3>1. CASE FetchAnswered(c)
      BY <2>3, <3>1, FetchIsNewest DEF OrderedInv
    <3>2. CASE /\ FallbackRows(query[c].base) # {}
               /\ rates'[c] = FallbackTable(query[c].base)
      BY <1>2, <2>3, <3>2, FallbackIsNewest DEF OrderedInv
    <3>3. CASE pc[c] \in {"store", "keep"} /\ rates'[c] = rates[c]
      BY <2>3, <3>3 DEF OrderedInv, SavedIsNewest, Holding
    <3>4. CASE /\ pc[c] = "lookup" /\ cache[query[c].base] # None
               /\ rates'[c] = cache[query[c].base].table
      BY <1>2, <2>3, <3>4, HitIsNewest
    <3> QED BY <1>1, <2>3, <3>1, <3>2, <3>3, <3>4 DEF Gets
  <2> QED BY <2>2, <2>3
<1>7. CachedIsNewest'
  <2> SUFFICES ASSUME NEW b \in Currencies, cache'[b] # None,
                      cache'[b].table.source = "snapshot"
               PROVE  Newest(cache[b].table, CachedAt(cache[b]))'
    BY DEF CachedIsNewest
  <2>1. CASE cache'[b] = cache[b]
    <3>1. Newest(cache[b].table, CachedAt(cache[b]))
      BY <2>1 DEF OrderedInv, CachedIsNewest
    <3> QED BY <1>1, <2>1, <3>1 DEF Newest, CachedAt, Lifetime
  <2>2. CASE cache'[b] # cache[b]
    <3>1. Caches(c) /\ b = query[c].base
      BY <1>1, <1>2, <2>2 DEF Caches, Cached, SharedTypes
    <3>2. PICK table \in Tables : table = rates[c]
      BY <3>1, HeldIsAnswerable DEF Caches
    <3>3. cache'[b] = [table |-> table, expires |-> now + Lifetime(table)]
      BY <1>2, <3>1, <3>2 DEF Caches, Cached, SharedTypes
    <3>4. table.source = "snapshot"
      BY <3>3
    <3>5. pc[c] = "keep"
      BY <3>1, <3>2, <3>4 DEF Caches, CallsOK, CallOK, HeldOK
    <3>6. Newest(table, now)
      BY <3>2, <3>5 DEF OrderedInv, KeptIsNewest
    <3>7. CachedAt(cache'[b]) = now
      BY <1>2, <3>3, TableType DEF CachedAt
    <3>8. cache'[b].table = table
      BY <3>3
    <3> QED BY <1>1, <3>6, <3>7, <3>8 DEF Newest, CachedAt, Lifetime
  <2> QED BY <2>1, <2>2
<1> QED BY <1>3, <1>4, <1>5, <1>6, <1>7 DEF OrderedInv

(* A call begins: nothing is read yet.  When it is the job's, its last run  *)
(* is an hour ago or more.                                                 *)
LEMMA BeginOrdered ==
    ASSUME IInv, OrderedInv, RunsApart, NEW c \in Calls, NEW q, Begin(c, q),
           \/ c # Cron /\ UNCHANGED lastRun
           \/ c = Cron /\ now % Hour = 0 /\ lastRun # now /\ lastRun' = now
    PROVE  OrderedInv'
<1> USE Parts
<1>1. /\ UNCHANGED <<now, snapshots, cache, rates>> /\ now \in Nat
      /\ Cron \in Calls /\ pc[c] = "idle" /\ pc'[c] = "lookup"
      /\ asked'[c] = now
      /\ \A d \in Calls \ {c} : pc'[d] = pc[d] /\ asked'[d] = asked[d]
  BY DEF Begin, Goto, stores, CallsOK, LocalTypes, Calls, SharedTypes, Times
<1>2. RunsOK'
  <2>1. CASE c # Cron /\ UNCHANGED lastRun
    <3>1. Busy(Cron)' => Busy(Cron) /\ asked'[Cron] = asked[Cron]
      BY <1>1, <2>1 DEF Busy
    <3> QED BY <1>1, <2>1, <3>1, RunsKept DEF OrderedInv
  <2>2. CASE c = Cron /\ now % Hour = 0 /\ lastRun # now /\ lastRun' = now
    <3>1. ASSUME NEW s \in snapshots PROVE s.at + Hour <= now + Patience
      <4>1. /\ lastRun # None /\ lastRun % Hour = 0 /\ lastRun <= now
            /\ s.at <= lastRun + Patience
        BY DEF OrderedInv, RunsOK
      <4>2. lastRun \in Nat /\ lastRun < now /\ s.at \in Nat
        BY <1>1, <2>2, <4>1, RowType DEF SharedTypes, Times
      <4>3. lastRun + Hour <= now
        BY <1>1, <2>2, <4>1, <4>2, HoursApart
      <4> QED BY <1>1, <4>1, <4>2, <4>3, PatienceType, Constants
    <3>2. now # None
      BY Constants DEF SharedTypes
    <3>3. Patience' = Patience
      BY DEF Patience
    <3>4. \A s \in snapshots : s.at <= now + Patience
      BY RowType, PatienceType
    <3> QED BY <1>1, <2>2, <3>1, <3>2, <3>3, <3>4 DEF RunsOK
  <2> QED BY <2>1, <2>2
<1>3. CapturesNeverGoBack' /\ CachedIsNewest'
  BY <1>1 DEF OrderedInv, CapturesNeverGoBack, CachedIsNewest, Newest,
     CachedAt, Lifetime
<1>4. KeptIsNewest'
  BY <1>1 DEF OrderedInv, KeptIsNewest, Newest
<1>5. SavedIsNewest'
  BY <1>1 DEF OrderedInv, SavedIsNewest, Newest, Holding
<1> QED BY <1>2, <1>3, <1>4, <1>5 DEF OrderedInv

LEMMA SaveOrdered ==
    ASSUME IInv, OrderedInv, Save \/ SaveFails
    PROVE  OrderedInv'
<1> USE Parts
<1>1. /\ pc[Cron] = "save" /\ Cron \in Calls /\ now \in Nat
      /\ UNCHANGED <<now, cache, asked, lastRun>>
      /\ snapshots' \in {snapshots, snapshots \cup Captured(rates[Cron])}
      /\ pc'[Cron] = "done"
      /\ \A d \in Calls \ {Cron} : pc'[d] = pc[d] /\ rates'[d] = rates[d]
  BY DEF Save, SaveFails, Fail, Answer, Goto, CallsOK, LocalTypes, Calls,
     SharedTypes, Times
<1> DEFINE new == Captured(rates[Cron])
<1>2. \A s \in new : /\ s.at = now /\ s.rate \in Nat
                     /\ \E q \in DOMAIN rates[Cron].quotes :
                          s.rate = rates[Cron].quotes[q]
                     /\ \A t \in new : s.rate = t.rate
  BY <1>1, CapturedRows DEF SnapshotRows, Times
<1>3. \A s \in snapshots, t \in new : s.rate <= t.rate
  <2>1. Newest(rates[Cron], now + 1)
    BY <1>1 DEF OrderedInv, SavedIsNewest, Holding
  <2> QED BY <1>1, <1>2, <2>1, RowType DEF Newest
<1>4. \A s \in snapshots : s.at \in Nat /\ s.at < now
  BY <1>1, RowType DEF SnapshotsOK
<1> HIDE DEF new
<1>5. RunsOK'
  <2>1. /\ lastRun = asked[Cron] /\ asked[Cron] \in Times
        /\ now <= asked[Cron] + Patience
    BY <1>1
       DEF OrderedInv, RunsOK, Busy, CallsOK, CallOK, LocalTypes, TimesOK
  <2>2. lastRun # None
    BY <2>1, Constants
  <2>3. Patience' = Patience
    BY DEF Patience
  <2>4. \A s \in snapshots' : s \in snapshots \/ s.at = now
    BY <1>1, <1>2 DEF new
  <2> QED BY <1>1, <2>1, <2>2, <2>3, <2>4 DEF OrderedInv, RunsOK, Busy
<1>6. CapturesNeverGoBack'
  <2> SUFFICES ASSUME NEW s \in snapshots', NEW t \in snapshots', s.at < t.at
               PROVE  s.rate <= t.rate
    BY DEF CapturesNeverGoBack
  <2>1. s \in snapshots \cup new /\ t \in snapshots \cup new
    BY <1>1 DEF new
  <2>2. CASE s \in new
    BY <1>1, <1>2, <1>4, <2>1, <2>2
  <2>3. CASE s \in snapshots /\ t \in new
    BY <1>3, <2>3
  <2>4. CASE s \in snapshots /\ t \in snapshots
    BY <2>4 DEF OrderedInv, CapturesNeverGoBack
  <2> QED BY <2>1, <2>2, <2>3, <2>4
<1>7. KeptIsNewest'
  <2> SUFFICES ASSUME NEW d \in Calls, pc'[d] = "keep"
               PROVE  Newest(rates[d], now)'
    BY DEF KeptIsNewest
  <2>1. d # Cron /\ Newest(rates[d], now) /\ rates'[d] = rates[d]
    BY <1>1 DEF OrderedInv, KeptIsNewest
  <2>2. \A s \in snapshots' : s \in snapshots \/ s.at >= now
    BY <1>1, <1>2 DEF new
  <2> QED BY <1>1, <2>1, <2>2 DEF Newest
<1>8. SavedIsNewest'
  BY <1>1 DEF SavedIsNewest, Holding
<1>9. CachedIsNewest'
  <2> SUFFICES ASSUME NEW b \in Currencies, cache[b] # None,
                      cache[b].table.source = "snapshot"
               PROVE  Newest(cache[b].table, CachedAt(cache[b]))'
    BY <1>1 DEF CachedIsNewest
  <2>1. Newest(cache[b].table, CachedAt(cache[b])) /\ CachedAt(cache[b]) <= now
    BY DEF OrderedInv, CachedIsNewest, EntriesOK, EntryOK
  <2>2. \A s \in snapshots' : s \in snapshots \/ s.at >= CachedAt(cache[b])
    BY <1>1, <1>2, <2>1 DEF new
  <2> QED BY <1>1, <2>1, <2>2 DEF Newest, CachedAt, Lifetime
<1> QED BY <1>5, <1>6, <1>7, <1>8, <1>9 DEF OrderedInv

LEMMA TickOrdered ==
    ASSUME IInv, OrderedInv, Tick
    PROVE  OrderedInv'
<1> USE Parts
<1>1. /\ now' = now + 1 /\ UNCHANGED <<snapshots, lastRun, rates>>
      /\ \A c \in Calls :
           /\ pc[c] \notin Holding /\ pc'[c] \notin Holding
           /\ (pc'[c] = pc[c] /\ asked'[c] = asked[c]) \/ pc'[c] = "idle"
      /\ \A b \in Currencies : cache'[b] \in {cache[b], None}
  BY DEF Tick, Waits, Holding
<1>2. RunsOK'
  <2>1. Busy(Cron)' => Busy(Cron) /\ asked'[Cron] = asked[Cron]
    BY <1>1 DEF Busy, Calls
  <2> QED BY <1>1, <2>1, RunsKept DEF OrderedInv
<1>3. CapturesNeverGoBack'
  BY <1>1 DEF OrderedInv, CapturesNeverGoBack
<1>4. KeptIsNewest' /\ SavedIsNewest'
  BY <1>1 DEF KeptIsNewest, SavedIsNewest, Holding, Calls
<1>5. CachedIsNewest'
  BY <1>1 DEF OrderedInv, CachedIsNewest, Newest, CachedAt, Lifetime
<1> QED BY <1>2, <1>3, <1>4, <1>5 DEF OrderedInv

LEMMA NextOrdered ==
    ASSUME RunsApart
    PROVE  IInv /\ OrderedInv /\ [Next]_vars => OrderedInv'
<1> SUFFICES ASSUME IInv, OrderedInv, [Next]_vars PROVE OrderedInv'
  OBVIOUS
<1>1. ASSUME NEW c \in Clients, NEW q \in Queries, Ask(c, q)
      PROVE  OrderedInv'
  BY <1>1, BeginOrdered, Constants DEF Ask, Calls
<1>2. CASE CaptureSnapshot
  BY <1>2, BeginOrdered DEF CaptureSnapshot, Calls
<1>3. ASSUME NEW c \in Calls, Step(c) PROVE OrderedInv'
  BY <1>3, StepOrdered
<1>4. CASE Toggle \/ UNCHANGED vars
  <2>1. UNCHANGED <<now, snapshots, cache, pc, asked, rates, lastRun>>
    BY <1>4 DEF Toggle, vars, stores, locals
  <2>2. RunsOK'
    BY <2>1, RunsKept DEF OrderedInv, Busy
  <2>3. CapturesNeverGoBack' /\ CachedIsNewest'
    BY <2>1 DEF OrderedInv, CapturesNeverGoBack, CachedIsNewest, Newest,
       CachedAt, Lifetime
  <2>4. KeptIsNewest' /\ SavedIsNewest'
    BY <2>1 DEF OrderedInv, KeptIsNewest, SavedIsNewest, Newest
  <2> QED BY <2>2, <2>3, <2>4 DEF OrderedInv
<1> QED
  BY <1>1, <1>2, <1>3, <1>4, SaveOrdered, TickOrdered DEF Next, Terminating

(* The rates that the job stores never go back, whatever it reads them from *)
(* and whoever else writes to the cache meanwhile, if its runs are further  *)
(* apart than a cache lifetime, a timeout and the longest run.             *)
THEOREM CapturesInOrder ==
    ASSUME RunsApart
    PROVE  Spec => []CapturesNeverGoBack
<1>1. Init => OrderedInv
  BY DEF Init, OrderedInv, RunsOK, CapturesNeverGoBack, KeptIsNewest,
     SavedIsNewest, CachedIsNewest, Busy, Holding, Calls
<1>2. IInv /\ OrderedInv /\ [Next]_vars => OrderedInv'
  BY NextOrdered
<1>3. OrderedInv => CapturesNeverGoBack
  BY DEF OrderedInv
<1> QED BY <1>1, <1>2, <1>3, Inductive, PTL DEF Spec
=============================================================================
