------------------------- MODULE TransactionHistory -------------------------
(***************************************************************************)
(* Reading two growing tables page by page: a user's transactions, newest   *)
(* first (src/src/transactions/services/transactions.service.ts), and the   *)
(* rate snapshots, oldest first (getRateHistory of fx-snapshot.service.ts). *)
(* Every page is a call of its own, and in every call the rows and the      *)
(* total are two queries, so rows are committed in between.                *)
(*                                                                         *)
(* created_at is when the inserting transaction began, so rows do not       *)
(* become visible in the order of their times.                             *)
(***************************************************************************)
EXTENDS Integers, FiniteSets, SequencesExt

CONSTANTS
    Writers,        \* database transactions that insert a row
    Posts,          \* the rows they may insert: user, kind, from, to
    Opening,        \* the rows of transactions at the start
    Quotes,         \* the currencies a capture stores
    MaxCaptures,    \* bound: captures of the hourly job
    Readers,
    Queries,        \* what they list or look up
    Day,            \* ticks
    None

VARIABLES
    clock,
    open,           \* the row each writer will commit
    transactions,   \* committed rows of transactions
    snapshots,      \* committed rows of fx_rate_snapshots
    pc, query,
    page,           \* the page a reader is at
    got,            \* the rows it has received, in order
    before          \* the rows that matched when it began

tables == <<transactions, snapshots>>
vars == <<clock, open, tables, pc, query, page, got, before>>

-----------------------------------------------------------------------------
(* Records.                                                                *)

MaxClock == Cardinality(Opening) + Cardinality(Writers) + MaxCaptures

Times == 0..MaxClock

(* A transaction's id is the time it was created at: times are distinct.   *)
TransactionRows ==
    {[user |-> p.user, kind |-> p.kind, from |-> p.from, to |-> p.to,
      at |-> t] : p \in Posts \cup Opening, t \in Times}

SnapshotRows == [quote: Quotes, at: Times]

Fields == UNION {{p.user, p.kind, p.from, p.to} : p \in Posts \cup Opening}

ListQueries ==
    [table: {"transactions"}, user: Fields, kind: Fields \cup {None},
     currency: Fields \cup {None}, from: Nat \cup {None},
     to: Nat \cup {None}, limit: 1..100, id: {None}]

FindQueries ==
    [table: {"transaction"}, user: Fields, kind: {None}, currency: {None},
     from: {None}, to: {None}, limit: {1}, id: Nat]

HistoryQueries ==
    [table: {"snapshots"}, user: Fields, kind: {None},
     currency: Quotes \cup {None}, from: Nat, to: Nat, limit: Nat \ {0},
     id: {None}]

ASSUME ConstantsOK ==
    /\ IsFiniteSet(Opening) /\ IsFiniteSet(Writers)
    /\ IsFiniteSet(Quotes) /\ Quotes # {}
    /\ Opening \subseteq TransactionRows
    /\ None \notin TransactionRows
    /\ {r.at : r \in Opening} = 1..Cardinality(Opening)
    /\ MaxCaptures \in Nat
    /\ Day \in Nat \ {0}
    /\ None \notin Quotes
    /\ Queries \subseteq ListQueries \cup FindQueries \cup HistoryQueries

-----------------------------------------------------------------------------
(* Queries.                                                                *)

(* Mutant: the user is not part of the condition. *)
MutantMine(q) == transactions
Mine(q) == {t \in transactions : t.user = q.user}

(* The optional filters; `to` is a date, and its whole day is included.     *)
ListedTransactions(q) ==
    {t \in Mine(q) :
        /\ q.kind # None => t.kind = q.kind
        /\ q.currency # None => q.currency \in {t.from, t.to}
        /\ q.from # None => t.at >= q.from
        /\ q.to # None => t.at < q.to + Day}

ListedSnapshots(q) ==
    {s \in snapshots :
        /\ s.at \in q.from..q.to
        /\ q.currency # None => s.quote = q.currency}

Listed(q) ==
    IF q.table = "snapshots" THEN ListedSnapshots(q) ELSE ListedTransactions(q)

(* Mutant: snapshots are listed newest first, like transactions. *)
MutantPrecedes(q, a, b) == a.at >= b.at

Precedes(q, a, b) ==
    IF q.table = "snapshots" THEN a.at <= b.at ELSE a.at >= b.at

(* The orders in which PostgreSQL may return them: rows of one capture      *)
(* have one time, and their order is anybody's guess in every query.       *)
Orders(q) ==
    {s \in SetToSeqs(Listed(q)) :
        \A i, j \in DOMAIN s : i < j => Precedes(q, s[i], s[j])}

(* Mutant: pages are counted from zero. *)
MutantSkip(q, n) == n * q.limit
Skip(q, n) == (n - 1) * q.limit

(* Mutant: one row more is taken, to see whether there is a next page. *)
MutantPageOf(s, q, n) ==
    [i \in {j \in 1..(q.limit + 1) : Skip(q, n) + j <= Len(s)} |->
        s[Skip(q, n) + i]]

(* skip and take *)
PageOf(s, q, n) ==
    [i \in {j \in 1..q.limit : Skip(q, n) + j <= Len(s)} |-> s[Skip(q, n) + i]]

-----------------------------------------------------------------------------
Init ==
    /\ clock = Cardinality(Opening)
    /\ open = [w \in Writers |-> None]
    /\ transactions = Opening
    /\ snapshots = {}
    /\ pc = [r \in Readers |-> "idle"]
    /\ query = [r \in Readers |-> None]
    /\ page = [r \in Readers |-> 0]
    /\ got = [r \in Readers |-> <<>>]
    /\ before = [r \in Readers |-> {}]

readers == <<pc, query, page, got, before>>

(* A wallet request begins its transaction: now() is fixed. *)
Begin(w, p) ==
    /\ open[w] = None
    /\ clock' = clock + 1
    /\ open' = [open EXCEPT ![w] =
                  [user |-> p.user, kind |-> p.kind, from |-> p.from,
                   to |-> p.to, at |-> clock']]
    /\ UNCHANGED <<tables, readers>>

(* ... and commits it, or not at all. *)
Commit(w) ==
    /\ open[w] # None
    /\ transactions' = transactions \cup {open[w]}
    /\ transactions' # transactions
    /\ UNCHANGED <<clock, open, snapshots, readers>>

(* The hourly job stores a row per currency, all with one time. *)
Capture ==
    /\ Cardinality({s.at : s \in snapshots}) < MaxCaptures
    /\ clock' = clock + 1
    /\ snapshots' = snapshots \cup {[quote |-> c, at |-> clock'] : c \in Quotes}
    /\ UNCHANGED <<open, transactions, readers>>

(* A client asks for the first page, or for one transaction. *)
Ask(r, q) ==
    /\ pc[r] = "idle"
    /\ pc' = [pc EXCEPT ![r] = IF q.table = "transaction" THEN "find"
                                                          ELSE "rows"]
    /\ query' = [query EXCEPT ![r] = q]
    /\ page' = [page EXCEPT ![r] = 1]
    /\ before' = [before EXCEPT ![r] = Listed(q)]
    /\ UNCHANGED <<clock, open, tables, got>>

(* Mutant: nothing found is answered as null. *)
MutantFindOne(r) ==
    /\ pc[r] = "find"
    /\ got' = [got EXCEPT ![r] =
                 IF \E t \in Mine(query[r]) : t.at = query[r].id
                 THEN SetToSeq({t \in Mine(query[r]) : t.at = query[r].id})
                 ELSE <<None>>]
    /\ pc' = [pc EXCEPT ![r] = "done"]
    /\ UNCHANGED <<clock, open, tables, query, page, before>>

(* getTransactionById: by id and user; nothing found is a 404. *)
FindOne(r) ==
    /\ pc[r] = "find"
    /\ got' = [got EXCEPT ![r] =
                 SetToSeq({t \in Mine(query[r]) : t.at = query[r].id})]
    /\ pc' = [pc EXCEPT ![r] = "done"]
    /\ UNCHANGED <<clock, open, tables, query, page, before>>

(* getManyAndCount: first the rows of the page.  A short page tells TypeORM *)
(* the total, and the client that it was the last.                         *)
ReadRows(r) ==
    LET q == query[r]
    IN /\ pc[r] = "rows"
       /\ \E s \in Orders(q) :
            LET rows == PageOf(s, q, page[r])
            IN /\ got' = [got EXCEPT ![r] = @ \o rows]
               /\ \E label \in {"count"} \cup
                     (IF Len(rows) < q.limit THEN {"done"} ELSE {}) :
                    pc' = [pc EXCEPT ![r] = label]
       /\ UNCHANGED <<clock, open, tables, query, page, before>>

(* Mutant: the total is as old as the reader's first look at the table.    *)
MutantTotal(r) == Cardinality(before[r])
Total(r) == Cardinality(Listed(query[r]))

(* Then, in a query of its own, the total.  The client asks for the next    *)
(* page until it has seen the one that reaches the total it is told.       *)
ReadTotal(r) ==
    /\ pc[r] = "count"
    /\ \/ /\ page[r] * query[r].limit < Total(r)
          /\ page' = [page EXCEPT ![r] = @ + 1]
          /\ pc' = [pc EXCEPT ![r] = "rows"]
       \/ /\ page[r] * query[r].limit >= Total(r)
          /\ pc' = [pc EXCEPT ![r] = "done"]
          /\ UNCHANGED page
    /\ UNCHANGED <<clock, open, tables, query, got, before>>

Terminating ==
    /\ \A r \in Readers : pc[r] = "done"
    /\ UNCHANGED vars

Read(r) == FindOne(r) \/ ReadRows(r) \/ ReadTotal(r)

Next ==
    \/ \E w \in Writers, p \in Posts : Begin(w, p)
    \/ \E w \in Writers : Commit(w)
    \/ Capture
    \/ \E r \in Readers, q \in Queries : Ask(r, q)
    \/ \E r \in Readers : Read(r)
    \/ Terminating

Spec == Init /\ [][Next]_vars

-----------------------------------------------------------------------------
(* Properties.                                                             *)

(* The variables have their types. *)
TypeOK ==
    /\ clock \in Times
    /\ open \in [Writers -> TransactionRows \cup {None}]
    /\ transactions \subseteq TransactionRows
    /\ snapshots \subseteq SnapshotRows
    /\ pc \in [Readers -> {"idle", "find", "rows", "count", "done"}]
    /\ query \in [Readers -> Queries \cup {None}]
    /\ page \in [Readers -> Nat]
    /\ got \in [Readers -> Seq(TransactionRows \cup SnapshotRows)]
    /\ before \in [Readers -> SUBSET (TransactionRows \cup SnapshotRows)]

Lists(r) == query[r] # None /\ query[r].table # "transaction"

(* The order of the rows is determined: transactions have distinct times,   *)
(* snapshots of one currency too.                                          *)
Determined(q) == q.table = "transactions" \/ q.currency # None

(* Whoever reads to the end has every row that was there at the beginning,  *)
(* although the pages move while transactions commit, out of order.        *)
PagesMissNothing ==
    \A r \in Readers :
        pc[r] = "done" /\ Lists(r) /\ Determined(query[r])
          => before[r] \subseteq ToSet(got[r])

(* A row is shown again only because another one came: repetitions are at   *)
(* most as many as the matching rows committed since the reader began.      *)
RepeatsAreExplained ==
    \A r \in Readers :
        Lists(r) /\ Determined(query[r]) =>
            Len(got[r]) - Cardinality(ToSet(got[r]))
              <= Cardinality(Listed(query[r]) \ before[r])

(* The history of one currency comes in the order of its times and without *)
(* repetition, although the job adds to it between the pages.              *)
HistoryInOrder ==
    \A r \in Readers :
        Lists(r) /\ query[r].table = "snapshots" /\ Determined(query[r]) =>
            \A i, j \in DOMAIN got[r] : i < j => got[r][i].at < got[r][j].at

(* Nobody is ever shown a transaction of another user, page by page or by   *)
(* its id.                                                                 *)
OwnRowsOnly ==
    \A r \in Readers :
        query[r] # None /\ query[r].table # "snapshots" =>
            \A t \in ToSet(got[r]) : t.user = query[r].user

(* A page is never told with a total below the number of rows shown up to   *)
(* then, those shown twice included, although rows are committed between    *)
(* the query of the rows and that of the total, and between the pages.      *)
TotalsCoverPages ==
    \A r \in Readers : pc[r] = "count" => Len(got[r]) <= Total(r)
=============================================================================
