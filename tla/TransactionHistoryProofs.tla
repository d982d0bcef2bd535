---------------------- MODULE TransactionHistoryProofs ----------------------
(***************************************************************************)
(* Proofs about TransactionHistory, for every set of writers, rows, readers *)
(* and queries, every page size and every number of captures.              *)
(*                                                                         *)
(* The argument is about the place of a row: how many rows of the list come *)
(* no later than it.  A page shows the rows whose places lie in a window of *)
(* `limit' places, and the windows of consecutive pages adjoin.  Committed  *)
(* transactions only push rows to later places, so a row that was there at  *)
(* the beginning is in a window sooner or later; captures come last, so     *)
(* that no place in the history of a currency ever changes.                *)
(***************************************************************************)
EXTENDS TransactionHistory, FunctionTheorems, FiniteSetTheorems,
        SequenceTheorems, TLAPS

Begun == {w \in Writers : open[w] # None}

Captures == {s.at : s \in snapshots}

(* Rows committed and rows to be committed. *)
AllRows == transactions \cup {open[w] : w \in Begun}

Shown(r) == ToSet(got[r])

(* How many rows of the list come no later than x. *)
Place(q, x) == Cardinality({y \in Listed(q) : Precedes(q, y, x)})

(* How many places reader r has read, or skipped. *)
Past(r) ==
    IF pc[r] = "rows" THEN Skip(query[r], page[r])
                      ELSE page[r] * query[r].limit

(* Time goes on with every beginning and every capture, and nothing else   *)
(* takes it.                                                               *)
TablesOK ==
    /\ IsFiniteSet(transactions) /\ IsFiniteSet(snapshots)
    /\ clock = Cardinality(Opening) + Cardinality(Begun) + Cardinality(Captures)
    /\ Cardinality(Captures) <= MaxCaptures
    /\ \A x \in AllRows : x.at <= clock
    /\ \A x, y \in AllRows : x.at = y.at => x = y
    /\ \A s \in snapshots : s.at <= clock

ReaderOK(r) ==
    /\ pc[r] = "idle" => query[r] = None /\ got[r] = <<>>
    /\ pc[r] # "idle" => query[r] \in Queries
    /\ got[r] \in Seq(transactions \cup snapshots)
    /\ pc[r] \in {"rows", "count"} =>
         query[r].table # "transaction" /\ page[r] >= 1
    /\ pc[r] = "find" => query[r].table = "transaction" /\ got[r] = <<>>

OwnOK(r) ==
    pc[r] # "idle" /\ query[r].table # "snapshots" =>
        \A t \in Shown(r) : t.user = query[r].user

(* No more rows are shown than there are, or than the pages can hold. *)
CountOK(r) ==
    /\ Len(got[r]) <= Cardinality(Listed(query[r]))
    /\ pc[r] # "done" => Len(got[r]) <= Past(r)

(* Nothing is lost and nothing comes twice for nothing. *)
CompleteOK(r) ==
    /\ Len(got[r]) - Cardinality(Shown(r))
         <= Cardinality(Listed(query[r]) \ before[r])
    /\ pc[r] # "done" =>
         \A b \in before[r] \ Shown(r) : Past(r) < Place(query[r], b)
    /\ pc[r] = "done" => before[r] \subseteq Shown(r)

(* The history of a currency, as far as it was read. *)
SortedOK(r) ==
    /\ \A i, j \in DOMAIN got[r] : i < j => got[r][i].at < got[r][j].at
    /\ pc[r] # "done" => \A x \in Shown(r) : Place(query[r], x) <= Past(r)

PagesOK(r) ==
    pc[r] # "idle" /\ query[r].table # "transaction" =>
        /\ before[r] \cup Shown(r) \subseteq Listed(query[r])
        /\ CountOK(r)
        /\ Determined(query[r]) => CompleteOK(r)
        /\ Determined(query[r]) /\ query[r].table = "snapshots" => SortedOK(r)

IInv ==
    /\ TypeOK
    /\ TablesOK
    /\ \A r \in Readers : ReaderOK(r) /\ OwnOK(r) /\ PagesOK(r)

-----------------------------------------------------------------------------
(* Counting.                                                               *)

Prefix(s, m) == {s[i] : i \in 1..m}

LEMMA PrefixSize ==
    ASSUME NEW N \in Nat, NEW L, NEW s \in [1..N -> L],
           \A i, j \in 1..N : i # j => s[i] # s[j],
           NEW m \in 0..N
    PROVE  IsFiniteSet(Prefix(s, m)) /\ Cardinality(Prefix(s, m)) = m
<1> DEFINE T == {s[i] : i \in 1..m}
           f == [i \in 1..m |-> s[i]]
<1>1. m \in Nat /\ 1..m \subseteq 1..N
  OBVIOUS
<1>2. f \in [1..m -> T]
  OBVIOUS
<1>3. \A a, b \in 1..m : f[a] = f[b] => a = b
  BY <1>1
<1>4. \A t \in T : \E a \in 1..m : f[a] = t
  OBVIOUS
<1>5. f \in Bijection(1..m, T)
  <2> HIDE DEF f, T
  <2> QED BY <1>2, <1>3, <1>4, Fun_IsBij
<1>6. ExistsBijection(1..m, T)
  BY <1>5 DEF ExistsBijection
<1> HIDE DEF T
<1>7. Cardinality(T) = m
  BY <1>1, <1>6, FS_CountingElements
<1>8. IsFiniteSet(T)
  BY <1>1, <1>6, FS_NatBijection
<1> QED BY <1>7, <1>8 DEF T, Prefix

(* A list without repetition as long as the set is all of the set. *)
LEMMA ListIsOnto ==
    ASSUME NEW L, IsFiniteSet(L), NEW s \in SetToSeqs(L)
    PROVE  /\ Cardinality(L) \in Nat
           /\ s \in [1..Cardinality(L) -> L]
           /\ DOMAIN s = 1..Cardinality(L)
           /\ Len(s) = Cardinality(L)
           /\ \A i, j \in 1..Cardinality(L) : i # j => s[i] # s[j]
           /\ \A x \in L : \E i \in 1..Cardinality(L) : s[i] = x
<1>1. PICK N \in Nat : N = Cardinality(L)
  BY FS_CardinalityType
<1>2. s \in [1..N -> L] /\ \A i, j \in 1..N : i # j => s[i] # s[j]
  BY <1>1 DEF SetToSeqs
<1>3. s \in Injection(1..N, L)
  BY <1>2, Fun_IsInj
<1>4. Cardinality(1..N) = N
  BY FS_Interval
<1>5. s \in Surjection(1..N, L)
  BY <1>1, <1>3, <1>4, FS_Injection
<1>6. \A x \in L : \E i \in 1..N : s[i] = x
  BY <1>5 DEF Surjection
<1>7. Len(s) = N
  BY <1>2
<1> QED BY <1>1, <1>2, <1>6, <1>7

LEMMA AtMostBoth ==
    ASSUME NEW S, NEW T, NEW X, IsFiniteSet(S), IsFiniteSet(T),
           X \subseteq S \cup T
    PROVE  Cardinality(X) <= Cardinality(S) + Cardinality(T)
<1>1. /\ IsFiniteSet(S \cup T) /\ Cardinality(S \cap T) \in Nat
      /\ Cardinality(S \cup T)
           = Cardinality(S) + Cardinality(T) - Cardinality(S \cap T)
  <2>1. IsFiniteSet(S \cap T)
    BY FS_Intersection
  <2> QED BY <2>1, FS_Union, FS_CardinalityType
<1>2. Cardinality(X) <= Cardinality(S \cup T) /\ Cardinality(X) \in Nat
  BY <1>1, FS_Subset, FS_CardinalityType
<1> QED BY <1>1, <1>2, FS_CardinalityType

-----------------------------------------------------------------------------
(* Places.                                                                 *)

(* The times of the listed rows are numbers, and tell the rows apart. *)
Ordered(q) ==
    /\ IsFiniteSet(Listed(q))
    /\ \A x \in Listed(q) : x.at \in Nat
    /\ \A x, y \in Listed(q) : x.at = y.at => x = y

LEMMA PlaceType ==
    ASSUME NEW q, IsFiniteSet(Listed(q)), NEW x
    PROVE  Place(q, x) \in Nat /\ Place(q, x) <= Cardinality(Listed(q))
<1>1. {y \in Listed(q) : Precedes(q, y, x)} \in SUBSET Listed(q)
  OBVIOUS
<1> QED BY <1>1, FS_Subset, FS_CardinalityType DEF Place

(* In every order PostgreSQL may choose, a row is at its place. *)
LEMMA PlaceIsPosition ==
    ASSUME NEW q, Ordered(q), NEW s \in Orders(q), NEW i \in DOMAIN s
    PROVE  Place(q, s[i]) = i
<1> DEFINE L == Listed(q)
           N == Cardinality(L)
<1>1. s \in SetToSeqs(L)
  BY DEF Orders
<1>2. /\ N \in Nat /\ s \in [1..N -> L] /\ DOMAIN s = 1..N
      /\ \A j, k \in 1..N : j # k => s[j] # s[k]
      /\ \A x \in L : \E j \in 1..N : s[j] = x
  BY <1>1, ListIsOnto DEF Ordered
<1>3. \A j, k \in 1..N : j < k => Precedes(q, s[j], s[k])
  BY <1>2 DEF Orders
<1>4. \A x, y \in L : Precedes(q, x, y) /\ Precedes(q, y, x) => x = y
  BY DEF Ordered, Precedes
<1>5. \A x \in L : Precedes(q, x, x)
  BY DEF Ordered, Precedes
<1> HIDE DEF L, N
<1>6. i \in 1..N /\ i \in 0..N
  BY <1>2
<1>7. {y \in L : Precedes(q, y, s[i])} = Prefix(s, i)
  <2>1. ASSUME NEW y \in L, Precedes(q, y, s[i])
        PROVE  y \in {s[j] : j \in 1..i}
    <3>1. PICK j \in 1..N : s[j] = y
      BY <1>2
    <3>2. ~ (i < j)
      <4> SUFFICES ASSUME i < j PROVE FALSE
        OBVIOUS
      <4>1. Precedes(q, s[i], s[j])
        BY <1>3, <1>6
      <4>2. s[i] = s[j]
        BY <1>2, <1>4, <1>6, <2>1, <3>1, <4>1
      <4> QED BY <1>2, <1>6, <4>2
    <3> QED BY <1>6, <3>1, <3>2
  <2>2. ASSUME NEW j \in 1..i
        PROVE  s[j] \in L /\ Precedes(q, s[j], s[i])
    <3>1. j \in 1..N
      BY <1>2, <1>6
    <3>2. CASE j < i
      BY <1>2, <1>3, <1>6, <3>1, <3>2
    <3>3. CASE j = i
      BY <1>2, <1>5, <3>1, <3>3
    <3> QED BY <1>2, <1>6, <3>1, <3>2, <3>3
  <2> QED BY <2>1, <2>2 DEF Prefix
<1>8. Cardinality(Prefix(s, i)) = i
  BY <1>2, <1>6, PrefixSize
<1> QED BY <1>7, <1>8 DEF Place, L

(* A page shows the rows at its places. *)
LEMMA PageIsWindow ==
    ASSUME NEW q, q.limit \in Nat \ {0}, NEW n \in Nat \ {0},
           IsFiniteSet(Listed(q)), NEW s \in SetToSeqs(Listed(q))
    PROVE  LET rows == PageOf(s, q, n)
               past == Skip(q, n)
               N == Cardinality(Listed(q))
           IN /\ past \in Nat /\ past + q.limit = n * q.limit
              /\ rows \in Seq(Listed(q)) /\ Len(rows) \in 0..q.limit
              /\ Len(rows) > 0 => past + Len(rows) <= N
              /\ Len(rows) < q.limit => past + Len(rows) >= N
              /\ \A j \in 1..Len(rows) :
                   past + j \in 1..N /\ rows[j] = s[past + j]
<1> DEFINE past == Skip(q, n)
           L == Listed(q)
           N == Cardinality(L)
           limit == q.limit
<1>1. past \in Nat /\ past + limit = n * limit
  <2>1. (n - 1) \in Nat /\ (n - 1) * limit + limit = n * limit
    OBVIOUS
  <2>2. (n - 1) * limit \in Nat
    BY <2>1
  <2> QED BY <2>1, <2>2 DEF Skip
<1>2. N \in Nat /\ s \in [1..N -> L] /\ Len(s) = N
  BY ListIsOnto
<1> HIDE DEF past, L, N
<1>3. PICK k \in Nat :
        /\ {j \in 1..limit : past + j <= N} = 1..k
        /\ k <= limit /\ (k > 0 => past + k <= N)
        /\ k < limit => past + k >= N
  <2>1. CASE N <= past
    <3>1. {j \in 1..limit : past + j <= N} = 1..0
      BY <1>1, <1>2, <2>1
    <3> QED BY <1>1, <1>2, <2>1, <3>1
  <2>2. CASE past < N /\ N - past <= limit
    <3>1. {j \in 1..limit : past + j <= N} = 1..(N - past)
      BY <1>1, <1>2, <2>2
    <3>2. N - past \in Nat
      BY <1>1, <1>2, <2>2
    <3> QED BY <1>1, <1>2, <2>2, <3>1, <3>2
  <2>3. CASE limit < N - past
    <3>1. {j \in 1..limit : past + j <= N} = 1..limit
      BY <1>1, <1>2, <2>3
    <3> QED BY <1>1, <1>2, <2>3, <3>1
  <2>4. N <= past \/ (past < N /\ N - past <= limit) \/ limit < N - past
    BY <1>1, <1>2
  <2> HIDE DEF limit
  <2> QED BY <2>1, <2>2, <2>3, <2>4
<1>4. PageOf(s, q, n) = [j \in 1..k |-> s[past + j]]
  BY <1>2, <1>3 DEF PageOf, past
<1>5. \A j \in 1..k : past + j \in 1..N /\ s[past + j] \in L
  BY <1>1, <1>2, <1>3
<1>6. /\ PageOf(s, q, n) \in [1..k -> L]
      /\ \A j \in 1..k : PageOf(s, q, n)[j] = s[past + j]
  BY <1>4, <1>5
<1>7. PageOf(s, q, n) \in Seq(L) /\ Len(PageOf(s, q, n)) = k
  BY <1>6
<1> QED BY <1>1, <1>3, <1>5, <1>6, <1>7 DEF past, L, N

-----------------------------------------------------------------------------
(* Types.                                                                  *)

LEMMA ConstantTypes ==
    /\ Cardinality(Opening) \in Nat /\ Cardinality(Writers) \in Nat
    /\ MaxClock \in Nat /\ Times \subseteq Nat
<1>1. Cardinality(Opening) \in Nat /\ Cardinality(Writers) \in Nat
  BY ConstantsOK, FS_CardinalityType
<1>2. MaxClock \in Nat
  BY <1>1, ConstantsOK DEF MaxClock
<1> QED BY <1>1, <1>2 DEF Times

LEMMA QueryTypes ==
    ASSUME NEW q \in Queries
    PROVE  /\ q.table \in {"transactions", "transaction", "snapshots"}
           /\ q.limit \in Nat \ {0}
<1>1. q \in ListQueries \/ q \in FindQueries \/ q \in HistoryQueries
  BY ConstantsOK
<1>2. q.table \in {"transactions", "transaction", "snapshots"}
  BY <1>1 DEF ListQueries, FindQueries, HistoryQueries
<1>3. q.limit \in Nat \ {0}
  BY <1>1 DEF ListQueries, FindQueries, HistoryQueries
<1> QED BY <1>2, <1>3

LEMMA RowTypes ==
    /\ \A x \in TransactionRows \cup SnapshotRows : x.at \in Nat
    /\ \A x \in SnapshotRows : x = [quote |-> x.quote, at |-> x.at]
<1>1. \A x \in TransactionRows : x.at \in Nat
  BY ConstantTypes DEF TransactionRows
<1>2. \A x \in SnapshotRows : x.at \in Nat
  BY ConstantTypes DEF SnapshotRows
<1>3. \A x \in SnapshotRows : x = [quote |-> x.quote, at |-> x.at]
  BY DEF SnapshotRows
<1> QED BY <1>1, <1>2, <1>3

(* What a list contains, and when its order is determined. *)
LEMMA ListedRows ==
    ASSUME TablesOK, transactions \subseteq TransactionRows,
           snapshots \subseteq SnapshotRows,
           NEW q \in Queries
    PROVE  /\ q.table = "snapshots" => Listed(q) \subseteq snapshots
           /\ q.table # "snapshots" =>
                /\ Listed(q) \subseteq transactions
                /\ \A x \in Listed(q) : x.user = q.user
           /\ IsFiniteSet(Listed(q))
           /\ q.table # "transaction" /\ Determined(q) => Ordered(q)
<1>1. q.table = "snapshots" => Listed(q) \subseteq snapshots
  BY DEF Listed, ListedSnapshots
<1>2. q.table # "snapshots" => /\ Listed(q) \subseteq transactions
                               /\ \A x \in Listed(q) : x.user = q.user
  BY DEF Listed, ListedTransactions, Mine
<1>3. IsFiniteSet(Listed(q))
  BY <1>1, <1>2, FS_Subset DEF TablesOK
<1>4. ASSUME q.table = "snapshots", Determined(q) PROVE Ordered(q)
  <2>1. \A x \in Listed(q) : x \in SnapshotRows /\ x.quote = q.currency
    BY <1>4 DEF Listed, ListedSnapshots, Determined
  <2>2. \A x, y \in Listed(q) : x.at = y.at => x = y
    BY <2>1, RowTypes
  <2> QED BY <1>3, <2>1, <2>2, RowTypes DEF Ordered
<1>5. ASSUME q.table = "transactions" PROVE Ordered(q)
  <2>1. Listed(q) \subseteq transactions
    BY <1>2, <1>5
  <2>2. \A x, y \in transactions : x.at = y.at => x = y
    BY DEF TablesOK, AllRows
  <2> QED BY <1>3, <2>1, <2>2, RowTypes DEF Ordered
<1> QED BY <1>1, <1>2, <1>3, <1>4, <1>5, QueryTypes DEF Determined

LEMMA PastType ==
    ASSUME TypeOK, NEW r \in Readers, ReaderOK(r), pc[r] # "idle",
           query[r].table # "transaction"
    PROVE  Past(r) \in Nat
<1>1. query[r] \in Queries /\ query[r].limit \in Nat \ {0} /\ page[r] \in Nat
  BY QueryTypes DEF ReaderOK, TypeOK
<1>2. page[r] * query[r].limit \in Nat
  BY <1>1
<1>3. pc[r] = "rows" => page[r] - 1 \in Nat
  BY <1>1 DEF ReaderOK
<1>4. pc[r] = "rows" => (page[r] - 1) * query[r].limit \in Nat
  BY <1>1, <1>3
<1> QED BY <1>2, <1>4 DEF Past, Skip

(* Rows are only added: lists grow, and rows move to later places only.     *)
LEMMA ListsGrow ==
    ASSUME transactions \subseteq transactions', snapshots \subseteq snapshots',
           IsFiniteSet(transactions'), IsFiniteSet(snapshots'), NEW q
    PROVE  /\ Listed(q) \subseteq Listed(q)'
           /\ IsFiniteSet(Listed(q)) /\ IsFiniteSet(Listed(q)')
           /\ Cardinality(Listed(q)) \in Nat /\ Cardinality(Listed(q)') \in Nat
           /\ Cardinality(Listed(q)) <= Cardinality(Listed(q)')
           /\ \A X : /\ Cardinality(Listed(q) \ X) \in Nat
                     /\ Cardinality(Listed(q)' \ X) \in Nat
                     /\ Cardinality(Listed(q) \ X) <= Cardinality(Listed(q)' \ X)
           /\ \A x : /\ Place(q, x) \in Nat /\ Place(q, x)' \in Nat
                     /\ Place(q, x) <= Place(q, x)'
<1>1. Listed(q) \subseteq Listed(q)'
  BY DEF Listed, ListedSnapshots, ListedTransactions, Mine
<1>2. IsFiniteSet(Listed(q)')
  <2>1. q.table = "snapshots" => Listed(q)' \subseteq snapshots'
    BY DEF Listed, ListedSnapshots
  <2>2. q.table # "snapshots" => Listed(q)' \subseteq transactions'
    BY DEF Listed, ListedTransactions, Mine
  <2> QED BY <2>1, <2>2, FS_Subset
<1>3. ASSUME NEW A, NEW B, A \subseteq B, B \subseteq Listed(q)'
      PROVE  /\ IsFiniteSet(A) /\ Cardinality(A) \in Nat
             /\ Cardinality(B) \in Nat /\ Cardinality(A) <= Cardinality(B)
  BY <1>2, <1>3, FS_Subset, FS_CardinalityType
<1>4. ASSUME NEW X
      PROVE  /\ Cardinality(Listed(q) \ X) \in Nat
             /\ Cardinality(Listed(q)' \ X) \in Nat
             /\ Cardinality(Listed(q) \ X) <= Cardinality(Listed(q)' \ X)
  <2>1. Listed(q) \ X \subseteq Listed(q)' \ X /\ Listed(q)' \ X \subseteq Listed(q)'
    BY <1>1
  <2> QED BY <1>3, <2>1
<1>5. ASSUME NEW x
      PROVE  /\ Place(q, x) \in Nat /\ Place(q, x)' \in Nat
             /\ Place(q, x) <= Place(q, x)'
  <2> DEFINE A == {y \in Listed(q) : Precedes(q, y, x)}
             B == {y \in Listed(q)' : Precedes(q, y, x)}
  <2>1. A \subseteq B /\ B \subseteq Listed(q)'
    BY <1>1
  <2>2. Place(q, x) = Cardinality(A) /\ Place(q, x)' = Cardinality(B)
    BY DEF Place, Precedes
  <2> HIDE DEF A, B
  <2> QED BY <1>3, <2>1, <2>2
<1> QED BY <1>1, <1>2, <1>3, <1>4, <1>5

(* Captures come last: no place in the history of a currency changes. *)
LEMMA PlacesStay ==
    ASSUME snapshots \subseteq snapshots',
           snapshots' \subseteq SnapshotRows, clock \in Nat,
           \A s \in snapshots' \ snapshots : s.at > clock,
           \A s \in snapshots : s.at <= clock,
           NEW q, q.table = "snapshots", NEW x \in snapshots
    PROVE  Place(q, x)' = Place(q, x)
<1>1. x.at \in Nat /\ x.at <= clock /\ \A y \in snapshots' : y.at \in Nat
  BY RowTypes
<1>2. ASSUME NEW y \in Listed(q)', Precedes(q, y, x) PROVE y \in Listed(q)
  BY <1>1, <1>2 DEF Listed, ListedSnapshots, Precedes
<1>3. Listed(q) \subseteq Listed(q)'
  BY DEF Listed, ListedSnapshots
<1>4. {y \in Listed(q)' : Precedes(q, y, x)} = {y \in Listed(q) : Precedes(q, y, x)}
  BY <1>2, <1>3
<1>5. Place(q, x)' = Cardinality({y \in Listed(q)' : Precedes(q, y, x)})
  BY DEF Place, Precedes
<1> QED BY <1>4, <1>5 DEF Place

(* What a reader has, and what it may count on, stays so. *)
LEMMA TablesGrow ==
    ASSUME IInv, UNCHANGED readers,
           IsFiniteSet(transactions'), IsFiniteSet(snapshots'),
           snapshots' \subseteq SnapshotRows,
           transactions \subseteq transactions', snapshots \subseteq snapshots',
           \A s \in snapshots' \ snapshots : s.at > clock,
           NEW r \in Readers
    PROVE  ReaderOK(r)' /\ OwnOK(r)' /\ PagesOK(r)'
<1>1. /\ pc'[r] = pc[r] /\ query'[r] = query[r] /\ page'[r] = page[r]
      /\ got'[r] = got[r] /\ before'[r] = before[r]
  BY DEF readers
<1>2. TypeOK /\ TablesOK /\ ReaderOK(r) /\ OwnOK(r) /\ PagesOK(r)
  BY DEF IInv
<1>3. ReaderOK(r)'
  <2>1. transactions \cup snapshots \subseteq transactions' \cup snapshots'
    OBVIOUS
  <2>2. got[r] \in Seq(transactions' \cup snapshots')
    BY <1>2, <2>1 DEF ReaderOK
  <2> QED BY <1>1, <1>2, <2>2 DEF ReaderOK
<1>4. OwnOK(r)'
  BY <1>1, <1>2 DEF OwnOK, Shown
<1>5. PagesOK(r)'
  <2> SUFFICES ASSUME pc[r] # "idle", query[r].table # "transaction"
               PROVE  PagesOK(r)'
    BY <1>1 DEF PagesOK
  <2>1. PICK q : q = query[r]
    OBVIOUS
  <2>2. PICK S : S = Shown(r)
    OBVIOUS
  <2>3. PICK past : past = Past(r)
    OBVIOUS
  <2>4. query'[r] = q /\ Shown(r)' = S /\ Past(r)' = past
    BY <1>1, <2>1, <2>2, <2>3 DEF Past, Shown, Skip
  <2>5. q \in Queries /\ past \in Nat /\ Len(got[r]) \in Nat
    BY <1>2, <2>1, <2>3, PastType DEF ReaderOK
  <2>6. /\ Listed(q) \subseteq Listed(q)' /\ IsFiniteSet(Listed(q))
        /\ Cardinality(Listed(q)) \in Nat /\ Cardinality(Listed(q)') \in Nat
        /\ Cardinality(Listed(q)) <= Cardinality(Listed(q)')
        /\ \A X : /\ Cardinality(Listed(q) \ X) \in Nat
                  /\ Cardinality(Listed(q)' \ X) \in Nat
                  /\ Cardinality(Listed(q) \ X) <= Cardinality(Listed(q)' \ X)
        /\ \A x : /\ Place(q, x) \in Nat /\ Place(q, x)' \in Nat
                  /\ Place(q, x) <= Place(q, x)'
    BY ListsGrow
  <2>7. before[r] \cup S \subseteq Listed(q)
    BY <1>2, <2>1, <2>2 DEF PagesOK
  <2>8. Cardinality(S) \in Nat
    BY <2>6, <2>7, FS_Subset, FS_CardinalityType
  <2>9. ASSUME Determined(q) PROVE CompleteOK(r)'
    <3>1. /\ Len(got[r]) - Cardinality(S) <= Cardinality(Listed(q) \ before[r])
          /\ pc[r] # "done" => \A b \in before[r] \ S : past < Place(q, b)
          /\ pc[r] = "done" => before[r] \subseteq S
      BY <1>2, <2>1, <2>2, <2>3, <2>9 DEF PagesOK, CompleteOK
    <3>2. Len(got[r]) - Cardinality(S) <= Cardinality(Listed(q)' \ before[r])
      <4>1. /\ Cardinality(Listed(q) \ before[r]) \in Nat
            /\ Cardinality(Listed(q)' \ before[r]) \in Nat
            /\ Cardinality(Listed(q) \ before[r])
                 <= Cardinality(Listed(q)' \ before[r])
        BY <2>6
      <4> QED BY <2>5, <2>8, <3>1, <4>1
    <3>3. pc[r] # "done" => \A b \in before[r] \ S : past < Place(q, b)'
      BY <2>5, <2>6, <3>1
    <3> QED BY <1>1, <2>4, <3>1, <3>2, <3>3 DEF CompleteOK
  <2>10. ASSUME Determined(q), q.table = "snapshots" PROVE SortedOK(r)'
    <3>1. /\ \A i, j \in DOMAIN got[r] : i < j => got[r][i].at < got[r][j].at
          /\ pc[r] # "done" => \A x \in S : Place(q, x) <= past
      BY <1>2, <2>1, <2>2, <2>3, <2>10 DEF PagesOK, SortedOK
    <3>2. S \subseteq snapshots
      BY <2>7, <2>10 DEF Listed, ListedSnapshots
    <3>3. clock \in Nat /\ \A s \in snapshots : s.at <= clock
      BY <1>2, ConstantTypes DEF TypeOK, TablesOK
    <3>4. \A x \in S : Place(q, x)' = Place(q, x)
      BY <2>10, <3>2, <3>3, PlacesStay
    <3> QED BY <1>1, <2>4, <3>1, <3>4 DEF SortedOK
  <2>11. CountOK(r)'
    <3>1. /\ Len(got[r]) <= Cardinality(Listed(q))
          /\ pc[r] # "done" => Len(got[r]) <= past
      BY <1>2, <2>1, <2>3 DEF PagesOK, CountOK
    <3>2. Len(got[r]) <= Cardinality(Listed(q)')
      BY <2>5, <2>6, <3>1
    <3> QED BY <1>1, <2>4, <3>1, <3>2 DEF CountOK
  <2> QED BY <1>1, <2>4, <2>6, <2>7, <2>9, <2>10, <2>11 DEF PagesOK
<1> QED BY <1>3, <1>4, <1>5

-----------------------------------------------------------------------------
(* The beginning, and the steps of the tables.                              *)

LEMMA InitInv == Init => IInv
<1> SUFFICES ASSUME Init PROVE IInv
  OBVIOUS
<1> DEFINE N == Cardinality(Opening)
<1>1. N \in Nat /\ N <= MaxClock
  BY ConstantTypes, ConstantsOK DEF MaxClock
<1>2. Begun = {} /\ Captures = {} /\ AllRows = Opening
  BY DEF Init, Begun, Captures, AllRows
<1>3. \A x \in Opening : x.at \in 1..N
  BY ConstantsOK
<1>4. \A x, y \in Opening : x.at = y.at => x = y
  <2> DEFINE f == [x \in Opening |-> x.at]
  <2>1. f \in Surjection(Opening, 1..N)
    <3>1. \A t \in 1..N : \E x \in Opening : f[x] = t
      BY ConstantsOK
    <3>2. f \in [Opening -> 1..N]
      BY <1>3
    <3> HIDE DEF f, N
    <3> QED BY <3>1, <3>2, Fun_IsSurj
  <2>2. Cardinality(1..N) = Cardinality(Opening)
    BY <1>1, FS_Interval
  <2>3. f \in Injection(Opening, 1..N)
    <3> HIDE DEF f, N
    <3> QED BY <2>1, <2>2, ConstantsOK, FS_SurjSameCardinalityImpliesInj
  <2>4. \A x, y \in Opening : f[x] = f[y] => x = y
    <3> HIDE DEF f, N
    <3> QED BY <2>3 DEF Injection, IsInjective
  <2> QED BY <2>4
<1>5. TablesOK
  <2>1. IsFiniteSet(Opening) /\ IsFiniteSet({}) /\ Cardinality({}) = 0
    BY ConstantsOK, FS_EmptySet
  <2>2. clock = N /\ transactions = Opening /\ snapshots = {}
    BY DEF Init
  <2>3. \A x \in Opening : x.at <= N
    BY <1>1, <1>3
  <2>4. clock = N + Cardinality(Begun) + Cardinality(Captures)
        /\ Cardinality(Captures) <= MaxCaptures
    BY <1>1, <1>2, <2>1, <2>2, ConstantsOK
  <2> QED BY <1>2, <1>4, <2>1, <2>2, <2>3, <2>4 DEF TablesOK
<1>6. TypeOK
  <2>1. clock \in Times
    BY <1>1, ConstantTypes DEF Init, Times
  <2>2. open \in [Writers -> TransactionRows \cup {None}]
    BY DEF Init
  <2>3. transactions \subseteq TransactionRows /\ snapshots \subseteq SnapshotRows
    BY ConstantsOK DEF Init
  <2>4. /\ got \in [Readers -> Seq(TransactionRows \cup SnapshotRows)]
        /\ before \in [Readers -> SUBSET (TransactionRows \cup SnapshotRows)]
    BY DEF Init
  <2> QED BY <2>1, <2>2, <2>3, <2>4 DEF TypeOK, Init
<1>7. \A r \in Readers : ReaderOK(r) /\ OwnOK(r) /\ PagesOK(r)
  BY DEF Init, ReaderOK, OwnOK, PagesOK
<1> QED BY <1>5, <1>6, <1>7 DEF IInv

(* A time is a number, and one that a capture has not. *)
LEMMA CaptureTimes ==
    ASSUME TypeOK, TablesOK
    PROVE  /\ clock \in Nat
           /\ IsFiniteSet(Captures) /\ Cardinality(Captures) \in Nat
           /\ clock + 1 \notin Captures
           /\ IsFiniteSet(Begun) /\ Cardinality(Begun) \in Nat
           /\ Cardinality(Begun) <= Cardinality(Writers)
<1>1. clock \in Nat
  BY ConstantTypes DEF TypeOK
<1>2. \A t \in Captures : t \in Nat /\ t <= clock
  BY RowTypes DEF TypeOK, TablesOK, Captures
<1>3. IsFiniteSet(Captures)
  BY <1>1, <1>2, FS_BoundedSetOfNaturals
<1>4. clock + 1 \notin Captures
  BY <1>1, <1>2
<1>5. IsFiniteSet(Begun) /\ Cardinality(Begun) <= Cardinality(Writers)
  BY ConstantsOK, FS_Subset DEF Begun
<1> QED BY <1>1, <1>3, <1>4, <1>5, FS_CardinalityType

LEMMA BeginStep ==
    ASSUME IInv, NEW w \in Writers, NEW p \in Posts, Begin(w, p)
    PROVE  IInv'
<1>1. TypeOK /\ TablesOK /\ UNCHANGED <<tables, readers>>
  BY DEF IInv, Begin
<1>2. PICK row : row = [user |-> p.user, kind |-> p.kind, from |-> p.from,
                        to |-> p.to, at |-> clock + 1]
  OBVIOUS
<1>3. /\ open[w] = None /\ clock' = clock + 1
      /\ open' = [open EXCEPT ![w] = row]
  BY <1>2 DEF Begin
<1>4. w \notin Begun
  BY <1>3 DEF Begun
<1>5. clock + 1 <= MaxClock
  <2>1. Begun \cup {w} \in SUBSET Writers
    BY DEF Begun
  <2>2. Cardinality(Begun) + 1 <= Cardinality(Writers)
    <3>1. Cardinality(Begun \cup {w}) = Cardinality(Begun) + 1
      BY <1>1, <1>4, CaptureTimes, FS_AddElement
    <3>2. Cardinality(Begun \cup {w}) <= Cardinality(Writers)
      BY <2>1, FS_Subset, ConstantsOK
    <3> QED BY <3>1, <3>2
  <2> QED BY <1>1, <2>2, CaptureTimes, ConstantTypes, ConstantsOK
          DEF TablesOK, MaxClock
<1>6. row \in TransactionRows /\ row # None /\ row.at = clock + 1
  <2>1. clock + 1 \in Times
    BY <1>1, <1>5, CaptureTimes, ConstantTypes DEF Times
  <2>2. row \in TransactionRows
    BY <1>2, <2>1 DEF TransactionRows
  <2> QED BY <1>2, <2>2, ConstantsOK
<1>7. open \in [Writers -> TransactionRows \cup {None}]
  BY <1>1 DEF TypeOK
<1>8. Begun' = Begun \cup {w} /\ Captures' = Captures
  BY <1>1, <1>3, <1>6, <1>7 DEF Begun, Captures, tables
<1>9. AllRows' = AllRows \cup {row}
  BY <1>1, <1>3, <1>4, <1>7, <1>8 DEF AllRows, Begun, tables
<1>10. TablesOK'
  <2>1. Cardinality(Begun') = Cardinality(Begun) + 1
    BY <1>1, <1>4, <1>8, CaptureTimes, FS_AddElement
  <2>2. clock' = Cardinality(Opening) + Cardinality(Begun') + Cardinality(Captures')
    BY <1>1, <1>3, <1>8, <2>1, CaptureTimes, ConstantTypes DEF TablesOK
  <2>3. \A x \in AllRows : x.at \in Nat
    BY <1>1, RowTypes DEF AllRows, Begun, TypeOK
  <2>4. clock \in Nat
    BY <1>1, CaptureTimes
  <2>5. \A x \in AllRows' : x.at <= clock'
    BY <1>1, <1>3, <1>6, <1>9, <2>3, <2>4 DEF TablesOK
  <2>6. \A x, y \in AllRows' : x.at = y.at => x = y
    BY <1>1, <1>6, <1>9, <2>3, <2>4 DEF TablesOK
  <2>7. \A s \in snapshots' : s.at <= clock'
    BY <1>1, <1>3, <2>4, RowTypes DEF TablesOK, TypeOK, tables
  <2> QED BY <1>1, <1>8, <2>2, <2>5, <2>6, <2>7 DEF TablesOK, tables
<1>11. TypeOK'
  <2>1. clock' \in Times
    BY <1>1, <1>3, <1>5, CaptureTimes, ConstantTypes DEF Times
  <2>2. open' \in [Writers -> TransactionRows \cup {None}]
    BY <1>3, <1>6, <1>7
  <2> QED BY <1>1, <2>1, <2>2 DEF TypeOK, tables, readers
<1>12. \A r \in Readers : ReaderOK(r)' /\ OwnOK(r)' /\ PagesOK(r)'
  BY <1>1, TablesGrow DEF tables, TablesOK, TypeOK
<1> QED BY <1>10, <1>11, <1>12 DEF IInv

LEMMA CommitStep ==
    ASSUME IInv, NEW w \in Writers, Commit(w)
    PROVE  IInv'
<1>1. TypeOK /\ TablesOK /\ w \in Begun
  BY DEF IInv, Commit, Begun
<1>2. /\ transactions' = transactions \cup {open[w]}
      /\ UNCHANGED <<clock, open, snapshots, readers>>
  BY DEF Commit
<1>3. open[w] \in TransactionRows
  BY <1>1 DEF TypeOK, Begun
<1>4. AllRows' = AllRows /\ Begun' = Begun /\ Captures' = Captures
  BY <1>1, <1>2 DEF AllRows, Begun, Captures
<1>5. IsFiniteSet(transactions')
  BY <1>1, <1>2, FS_AddElement DEF TablesOK
<1>6. TablesOK'
  BY <1>1, <1>2, <1>4, <1>5 DEF TablesOK
<1>7. TypeOK'
  BY <1>1, <1>2, <1>3 DEF TypeOK, readers
<1>8. \A r \in Readers : ReaderOK(r)' /\ OwnOK(r)' /\ PagesOK(r)'
  BY <1>1, <1>2, <1>5, TablesGrow DEF TablesOK, TypeOK
<1> QED BY <1>6, <1>7, <1>8 DEF IInv

LEMMA CaptureStep ==
    ASSUME IInv, Capture
    PROVE  IInv'
<1>1. TypeOK /\ TablesOK /\ UNCHANGED <<open, transactions, readers>>
  BY DEF IInv, Capture
<1>2. PICK t : t = clock + 1
  OBVIOUS
<1>3. PICK new : new = {[quote |-> c, at |-> t] : c \in Quotes}
  OBVIOUS
<1>4. /\ clock' = t /\ snapshots' = snapshots \cup new
      /\ Cardinality(Captures) < MaxCaptures
  BY <1>2, <1>3 DEF Capture, Captures
<1>5. t \in Times /\ t \in Nat /\ clock \in Nat /\ t > clock
  BY <1>1, <1>2, <1>4, CaptureTimes, ConstantTypes, ConstantsOK
     DEF TablesOK, MaxClock, Times
<1>6. new \subseteq SnapshotRows /\ \A s \in new : s.at = t
  BY <1>3, <1>5 DEF SnapshotRows
<1>7. IsFiniteSet(new)
  <2> DEFINE f == [c \in Quotes |-> [quote |-> c, at |-> t]]
  <2>1. f \in [Quotes -> new] /\ \A s \in new : \E c \in Quotes : f[c] = s
    BY <1>3
  <2> HIDE DEF f
  <2>2. f \in Surjection(Quotes, new)
    BY <2>1, Fun_IsSurj
  <2> QED BY <2>2, FS_Surjection, ConstantsOK
<1>8. IsFiniteSet(snapshots')
  BY <1>1, <1>4, <1>7, FS_Union DEF TablesOK
<1>9. Captures' = Captures \cup {t}
  <2>1. \E s \in new : s.at = t
    <3>1. PICK c : c \in Quotes
      BY ConstantsOK
    <3>2. [quote |-> c, at |-> t] \in new
      BY <1>3, <3>1
    <3> QED BY <3>2
  <2> QED BY <1>4, <1>6, <2>1 DEF Captures
<1>10. Cardinality(Captures') = Cardinality(Captures) + 1
  BY <1>1, <1>2, <1>9, CaptureTimes, FS_AddElement
<1>11. Begun' = Begun /\ AllRows' = AllRows
  BY <1>1 DEF Begun, AllRows
<1>12. TablesOK'
  <2>1. clock' = Cardinality(Opening) + Cardinality(Begun') + Cardinality(Captures')
        /\ Cardinality(Captures') <= MaxCaptures
    BY <1>1, <1>2, <1>4, <1>10, <1>11, CaptureTimes, ConstantTypes, ConstantsOK
       DEF TablesOK
  <2>2. \A x \in AllRows : x.at \in Nat
    BY <1>1, RowTypes DEF AllRows, Begun, TypeOK
  <2>3. \A x \in AllRows' : x.at <= clock'
    BY <1>1, <1>4, <1>5, <1>11, <2>2 DEF TablesOK
  <2>4. \A s \in snapshots : s.at \in Nat /\ s.at <= clock
    BY <1>1, RowTypes DEF TablesOK, TypeOK
  <2>5. \A s \in snapshots' : s.at <= clock'
    BY <1>4, <1>5, <1>6, <2>4
  <2> QED BY <1>1, <1>8, <1>11, <2>1, <2>3, <2>5 DEF TablesOK
<1>13. TypeOK'
  BY <1>1, <1>4, <1>5, <1>6 DEF TypeOK, readers
<1>14. \A r \in Readers : ReaderOK(r)' /\ OwnOK(r)' /\ PagesOK(r)'
  BY <1>1, <1>4, <1>5, <1>6, <1>8, TablesGrow DEF TablesOK, TypeOK
<1> QED BY <1>12, <1>13, <1>14 DEF IInv

-----------------------------------------------------------------------------
(* The next page, in a list whose order is determined.                      *)

LEMMA SetOfJoined ==
    ASSUME NEW L, NEW g \in Seq(L), NEW h \in Seq(L)
    PROVE  /\ g \o h \in Seq(L) /\ Len(g \o h) = Len(g) + Len(h)
           /\ ToSet(g \o h) = ToSet(g) \cup ToSet(h)
           /\ ToSet(g) \subseteq L /\ ToSet(h) \subseteq L
<1>1. /\ g \o h \in Seq(L) /\ Len(g \o h) = Len(g) + Len(h)
      /\ Len(g) \in Nat /\ Len(h) \in Nat
      /\ DOMAIN g = 1..Len(g) /\ DOMAIN h = 1..Len(h)
      /\ DOMAIN (g \o h) = 1..(Len(g) + Len(h))
  OBVIOUS
<1>2. \A i \in 1..(Len(g) + Len(h)) :
        (g \o h)[i] = IF i <= Len(g) THEN g[i] ELSE h[i - Len(g)]
  OBVIOUS
<1>3. ASSUME NEW x \in ToSet(g \o h) PROVE x \in ToSet(g) \cup ToSet(h)
  <2>1. PICK i \in 1..(Len(g) + Len(h)) : x = (g \o h)[i]
    BY <1>1 DEF ToSet
  <2>2. CASE i <= Len(g)
    BY <1>1, <1>2, <2>1, <2>2 DEF ToSet
  <2>3. CASE i > Len(g)
    <3>1. i - Len(g) \in 1..Len(h) /\ x = h[i - Len(g)]
      BY <1>1, <1>2, <2>1, <2>3
    <3> QED BY <1>1, <3>1 DEF ToSet
  <2> QED BY <1>1, <2>2, <2>3
<1>4. ASSUME NEW x \in ToSet(g) PROVE x \in ToSet(g \o h)
  <2>1. PICK i \in 1..Len(g) : x = g[i]
    BY <1>1 DEF ToSet
  <2>2. i \in 1..(Len(g) + Len(h)) /\ (g \o h)[i] = g[i]
    BY <1>1, <1>2
  <2> QED BY <1>1, <2>1, <2>2 DEF ToSet
<1>5. ASSUME NEW x \in ToSet(h) PROVE x \in ToSet(g \o h)
  <2>1. PICK i \in 1..Len(h) : x = h[i]
    BY <1>1 DEF ToSet
  <2>2. Len(g) + i \in 1..(Len(g) + Len(h)) /\ (g \o h)[Len(g) + i] = h[i]
    BY <1>1, <1>2
  <2> QED BY <1>1, <2>1, <2>2 DEF ToSet
<1>6. ToSet(g) \subseteq L /\ ToSet(h) \subseteq L
  BY <1>1 DEF ToSet
<1> QED BY <1>1, <1>3, <1>4, <1>5, <1>6

(* Rows have their places, and places their rows. *)
LEMMA Positions ==
    ASSUME NEW q, Ordered(q), NEW s \in Orders(q)
    PROVE  LET N == Cardinality(Listed(q))
           IN /\ N \in Nat /\ s \in SetToSeqs(Listed(q))
              /\ \A i \in 1..N : s[i] \in Listed(q) /\ Place(q, s[i]) = i
              /\ \A x \in Listed(q) : Place(q, x) \in 1..N /\ s[Place(q, x)] = x
              /\ \A i, j \in 1..N : i < j =>
                   Precedes(q, s[i], s[j]) /\ s[i].at # s[j].at
<1> DEFINE N == Cardinality(Listed(q))
<1>1. s \in SetToSeqs(Listed(q)) /\ IsFiniteSet(Listed(q))
  BY DEF Orders, Ordered
<1>2. /\ N \in Nat /\ DOMAIN s = 1..N /\ s \in [1..N -> Listed(q)]
      /\ \A i, j \in 1..N : i # j => s[i] # s[j]
      /\ \A x \in Listed(q) : \E i \in 1..N : s[i] = x
  BY <1>1, ListIsOnto
<1>3. \A i \in 1..N : s[i] \in Listed(q) /\ Place(q, s[i]) = i
  BY <1>2, PlaceIsPosition
<1>4. \A x \in Listed(q) : Place(q, x) \in 1..N /\ s[Place(q, x)] = x
  BY <1>2, <1>3
<1>5. ASSUME NEW i \in 1..N, NEW j \in 1..N, i < j
      PROVE  Precedes(q, s[i], s[j]) /\ s[i].at # s[j].at
  <2>1. Precedes(q, s[i], s[j])
    BY <1>2, <1>5 DEF Orders
  <2>2. s[i] # s[j] /\ s[i] \in Listed(q) /\ s[j] \in Listed(q)
    BY <1>2, <1>5
  <2> QED BY <2>1, <2>2 DEF Ordered
<1> QED BY <1>1, <1>2, <1>3, <1>4, <1>5

(* No page goes past the end of the list, determined or not. *)
LEMMA NextPageCount ==
    ASSUME NEW q, q.limit \in Nat \ {0}, IsFiniteSet(Listed(q)),
           NEW s \in SetToSeqs(Listed(q)), NEW n \in Nat \ {0},
           NEW past, past = Skip(q, n), NEW rows, rows = PageOf(s, q, n),
           NEW g \in Seq(Listed(q)), NEW h, h = g \o rows,
           Len(g) <= Cardinality(Listed(q)), Len(g) <= past
    PROVE  Len(h) <= Cardinality(Listed(q)) /\ Len(h) <= past + q.limit
<1> DEFINE N == Cardinality(Listed(q))
           k == Len(rows)
<1>1. N \in Nat
  BY FS_CardinalityType
<1>2. /\ past \in Nat /\ rows \in Seq(Listed(q)) /\ k \in 0..q.limit
      /\ k > 0 => past + k <= N
  BY PageIsWindow
<1>3. Len(h) = Len(g) + k /\ Len(g) \in Nat
  BY <1>2, SetOfJoined
<1> HIDE DEF N, k
<1>4. CASE k = 0
  BY <1>1, <1>2, <1>3, <1>4 DEF N
<1>5. CASE k > 0
  BY <1>1, <1>2, <1>3, <1>5 DEF N
<1> QED BY <1>2, <1>4, <1>5

LEMMA NextPage ==
    ASSUME NEW q, q.limit \in Nat \ {0}, Ordered(q), NEW s \in Orders(q),
           NEW n \in Nat \ {0}, NEW g \in Seq(Listed(q)),
           NEW b, b \subseteq Listed(q),
           Len(g) <= Skip(q, n),
           Len(g) - Cardinality(ToSet(g)) <= Cardinality(Listed(q) \ b),
           \A x \in b \ ToSet(g) : Skip(q, n) < Place(q, x)
    PROVE  LET past == Skip(q, n)
               rows == PageOf(s, q, n)
               h == g \o rows
           IN /\ Len(h) - Cardinality(ToSet(h)) <= Cardinality(Listed(q) \ b)
              /\ \A x \in b \ ToSet(h) : past + q.limit < Place(q, x)
              /\ Len(rows) < q.limit => b \subseteq ToSet(h)
<1> SUFFICES ASSUME NEW past, past = Skip(q, n),
                    NEW rows, rows = PageOf(s, q, n),
                    NEW h, h = g \o rows
             PROVE  /\ Len(h) - Cardinality(ToSet(h))
                         <= Cardinality(Listed(q) \ b)
                    /\ \A x \in b \ ToSet(h) : past + q.limit < Place(q, x)
                    /\ Len(rows) < q.limit => b \subseteq ToSet(h)
  OBVIOUS
<1> DEFINE L == Listed(q)
           N == Cardinality(L)
           k == Len(rows)
<1>1. /\ N \in Nat /\ s \in SetToSeqs(L)
      /\ \A x \in L : Place(q, x) \in 1..N /\ s[Place(q, x)] = x
      /\ \A i \in 1..N : s[i] \in L /\ Place(q, s[i]) = i
  BY Positions
<1>2. IsFiniteSet(L)
  BY DEF Ordered
<1>3. /\ past \in Nat /\ rows \in Seq(L) /\ k \in 0..q.limit
      /\ k > 0 => past + k <= N
      /\ k < q.limit => past + k >= N
      /\ \A j \in 1..k : past + j \in 1..N /\ rows[j] = s[past + j]
  <2>1. /\ Skip(q, n) \in Nat
        /\ PageOf(s, q, n) \in Seq(Listed(q))
        /\ Len(PageOf(s, q, n)) \in 0..q.limit
        /\ Len(PageOf(s, q, n)) > 0 =>
             Skip(q, n) + Len(PageOf(s, q, n)) <= Cardinality(Listed(q))
        /\ Len(PageOf(s, q, n)) < q.limit =>
             Skip(q, n) + Len(PageOf(s, q, n)) >= Cardinality(Listed(q))
        /\ \A j \in 1..Len(PageOf(s, q, n)) :
             /\ Skip(q, n) + j \in 1..Cardinality(Listed(q))
             /\ PageOf(s, q, n)[j] = s[Skip(q, n) + j]
    BY <1>1, <1>2, PageIsWindow
  <2> QED BY <2>1
<1>4. /\ Len(h) = Len(g) + k /\ Len(g) \in Nat
      /\ ToSet(h) = ToSet(g) \cup ToSet(rows) /\ ToSet(h) \subseteq L
  BY <1>3, SetOfJoined
<1> HIDE DEF N, L
<1>5. ASSUME NEW x \in b \ ToSet(h) PROVE past + k < Place(q, x)
  <2>1. PICK i : i = Place(q, x)
    OBVIOUS
  <2>2. i \in 1..N /\ s[i] = x /\ past < i
    BY <1>1, <1>4, <1>5, <2>1 DEF L
  <2>3. ~ (i <= past + k)
    <3> SUFFICES ASSUME i <= past + k PROVE FALSE
      OBVIOUS
    <3>1. i - past \in 1..k /\ past + (i - past) = i
      BY <1>1, <1>3, <2>2
    <3>2. rows[i - past] = x
      BY <1>3, <2>2, <3>1
    <3>3. rows[i - past] \in ToSet(rows)
      <4>1. \A j \in 1..k : rows[j] \in ToSet(rows)
        BY <1>3 DEF ToSet
      <4> QED BY <3>1, <4>1
    <3> QED BY <1>4, <1>5, <3>2, <3>3
  <2> QED BY <1>1, <1>3, <2>1, <2>2, <2>3
<1>6. \A x \in b : Place(q, x) \in 1..N
  BY <1>1 DEF L
<1>7. k < q.limit => b \subseteq ToSet(h)
  BY <1>1, <1>3, <1>5, <1>6
<1>8. \A x \in b \ ToSet(h) : past + q.limit < Place(q, x)
  <2>1. CASE k < q.limit
    BY <1>7, <2>1
  <2>2. CASE k = q.limit
    BY <1>5, <2>2
  <2> QED BY <1>3, <2>1, <2>2
<1>9. Len(h) - Cardinality(ToSet(h)) <= Cardinality(L \ b)
  <2>1. CASE k = 0
    <3>1. ToSet(rows) = {}
      BY <1>3, <2>1 DEF ToSet
    <3>2. ToSet(h) = ToSet(g) /\ Len(h) = Len(g)
      BY <1>3, <1>4, <2>1, <3>1
    <3> QED BY <3>2 DEF L
  <2>2. CASE k > 0
    <3>1. past + k \in 0..N /\ past + k \in Nat /\ Len(h) <= past + k
      BY <1>1, <1>3, <1>4, <2>2
    <3>2. s \in [1..N -> L] /\ \A i, j \in 1..N : i # j => s[i] # s[j]
      BY <1>1, <1>2, ListIsOnto DEF N
    <3>3. Cardinality(Prefix(s, past + k)) = past + k
      <4>1. PICK m : m = past + k
        OBVIOUS
      <4>2. m \in 0..N
        BY <3>1, <4>1
      <4>3. Cardinality(Prefix(s, m)) = m
        BY <1>1, <3>2, <4>2, PrefixSize
      <4> QED BY <4>1, <4>3
    <3>4. Prefix(s, past + k) \subseteq (L \ b) \cup ToSet(h)
      <4>1. SUFFICES ASSUME NEW i \in 1..(past + k), s[i] \notin L \ b
                     PROVE  s[i] \in ToSet(h)
        BY DEF Prefix
      <4>2. s[i] \in L /\ Place(q, s[i]) = i
        BY <1>1, <3>1, <4>1
      <4>3. ~ (past + k < Place(q, s[i]))
        BY <3>1, <4>1, <4>2
      <4> QED BY <1>5, <4>1, <4>2, <4>3
    <3>5. IsFiniteSet(L \ b) /\ IsFiniteSet(ToSet(h))
      BY <1>2, <1>4, FS_Subset
    <3>6. past + k <= Cardinality(L \ b) + Cardinality(ToSet(h))
      BY <3>3, <3>4, <3>5, AtMostBoth
    <3>7. Cardinality(L \ b) \in Nat /\ Cardinality(ToSet(h)) \in Nat
      BY <3>5, FS_CardinalityType
    <3>8. Len(h) \in Nat
      BY <1>3, <1>4
    <3> QED BY <3>1, <3>6, <3>7, <3>8
  <2> QED BY <1>3, <2>1, <2>2
<1> QED BY <1>7, <1>8, <1>9 DEF N, L

LEMMA NextPageSorted ==
    ASSUME NEW q, q.limit \in Nat \ {0}, Ordered(q), NEW s \in Orders(q),
           q.table = "snapshots",
           NEW n \in Nat \ {0}, NEW past, past = Skip(q, n),
           NEW rows, rows = PageOf(s, q, n),
           NEW g \in Seq(Listed(q)), NEW h, h = g \o rows,
           \A i, j \in DOMAIN g : i < j => g[i].at < g[j].at,
           \A x \in ToSet(g) : Place(q, x) <= past
    PROVE  /\ \A i, j \in DOMAIN h : i < j => h[i].at < h[j].at
           /\ \A x \in ToSet(h) : Place(q, x) <= past + q.limit
<1> DEFINE L == Listed(q)
           N == Cardinality(L)
           k == Len(rows)
           m == Len(g)
<1>1. /\ N \in Nat /\ s \in SetToSeqs(L)
      /\ \A x \in L : Place(q, x) \in 1..N /\ s[Place(q, x)] = x
      /\ \A i \in 1..N : s[i] \in L /\ Place(q, s[i]) = i
  BY Positions
<1>2. IsFiniteSet(L) /\ \A x \in L : x.at \in Nat
  BY DEF Ordered
<1>3. \A i, j \in 1..N : i < j => s[i].at < s[j].at
  <2>1. \A i, j \in 1..N : i < j => Precedes(q, s[i], s[j]) /\ s[i].at # s[j].at
    BY Positions
  <2> QED BY <1>1, <1>2, <2>1 DEF Precedes
<1>4. /\ past \in Nat /\ rows \in Seq(L) /\ k \in 0..q.limit
      /\ \A j \in 1..k : past + j \in 1..N /\ rows[j] = s[past + j]
  <2>1. /\ Skip(q, n) \in Nat
        /\ PageOf(s, q, n) \in Seq(Listed(q))
        /\ Len(PageOf(s, q, n)) \in 0..q.limit
        /\ Len(PageOf(s, q, n)) > 0 =>
             Skip(q, n) + Len(PageOf(s, q, n)) <= Cardinality(Listed(q))
        /\ Len(PageOf(s, q, n)) < q.limit =>
             Skip(q, n) + Len(PageOf(s, q, n)) >= Cardinality(Listed(q))
        /\ \A j \in 1..Len(PageOf(s, q, n)) :
             /\ Skip(q, n) + j \in 1..Cardinality(Listed(q))
             /\ PageOf(s, q, n)[j] = s[Skip(q, n) + j]
    BY <1>1, <1>2, PageIsWindow
  <2> QED BY <2>1
<1> HIDE DEF N, L
<1>5. /\ m \in Nat /\ k \in Nat /\ g \in Seq(L)
      /\ DOMAIN g = 1..m /\ DOMAIN h = 1..(m + k)
      /\ \A i \in 1..(m + k) : h[i] = IF i <= m THEN g[i] ELSE rows[i - m]
  BY <1>4 DEF L
<1>6. ASSUME NEW i \in 1..m
      PROVE  /\ g[i] \in L /\ Place(q, g[i]) \in 1..N /\ Place(q, g[i]) <= past
             /\ s[Place(q, g[i])] = g[i]
  <2>1. g[i] \in L /\ g[i] \in ToSet(g)
    BY <1>5 DEF ToSet
  <2> QED BY <1>1, <2>1
<1>7. ASSUME NEW i \in 1..(m + k), ~ (i <= m)
      PROVE  /\ i - m \in 1..k /\ past + (i - m) \in 1..N
             /\ h[i] = s[past + (i - m)]
  <2>1. i - m \in 1..k
    BY <1>5, <1>7
  <2> QED BY <1>4, <1>5, <1>7, <2>1
<1>8. ASSUME NEW i \in 1..(m + k), NEW j \in 1..(m + k), i < j
      PROVE  h[i].at < h[j].at
  <2>1. CASE j <= m
    <3>1. i \in 1..m /\ j \in 1..m /\ h[i] = g[i] /\ h[j] = g[j]
      BY <1>5, <1>8, <2>1
    <3>2. i \in DOMAIN g /\ j \in DOMAIN g
      BY <1>5, <3>1
    <3> QED BY <1>8, <3>1, <3>2
  <2>2. CASE i <= m /\ ~ (j <= m)
    <3>1. i \in 1..m /\ h[i] = g[i]
      BY <1>5, <2>2
    <3>2. PICK a : a = Place(q, g[i])
      OBVIOUS
    <3>3. a \in 1..N /\ a <= past /\ s[a] = g[i]
      BY <1>6, <3>1, <3>2
    <3>4. past + (j - m) \in 1..N /\ j - m \in 1..k /\ h[j] = s[past + (j - m)]
      BY <1>7, <2>2
    <3>5. a < past + (j - m)
      BY <1>1, <1>4, <1>5, <3>3, <3>4
    <3> QED BY <1>3, <3>1, <3>3, <3>4, <3>5
  <2>3. CASE ~ (i <= m) /\ ~ (j <= m)
    <3>1. /\ past + (i - m) \in 1..N /\ h[i] = s[past + (i - m)]
          /\ past + (j - m) \in 1..N /\ h[j] = s[past + (j - m)]
      BY <1>7, <2>3
    <3>2. past + (i - m) < past + (j - m)
      BY <1>4, <1>5, <1>8
    <3> QED BY <1>3, <3>1, <3>2
  <2> QED BY <1>5, <1>8, <2>1, <2>2, <2>3
<1>9. ASSUME NEW x \in ToSet(h) PROVE Place(q, x) <= past + q.limit
  <2>1. PICK i \in 1..(m + k) : x = h[i]
    BY <1>5, <1>9 DEF ToSet
  <2>2. CASE i <= m
    <3>1. i \in 1..m /\ h[i] = g[i]
      BY <1>5, <2>1, <2>2
    <3>2. Place(q, x) \in 1..N /\ Place(q, x) <= past
      BY <1>6, <2>1, <3>1
    <3> QED BY <1>1, <1>4, <3>2
  <2>3. CASE ~ (i <= m)
    <3>1. /\ i - m \in 1..k /\ past + (i - m) \in 1..N
          /\ h[i] = s[past + (i - m)]
      BY <1>7, <2>1, <2>3
    <3>2. Place(q, x) = past + (i - m)
      BY <1>1, <2>1, <3>1
    <3> QED BY <1>4, <1>5, <3>1, <3>2
  <2> QED BY <2>2, <2>3
<1> QED BY <1>5, <1>8, <1>9

-----------------------------------------------------------------------------
(* The steps of the readers.  The others, and the tables, stay as they are. *)

LEMMA SameLists ==
    ASSUME UNCHANGED tables, NEW q
    PROVE  Listed(q)' = Listed(q) /\ \A x : Place(q, x)' = Place(q, x)
<1>1. Listed(q)' = Listed(q)
  BY DEF tables, Listed, ListedSnapshots, ListedTransactions, Mine
<1> QED BY <1>1 DEF Place, Precedes

LEMMA OthersStay ==
    ASSUME UNCHANGED <<clock, open, tables>>, NEW r \in Readers,
           ReaderOK(r), OwnOK(r), PagesOK(r),
           pc'[r] = pc[r], query'[r] = query[r], page'[r] = page[r],
           got'[r] = got[r], before'[r] = before[r]
    PROVE  ReaderOK(r)' /\ OwnOK(r)' /\ PagesOK(r)'
<1>1. Shown(r)' = Shown(r) /\ Past(r)' = Past(r)
  BY DEF Shown, Past, Skip
<1>2. ReaderOK(r)' /\ OwnOK(r)'
  BY <1>1 DEF ReaderOK, OwnOK, tables
<1>3. PagesOK(r)'
  <2>1. PICK q : q = query[r]
    OBVIOUS
  <2>2. Listed(q)' = Listed(q) /\ \A x : Place(q, x)' = Place(q, x)
    BY SameLists
  <2>3. CompleteOK(r) => CompleteOK(r)'
    BY <1>1, <2>1, <2>2 DEF CompleteOK
  <2>4. SortedOK(r) => SortedOK(r)'
    BY <1>1, <2>1, <2>2 DEF SortedOK
  <2>5. CountOK(r) => CountOK(r)'
    BY <1>1, <2>1, <2>2 DEF CountOK
  <2> QED BY <1>1, <2>1, <2>2, <2>3, <2>4, <2>5 DEF PagesOK, Determined
<1> QED BY <1>2, <1>3

LEMMA TablesStay ==
    ASSUME TypeOK, TablesOK, UNCHANGED <<clock, open, tables>>
    PROVE  TablesOK'
BY DEF TablesOK, AllRows, Begun, Captures, tables

LEMMA AskStep ==
    ASSUME IInv, NEW r \in Readers, NEW q \in Queries, Ask(r, q)
    PROVE  IInv'
<1>1. TypeOK /\ TablesOK /\ ReaderOK(r) /\ UNCHANGED <<clock, open, tables, got>>
  BY DEF IInv, Ask
<1>2. /\ pc'[r] = IF q.table = "transaction" THEN "find" ELSE "rows"
      /\ query'[r] = q /\ page'[r] = 1 /\ before'[r] = Listed(q)
      /\ got'[r] = <<>>
  BY <1>1 DEF Ask, TypeOK, ReaderOK
<1>3. \A x \in Readers \ {r} :
        /\ pc'[x] = pc[x] /\ query'[x] = query[x] /\ page'[x] = page[x]
        /\ got'[x] = got[x] /\ before'[x] = before[x]
  BY <1>1 DEF Ask, TypeOK
<1>4. /\ q.limit \in Nat \ {0}
      /\ Listed(q) \subseteq transactions \cup snapshots
      /\ IsFiniteSet(Listed(q))
      /\ q.table # "transaction" /\ Determined(q) => Ordered(q)
  BY <1>1, ListedRows, QueryTypes DEF TypeOK
<1>5. TypeOK'
  <2>1. pc' \in [Readers -> {"idle", "find", "rows", "count", "done"}]
    BY <1>1 DEF Ask, TypeOK
  <2>2. query' \in [Readers -> Queries \cup {None}] /\ page' \in [Readers -> Nat]
    BY <1>1 DEF Ask, TypeOK
  <2>3. Listed(q) \in SUBSET (TransactionRows \cup SnapshotRows)
    BY <1>1, <1>4 DEF TypeOK
  <2>4. before' \in [Readers -> SUBSET (TransactionRows \cup SnapshotRows)]
    BY <1>1, <2>3 DEF Ask, TypeOK
  <2> QED BY <1>1, <2>1, <2>2, <2>4 DEF TypeOK, tables
<1>6. Listed(q)' = Listed(q) /\ \A x : Place(q, x)' = Place(q, x)
  BY <1>1, SameLists
<1>7. Shown(r)' = {} /\ Len(got'[r]) = 0
  BY <1>2 DEF Shown, ToSet
<1>8. ReaderOK(r)' /\ OwnOK(r)'
  BY <1>2, <1>7 DEF ReaderOK, OwnOK
<1>9. PagesOK(r)'
  <2> SUFFICES ASSUME q.table # "transaction" PROVE PagesOK(r)'
    BY <1>2 DEF PagesOK
  <2>1. Past(r)' = 0
    BY <1>2, <1>4 DEF Past, Skip
  <2>2. Cardinality(Listed(q)) \in Nat
    BY <1>4, FS_CardinalityType
  <2>3. ASSUME Determined(q) PROVE CompleteOK(r)'
    <3>1. Ordered(q)
      BY <1>4, <2>3
    <3>2. \A b \in Listed(q) : 0 < Place(q, b)
      <4>1. SUFFICES ASSUME NEW b \in Listed(q) PROVE 0 < Place(q, b)
        OBVIOUS
      <4>2. b \in {y \in Listed(q) : Precedes(q, y, b)}
        BY <3>1 DEF Ordered, Precedes
      <4>3. IsFiniteSet({y \in Listed(q) : Precedes(q, y, b)})
        BY <1>4, FS_Subset
      <4>4. Place(q, b) # 0
        BY <4>2, <4>3, FS_EmptySet DEF Place
      <4> QED BY <1>4, <4>4, PlaceType
    <3>3. Cardinality({}) = 0 /\ Cardinality(Listed(q) \ Listed(q)) = 0
      BY FS_EmptySet
    <3> QED BY <1>2, <1>6, <1>7, <2>1, <2>2, <3>2, <3>3 DEF CompleteOK
  <2>4. SortedOK(r)'
    BY <1>2, <1>7 DEF SortedOK
  <2>5. CountOK(r)'
    BY <1>2, <1>6, <1>7, <2>1, <2>2 DEF CountOK
  <2> QED BY <1>2, <1>6, <1>7, <2>3, <2>4, <2>5 DEF PagesOK
<1>10. ASSUME NEW x \in Readers PROVE ReaderOK(x)' /\ OwnOK(x)' /\ PagesOK(x)'
  <2>1. CASE x = r
    BY <1>8, <1>9, <2>1
  <2>2. CASE x # r
    BY <1>1, <1>3, <2>2, OthersStay DEF IInv
  <2> QED BY <2>1, <2>2
<1> QED BY <1>1, <1>5, <1>10, TablesStay DEF IInv

LEMMA SetToSeqType ==
    ASSUME NEW T, IsFiniteSet(T)
    PROVE  SetToSeq(T) \in Seq(T)
<1>1. Cardinality(T) \in Nat /\ ExistsBijection(1..Cardinality(T), T)
  BY FS_CardinalityType
<1>2. \E f \in [1..Cardinality(T) -> T] : IsInjective(f)
  BY <1>1 DEF ExistsBijection, Bijection, Injection
<1>3. SetToSeq(T) \in [1..Cardinality(T) -> T]
  BY <1>2 DEF SetToSeq
<1> QED BY <1>1, <1>3

LEMMA FindOneStep ==
    ASSUME IInv, NEW r \in Readers, FindOne(r)
    PROVE  IInv'
<1>1. /\ TypeOK /\ TablesOK /\ ReaderOK(r)
      /\ UNCHANGED <<clock, open, tables, query, page, before>>
      /\ pc[r] = "find"
  BY DEF IInv, FindOne
<1>2. PICK T : T = {t \in Mine(query[r]) : t.at = query[r].id}
  OBVIOUS
<1>3. PICK g : g = SetToSeq(T)
  OBVIOUS
<1>4. /\ pc' = [pc EXCEPT ![r] = "done"] /\ got' = [got EXCEPT ![r] = g]
  BY <1>2, <1>3 DEF FindOne
<1>5. /\ pc'[r] = "done" /\ got'[r] = g
      /\ query'[r] = query[r] /\ before'[r] = before[r] /\ page'[r] = page[r]
  BY <1>1, <1>4 DEF TypeOK
<1>6. T \subseteq Mine(query[r]) /\ T \subseteq transactions
  BY <1>2 DEF Mine
<1>7. g \in Seq(T)
  BY <1>1, <1>3, <1>6, FS_Subset, SetToSeqType DEF TablesOK
<1>8. g \in Seq(transactions) /\ ToSet(g) \subseteq T
  BY <1>6, <1>7 DEF ToSet
<1>9. TypeOK'
  <2>1. g \in Seq(TransactionRows \cup SnapshotRows)
    BY <1>1, <1>8 DEF TypeOK
  <2> QED BY <1>1, <1>4, <2>1 DEF TypeOK, tables
<1>10. query[r] \in Queries /\ query[r].table = "transaction"
  BY <1>1 DEF ReaderOK
<1>11. g \in Seq(transactions' \cup snapshots')
  BY <1>1, <1>8 DEF tables
<1>12. ReaderOK(r)'
  BY <1>5, <1>10, <1>11 DEF ReaderOK
<1>13. OwnOK(r)'
  <2>1. \A t \in ToSet(g) : t.user = query[r].user
    BY <1>6, <1>8 DEF Mine
  <2> QED BY <1>5, <2>1 DEF OwnOK, Shown
<1>14. PagesOK(r)'
  BY <1>5, <1>10 DEF PagesOK
<1>15. ASSUME NEW x \in Readers PROVE ReaderOK(x)' /\ OwnOK(x)' /\ PagesOK(x)'
  <2>1. CASE x = r
    BY <1>12, <1>13, <1>14, <2>1
  <2>2. CASE x # r
    <3>1. pc'[x] = pc[x] /\ got'[x] = got[x]
      BY <1>1, <1>4, <2>2 DEF TypeOK
    <3> QED BY <1>1, <3>1, OthersStay DEF IInv
  <2> QED BY <2>1, <2>2
<1> QED BY <1>1, <1>9, <1>15, TablesStay DEF IInv

LEMMA ReadRowsStep ==
    ASSUME IInv, NEW r \in Readers, ReadRows(r)
    PROVE  IInv'
<1>1. /\ TypeOK /\ TablesOK /\ ReaderOK(r) /\ OwnOK(r) /\ PagesOK(r)
      /\ UNCHANGED <<clock, open, tables, query, page, before>>
      /\ pc[r] = "rows"
  BY DEF IInv, ReadRows
<1>2. PICK q : q = query[r]
  OBVIOUS
<1>3. PICK n : n = page[r]
  OBVIOUS
<1>4. PICK g : g = got[r]
  OBVIOUS
<1>5. PICK b : b = before[r]
  OBVIOUS
<1>6. PICK s \in Orders(q) :
        /\ got' = [got EXCEPT ![r] = @ \o PageOf(s, q, n)]
        /\ \E label \in {"count"} \cup
              (IF Len(PageOf(s, q, n)) < q.limit THEN {"done"} ELSE {}) :
             pc' = [pc EXCEPT ![r] = label]
  BY <1>2, <1>3 DEF ReadRows
<1>7. PICK rows : rows = PageOf(s, q, n)
  OBVIOUS
<1>8. PICK label : /\ pc' = [pc EXCEPT ![r] = label]
                   /\ label = "count" \/ (label = "done" /\ Len(rows) < q.limit)
  BY <1>6, <1>7
<1>9. PICK h : h = g \o rows
  OBVIOUS
<1>10. /\ pc'[r] = label /\ got'[r] = h
       /\ query'[r] = q /\ page'[r] = n /\ before'[r] = b
       /\ got' = [got EXCEPT ![r] = h]
  BY <1>1, <1>2, <1>3, <1>4, <1>5, <1>6, <1>7, <1>8, <1>9 DEF TypeOK
<1>11. /\ q \in Queries /\ q.table # "transaction"
       /\ q.limit \in Nat \ {0} /\ n \in Nat \ {0}
       /\ g \in Seq(transactions \cup snapshots)
  BY <1>1, <1>2, <1>3, <1>4, QueryTypes DEF ReaderOK, TypeOK
<1>12. /\ q.table = "snapshots" => Listed(q) \subseteq snapshots
       /\ q.table # "snapshots" =>
            /\ Listed(q) \subseteq transactions
            /\ \A x \in Listed(q) : x.user = q.user
       /\ IsFiniteSet(Listed(q))
       /\ Determined(q) => Ordered(q)
  BY <1>1, <1>11, ListedRows DEF TypeOK
<1>13. s \in SetToSeqs(Listed(q))
  BY DEF Orders
<1>14. PICK past : past = Skip(q, n)
  OBVIOUS
<1>15. past \in Nat /\ past + q.limit = n * q.limit /\ rows \in Seq(Listed(q))
  BY <1>7, <1>11, <1>12, <1>13, <1>14, PageIsWindow
<1>16. b \cup ToSet(g) \subseteq Listed(q)
  BY <1>1, <1>2, <1>4, <1>5, <1>11 DEF PagesOK, Shown
<1>17. g \in Seq(Listed(q))
  BY <1>11, <1>16 DEF ToSet
<1>18. h \in Seq(Listed(q)) /\ ToSet(h) \subseteq Listed(q)
  BY <1>9, <1>15, <1>17, SetOfJoined
<1>19. h \in Seq(transactions \cup snapshots)
  <2>1. Listed(q) \subseteq transactions \cup snapshots
    BY <1>12
  <2> QED BY <1>18, <2>1
<1>20. TypeOK'
  <2>1. h \in Seq(TransactionRows \cup SnapshotRows)
    BY <1>1, <1>19 DEF TypeOK
  <2>2. label \in {"idle", "find", "rows", "count", "done"}
    BY <1>8
  <2> QED BY <1>1, <1>8, <1>10, <2>1, <2>2 DEF TypeOK, tables
<1>21. ReaderOK(r)'
  <2>1. h \in Seq(transactions' \cup snapshots')
    BY <1>1, <1>19 DEF tables
  <2> QED BY <1>8, <1>10, <1>11, <2>1 DEF ReaderOK
<1>22. OwnOK(r)'
  BY <1>10, <1>12, <1>18 DEF OwnOK, Shown
<1>23. Listed(q)' = Listed(q) /\ \A x : Place(q, x)' = Place(q, x)
  BY <1>1, SameLists
<1>24. label = "count" => Past(r)' = past + q.limit
  BY <1>10, <1>15 DEF Past
<1>25. /\ Len(g) <= past /\ Len(h) <= Cardinality(Listed(q))
       /\ Len(h) <= past + q.limit
  <2>1. Len(g) <= Cardinality(Listed(q)) /\ Len(g) <= past
    BY <1>1, <1>2, <1>3, <1>4, <1>11, <1>14 DEF PagesOK, CountOK, Past
  <2> QED BY <1>7, <1>9, <1>11, <1>12, <1>13, <1>14, <1>17, <2>1, NextPageCount
<1>26. CountOK(r)'
  BY <1>8, <1>10, <1>23, <1>24, <1>25 DEF CountOK
<1>27. ASSUME Determined(q) PROVE CompleteOK(r)'
  <2>1. /\ Len(g) - Cardinality(ToSet(g)) <= Cardinality(Listed(q) \ b)
        /\ \A x \in b \ ToSet(g) : past < Place(q, x)
    BY <1>1, <1>2, <1>3, <1>4, <1>5, <1>11, <1>14, <1>27
       DEF PagesOK, CompleteOK, Past, Shown
  <2>2. Ordered(q) /\ b \subseteq Listed(q)
    BY <1>12, <1>16, <1>27
  <2>3. /\ Len(h) - Cardinality(ToSet(h)) <= Cardinality(Listed(q) \ b)
        /\ \A x \in b \ ToSet(h) : past + q.limit < Place(q, x)
        /\ Len(rows) < q.limit => b \subseteq ToSet(h)
    BY <1>7, <1>9, <1>11, <1>14, <1>17, <1>25, <2>1, <2>2, NextPage
  <2> QED BY <1>8, <1>10, <1>23, <1>24, <2>3 DEF CompleteOK, Shown
<1>28. ASSUME Determined(q), q.table = "snapshots" PROVE SortedOK(r)'
  <2>1. /\ \A i, j \in DOMAIN g : i < j => g[i].at < g[j].at
        /\ \A x \in ToSet(g) : Place(q, x) <= past
    BY <1>1, <1>2, <1>3, <1>4, <1>11, <1>14, <1>28
       DEF PagesOK, SortedOK, Past, Shown
  <2>2. /\ \A i, j \in DOMAIN h : i < j => h[i].at < h[j].at
        /\ \A x \in ToSet(h) : Place(q, x) <= past + q.limit
    BY <1>7, <1>9, <1>11, <1>12, <1>14, <1>17, <1>28, <2>1, NextPageSorted
  <2> QED BY <1>8, <1>10, <1>23, <1>24, <2>2 DEF SortedOK, Shown
<1>29. PagesOK(r)'
  <2>1. Determined(query[r])' = Determined(q) /\ Shown(r)' = ToSet(h)
    BY <1>10 DEF Determined, Shown
  <2> QED BY <1>10, <1>16, <1>18, <1>23, <1>26, <1>27, <1>28, <2>1
       DEF PagesOK
<1>30. ASSUME NEW x \in Readers PROVE ReaderOK(x)' /\ OwnOK(x)' /\ PagesOK(x)'
  <2>1. CASE x = r
    BY <1>21, <1>22, <1>29, <2>1
  <2>2. CASE x # r
    <3>1. pc'[x] = pc[x] /\ got'[x] = got[x]
      BY <1>1, <1>8, <1>10, <2>2 DEF TypeOK
    <3> QED BY <1>1, <3>1, OthersStay DEF IInv
  <2> QED BY <2>1, <2>2
<1> QED BY <1>1, <1>20, <1>30, TablesStay DEF IInv

LEMMA ReadTotalStep ==
    ASSUME IInv, NEW r \in Readers, ReadTotal(r)
    PROVE  IInv'
<1>1. /\ TypeOK /\ TablesOK /\ ReaderOK(r) /\ OwnOK(r) /\ PagesOK(r)
      /\ UNCHANGED <<clock, open, tables, query, got, before>>
      /\ pc[r] = "count"
  BY DEF IInv, ReadTotal
<1>2. PICK q : q = query[r]
  OBVIOUS
<1>3. PICK past : past = page[r] * q.limit
  OBVIOUS
<1>4. /\ q \in Queries /\ q.table # "transaction" /\ q.limit \in Nat \ {0}
      /\ page[r] \in Nat /\ page[r] >= 1
  BY <1>1, <1>2, QueryTypes DEF ReaderOK, TypeOK
<1>5. past \in Nat /\ Past(r) = past
  BY <1>1, <1>2, <1>3, <1>4 DEF Past
<1>6. /\ IsFiniteSet(Listed(q)) /\ Cardinality(Listed(q)) \in Nat
      /\ \A x : Place(q, x) \in Nat /\ Place(q, x) <= Cardinality(Listed(q))
  BY <1>1, <1>4, ListedRows, PlaceType, FS_CardinalityType DEF TypeOK
<1>7. /\ query'[r] = q /\ got'[r] = got[r] /\ before'[r] = before[r]
      /\ Shown(r)' = Shown(r)
      /\ Listed(q)' = Listed(q) /\ \A x : Place(q, x)' = Place(q, x)
  BY <1>1, <1>2, SameLists DEF Shown
<1>8. \/ /\ page' = [page EXCEPT ![r] = page[r] + 1]
         /\ pc' = [pc EXCEPT ![r] = "rows"]
      \/ /\ past >= Cardinality(Listed(q)) /\ page' = page
         /\ pc' = [pc EXCEPT ![r] = "done"]
  BY <1>2, <1>3 DEF ReadTotal, Total
<1>9. TypeOK'
  <2>1. page' \in [Readers -> Nat]
    BY <1>1, <1>4, <1>8 DEF TypeOK
  <2>2. pc' \in [Readers -> {"idle", "find", "rows", "count", "done"}]
    BY <1>1, <1>8 DEF TypeOK
  <2> QED BY <1>1, <2>1, <2>2 DEF TypeOK, tables
<1>10. \/ pc'[r] = "rows" /\ page'[r] = page[r] + 1
       \/ pc'[r] = "done" /\ page'[r] = page[r] /\ past >= Cardinality(Listed(q))
  BY <1>1, <1>8 DEF TypeOK
<1>11. ReaderOK(r)' /\ OwnOK(r)'
  <2>1. got[r] \in Seq(transactions' \cup snapshots')
    BY <1>1 DEF ReaderOK, tables
  <2>2. ReaderOK(r)'
    BY <1>4, <1>7, <1>10, <2>1 DEF ReaderOK
  <2> QED BY <1>1, <1>2, <1>7, <2>2 DEF OwnOK
<1>12. pc'[r] # "done" => Past(r)' = past
  <2>1. (page[r] + 1) - 1 = page[r]
    BY <1>4
  <2> QED BY <1>3, <1>7, <1>10, <2>1 DEF Past, Skip
<1>13. ASSUME Determined(q) PROVE CompleteOK(r)'
  <2>1. CompleteOK(r)
    BY <1>1, <1>2, <1>4, <1>13 DEF PagesOK
  <2>2. \A b \in before[r] \ Shown(r) : past < Place(q, b)
    BY <1>1, <1>2, <1>5, <2>1 DEF CompleteOK
  <2>3. past >= Cardinality(Listed(q)) => before[r] \subseteq Shown(r)
    <3> SUFFICES ASSUME past >= Cardinality(Listed(q)),
                        NEW b \in before[r] \ Shown(r)
                 PROVE  FALSE
      OBVIOUS
    <3>1. past < Place(q, b) /\ Place(q, b) <= Cardinality(Listed(q))
          /\ Place(q, b) \in Nat
      BY <1>6, <2>2
    <3> QED BY <1>5, <1>6, <3>1
  <2> QED BY <1>2, <1>7, <1>10, <1>12, <2>1, <2>2, <2>3 DEF CompleteOK
<1>14. ASSUME Determined(q), q.table = "snapshots" PROVE SortedOK(r)'
  <2>1. SortedOK(r)
    BY <1>1, <1>2, <1>4, <1>14 DEF PagesOK
  <2> QED BY <1>1, <1>2, <1>5, <1>7, <1>10, <1>12, <2>1 DEF SortedOK
<1>15. CountOK(r)'
  <2>1. CountOK(r)
    BY <1>1, <1>2, <1>4 DEF PagesOK
  <2> QED BY <1>1, <1>2, <1>5, <1>7, <1>10, <1>12, <2>1 DEF CountOK
<1>16. PagesOK(r)'
  <2>1. Determined(query[r])' = Determined(q)
    BY <1>7 DEF Determined
  <2>2. before[r] \cup Shown(r) \subseteq Listed(q)
    BY <1>1, <1>2, <1>4 DEF PagesOK
  <2> QED BY <1>7, <1>13, <1>14, <1>15, <2>1, <2>2 DEF PagesOK
<1>17. ASSUME NEW x \in Readers PROVE ReaderOK(x)' /\ OwnOK(x)' /\ PagesOK(x)'
  <2>1. CASE x = r
    BY <1>11, <1>16, <2>1
  <2>2. CASE x # r
    <3>1. pc'[x] = pc[x] /\ page'[x] = page[x]
      BY <1>1, <1>8, <2>2 DEF TypeOK
    <3> QED BY <1>1, <3>1, OthersStay DEF IInv
  <2> QED BY <2>1, <2>2
<1> QED BY <1>1, <1>9, <1>17, TablesStay DEF IInv

LEMMA Invariance == Spec => []IInv
<1>1. IInv /\ [Next]_vars => IInv'
  <2> SUFFICES ASSUME IInv, [Next]_vars PROVE IInv'
    OBVIOUS
  <2>1. ASSUME NEW w \in Writers, NEW p \in Posts, Begin(w, p) PROVE IInv'
    BY <2>1, BeginStep
  <2>2. ASSUME NEW w \in Writers, Commit(w) PROVE IInv'
    BY <2>2, CommitStep
  <2>3. CASE Capture
    BY <2>3, CaptureStep
  <2>4. ASSUME NEW r \in Readers, NEW q \in Queries, Ask(r, q) PROVE IInv'
    BY <2>4, AskStep
  <2>5. ASSUME NEW r \in Readers, Read(r) PROVE IInv'
    BY <2>5, FindOneStep, ReadRowsStep, ReadTotalStep DEF Read
  <2>6. CASE UNCHANGED vars
    <3>1. TypeOK /\ TablesOK /\ UNCHANGED <<clock, open, tables>>
      BY <2>6 DEF IInv, vars
    <3>2. TypeOK'
      BY <2>6, <3>1 DEF TypeOK, vars, tables
    <3>3. \A x \in Readers : ReaderOK(x)' /\ OwnOK(x)' /\ PagesOK(x)'
      BY <2>6, <3>1, OthersStay DEF IInv, vars
    <3> QED BY <3>1, <3>2, <3>3, TablesStay DEF IInv
  <2>7. CASE Terminating
    BY <2>6, <2>7 DEF Terminating
  <2> QED BY <2>1, <2>2, <2>3, <2>4, <2>5, <2>6, <2>7 DEF Next
<1> QED BY <1>1, InitInv, PTL DEF Spec

-----------------------------------------------------------------------------
(* The theorems.                                                           *)

(* Whatever the order of the steps, the variables keep their types: in       *)
(* particular no time exceeds the bound, however much is inserted.         *)
THEOREM TypeCorrect == Spec => []TypeOK
<1>1. IInv => TypeOK
  BY DEF IInv
<1> QED BY <1>1, Invariance, PTL

(* getUserTransactions and getTransactionById (transactions.service.ts)     *)
(* show nobody a transaction of another user.                              *)
THEOREM OwnRows == Spec => []OwnRowsOnly
<1>1. IInv => OwnRowsOnly
  BY DEF IInv, OwnRowsOnly, OwnOK, ReaderOK, Shown
<1> QED BY <1>1, Invariance, PTL

(* A client that reads page after page until it has the last has every row  *)
(* that was there when it began, whatever was committed meanwhile.         *)
THEOREM NothingMissed == Spec => []PagesMissNothing
<1>1. IInv => PagesMissNothing
  <2> SUFFICES ASSUME IInv, NEW r \in Readers, pc[r] = "done", Lists(r),
                      Determined(query[r])
               PROVE  before[r] \subseteq ToSet(got[r])
    BY DEF PagesMissNothing
  <2> QED BY DEF IInv, PagesOK, CompleteOK, Lists, Shown
<1> QED BY <1>1, Invariance, PTL

(* It is shown no row twice but for a row that came in between.            *)
THEOREM RepeatsExplained == Spec => []RepeatsAreExplained
<1>1. IInv => RepeatsAreExplained
  <2> SUFFICES ASSUME IInv, NEW r \in Readers, Lists(r), Determined(query[r])
               PROVE  Len(got[r]) - Cardinality(ToSet(got[r]))
                        <= Cardinality(Listed(query[r]) \ before[r])
    BY DEF RepeatsAreExplained
  <2>1. pc[r] # "idle"
    BY DEF IInv, ReaderOK, Lists
  <2> QED BY <2>1 DEF IInv, PagesOK, CompleteOK, Lists, Shown
<1> QED BY <1>1, Invariance, PTL

(* getRateHistory (fx-snapshot.service.ts): the pages of the history of one *)
(* currency join to one list in the order of time, without repetition.     *)
THEOREM HistorySorted == Spec => []HistoryInOrder
<1>1. IInv => HistoryInOrder
  <2> SUFFICES ASSUME IInv, NEW r \in Readers, Lists(r),
                      query[r].table = "snapshots", Determined(query[r])
               PROVE  \A i, j \in DOMAIN got[r] :
                        i < j => got[r][i].at < got[r][j].at
    BY DEF HistoryInOrder
  <2>1. pc[r] # "idle"
    BY DEF IInv, ReaderOK, Lists
  <2> QED BY <2>1 DEF IInv, PagesOK, SortedOK, Lists
<1> QED BY <1>1, Invariance, PTL

(* getManyAndCount (transactions.service.ts) and getRateHistory: the total   *)
(* told with a page is at least the number of rows shown so far, however    *)
(* the rows of one time are ordered and whatever is committed in between.   *)
THEOREM TotalsHold == Spec => []TotalsCoverPages
<1>1. IInv => TotalsCoverPages
  <2> SUFFICES ASSUME IInv, NEW r \in Readers, pc[r] = "count"
               PROVE  Len(got[r]) <= Total(r)
    BY DEF TotalsCoverPages
  <2> QED BY DEF IInv, ReaderOK, PagesOK, CountOK, Total
<1> QED BY <1>1, Invariance, PTL
=============================================================================
