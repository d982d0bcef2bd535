------------------------ MODULE WalletsLedgerProofs ------------------------
(***************************************************************************)
(* The ledger explains every balance: a proof that money is neither made    *)
(* nor lost, for any number of transactions.                               *)
(*                                                                         *)
(* LedgerExplainsBalances sums credits and debits over the ledger, so the   *)
(* proof first needs what a sum over a finite set is: that the recursive    *)
(* function behind MapThenSumSet exists, that its values do not depend on   *)
(* the order in which elements are chosen, and that an element more adds    *)
(* its amount (TotalAdd).  These are inductions over finite sets, each by a *)
(* set without a smallest counterexample (SubsetInduction).                *)
(***************************************************************************)
EXTENDS WalletsRefinementProofs, WellFoundedInduction

Chosen(s) == CHOOSE x \in s : TRUE

(* The sums of field over the subsets of S, as MapThenSumSet takes them. *)
IsSum(g, field, S) ==
    g = [s \in SUBSET S |->
           IF s = {} THEN 0 ELSE Chosen(s)[field] + g[s \ {Chosen(s)}]]

(* The sum of field over S. *)
Total(field, S) == (CHOOSE g : IsSum(g, field, S))[S]

-----------------------------------------------------------------------------
(* Sums over finite sets.                                                  *)

LEMMA LedgerTotals ==
    ASSUME NEW S
    PROVE  /\ MapThenSumSet(LAMBDA e : e.credit, S) = Total("credit", S)
           /\ MapThenSumSet(LAMBDA e : e.debit, S) = Total("debit", S)
BY DEF MapThenSumSet, MapThenFoldSet, Total, IsSum, Chosen

(* What holds of a set whenever it holds of its proper subsets holds of     *)
(* every finite set.                                                       *)
LEMMA SubsetInduction ==
    ASSUME NEW S, IsFiniteSet(S), NEW Q,
           \A T \in SUBSET S : (\A U \in SUBSET T : U # T => U \in Q) => T \in Q
    PROVE  \A T \in SUBSET S : T \in Q
<1> DEFINE Bad == {T \in SUBSET S : T \notin Q}
           R == StrictSubsetOrdering(S)
<1>1. FiniteSubsetsOf(S) = SUBSET S
  BY FS_Subset DEF FiniteSubsetsOf
<1>2. IsWellFoundedOn(R, SUBSET S)
  BY <1>1, FS_StrictSubsetOrderingWellFounded
<1>3. SUFFICES ASSUME Bad # {} PROVE FALSE
  OBVIOUS
<1>4. PICK T \in Bad : \A U \in Bad : ~ (<<U, T>> \in R)
  <2> HIDE DEF R, Bad
  <2>1. Bad \subseteq SUBSET S
    BY DEF Bad
  <2> QED BY <1>2, <1>3, <2>1, WFMin
<1>5. ASSUME NEW U \in SUBSET T, U # T PROVE U \in Q
  <2>1. U \in SUBSET S /\ T \in SUBSET S
    OBVIOUS
  <2>2. <<U, T>> \in R
    BY <1>5, <2>1 DEF StrictSubsetOrdering
  <2> QED BY <1>4, <2>1, <2>2
<1> QED BY <1>5

LEMMA ChosenIn == \A s : s # {} => Chosen(s) \in s
BY DEF Chosen

LEMMA SumValue ==
    ASSUME NEW S, NEW field, NEW g, IsSum(g, field, S), NEW s \in SUBSET S
    PROVE  g[s] = IF s = {} THEN 0 ELSE Chosen(s)[field] + g[s \ {Chosen(s)}]
BY DEF IsSum

(* The sums of a set agree with those of a subset. *)
LEMMA SumCoherent ==
    ASSUME NEW S, NEW T \in SUBSET S, IsFiniteSet(T), NEW field,
           NEW g, IsSum(g, field, S), NEW h, IsSum(h, field, T)
    PROVE  \A s \in SUBSET T : g[s] = h[s]
<1> DEFINE Q == {s \in SUBSET T : g[s] = h[s]}
<1>1. ASSUME NEW s \in SUBSET T, \A u \in SUBSET s : u # s => u \in Q
      PROVE  s \in Q
  <2>1. CASE s = {}
    BY <2>1, SumValue
  <2>2. CASE s # {}
    <3>1. s \ {Chosen(s)} \in SUBSET s /\ s \ {Chosen(s)} # s
      BY <2>2, ChosenIn
    <3>2. g[s \ {Chosen(s)}] = h[s \ {Chosen(s)}]
      BY <1>1, <3>1
    <3>3. g[s] = Chosen(s)[field] + g[s \ {Chosen(s)}]
      <4>1. s \in SUBSET S
        OBVIOUS
      <4> QED BY <2>2, <4>1, SumValue
    <3>4. h[s] = Chosen(s)[field] + h[s \ {Chosen(s)}]
      BY <2>2, SumValue
    <3> QED BY <3>2, <3>3, <3>4
  <2> QED BY <2>1, <2>2
<1>2. \A s \in SUBSET T : s \in Q
  <2> HIDE DEF Q
  <2> QED BY <1>1, SubsetInduction
<1> QED BY <1>2

(* Every finite set has such sums. *)
LEMMA SumExists ==
    ASSUME NEW S, IsFiniteSet(S), NEW field
    PROVE  \E g : IsSum(g, field, S)
<1> DEFINE Q == {T \in SUBSET S : \E g : IsSum(g, field, T)}
<1>1. ASSUME NEW T \in SUBSET S, \A U \in SUBSET T : U # T => U \in Q
      PROVE  T \in Q
  <2> DEFINE G(U) == (CHOOSE h : IsSum(h, field, U))[U]
             value(s) == IF s = {} THEN 0
                         ELSE Chosen(s)[field] + G(s \ {Chosen(s)})
             g == [s \in SUBSET T |-> value(s)]
  <2>1. ASSUME NEW U \in SUBSET T, U # T
        PROVE  IsSum(CHOOSE h : IsSum(h, field, U), field, U)
    BY <1>1, <2>1
  <2>2. ASSUME NEW U \in SUBSET T, U # T
        PROVE  G(U) = value(U)
    <3> DEFINE h == CHOOSE h : IsSum(h, field, U)
    <3>1. IsSum(h, field, U)
      BY <2>1, <2>2
    <3>2. CASE U = {}
      BY <3>1, <3>2, SumValue
    <3>3. CASE U # {}
      <4> DEFINE W == U \ {Chosen(U)}
                 k == CHOOSE k : IsSum(k, field, W)
      <4>1. W \in SUBSET U /\ W \in SUBSET T /\ W # T
        BY <2>2, <3>3, ChosenIn
      <4>2. IsSum(k, field, W)
        BY <2>1, <4>1
      <4>3. IsFiniteSet(W)
        BY <4>1, FS_Subset
      <4>4. h[W] = k[W]
        <5> HIDE DEF h, k, W
        <5> QED BY <3>1, <4>1, <4>2, <4>3, SumCoherent
      <4>5. h[U] = Chosen(U)[field] + h[W]
        <5>1. U \in SUBSET U
          OBVIOUS
        <5> HIDE DEF h
        <5> QED BY <3>1, <3>3, <5>1, SumValue
      <4> QED BY <3>3, <4>4, <4>5
    <3> QED BY <3>2, <3>3
  <2>3. ASSUME NEW s \in SUBSET T, s # {}
        PROVE  g[s] = Chosen(s)[field] + g[s \ {Chosen(s)}]
    <3> DEFINE W == s \ {Chosen(s)}
    <3>1. W \in SUBSET T /\ W # T
      BY <2>3, ChosenIn
    <3>2. g[W] = value(W)
      BY <3>1
    <3>3. G(W) = value(W)
      BY <3>1, <2>2
    <3>4. g[s] = Chosen(s)[field] + G(W)
      BY <2>3
    <3> QED BY <3>2, <3>3, <3>4
  <2>4. \A s \in SUBSET T : s = {} => g[s] = 0
    OBVIOUS
  <2>5. DOMAIN g = SUBSET T /\ g = [s \in SUBSET T |-> g[s]]
    OBVIOUS
  <2>6. IsSum(g, field, T)
    <3> HIDE DEF g
    <3> QED BY <2>3, <2>4, <2>5 DEF IsSum
  <2> HIDE DEF g
  <2> QED BY <2>6
<1>2. \A T \in SUBSET S : T \in Q
  <2> HIDE DEF Q
  <2> QED BY <1>1, SubsetInduction
<1> QED BY <1>2

LEMMA TotalIsSum ==
    ASSUME NEW S, IsFiniteSet(S), NEW field, NEW g, IsSum(g, field, S),
           NEW T \in SUBSET S
    PROVE  Total(field, T) = g[T]
<1> DEFINE h == CHOOSE h : IsSum(h, field, T)
<1>1. IsFiniteSet(T)
  BY FS_Subset
<1>2. IsSum(h, field, T)
  BY <1>1, SumExists
<1>3. Total(field, T) = h[T]
  BY DEF Total
<1> HIDE DEF h
<1> QED BY <1>1, <1>2, <1>3, SumCoherent

(* The order in which a sum is taken does not matter. *)
LEMMA SumRemove ==
    ASSUME NEW S, IsFiniteSet(S), NEW field, \A x \in S : x[field] \in Int,
           NEW g, IsSum(g, field, S)
    PROVE  \A s \in SUBSET S : /\ g[s] \in Int
                              /\ \A x \in s : g[s] = x[field] + g[s \ {x}]
<1> DEFINE Q == {s \in SUBSET S : /\ g[s] \in Int
                                  /\ \A x \in s : g[s] = x[field] + g[s \ {x}]}
<1>1. ASSUME NEW s \in SUBSET S, \A u \in SUBSET s : u # s => u \in Q
      PROVE  s \in Q
  <2>1. CASE s = {}
    BY <2>1, SumValue
  <2>2. CASE s # {}
    <3> DEFINE y == Chosen(s)
    <3>1. y \in s /\ y[field] \in Int /\ g[s] = y[field] + g[s \ {y}]
      BY <2>2, ChosenIn, SumValue
    <3> HIDE DEF y
    <3>2. ASSUME NEW x \in s
          PROVE  /\ x[field] \in Int /\ g[s \ {x}] \in Int
                 /\ \A z \in s \ {x} :
                      g[s \ {x}] = z[field] + g[(s \ {x}) \ {z}]
      <4>1. s \ {x} \in SUBSET s /\ s \ {x} # s
        OBVIOUS
      <4> QED BY <1>1, <4>1
    <3>3. ASSUME NEW x \in s, x # y
          PROVE  g[s] = x[field] + g[s \ {x}]
      <4>1. g[s \ {y}] = x[field] + g[(s \ {y}) \ {x}]
        BY <3>1, <3>2, <3>3
      <4>2. g[s \ {x}] = y[field] + g[(s \ {x}) \ {y}]
        BY <3>1, <3>2, <3>3
      <4>3. (s \ {x}) \ {y} = (s \ {y}) \ {x}
        OBVIOUS
      <4>4. g[(s \ {x}) \ {y}] \in Int
        <5>1. (s \ {x}) \ {y} \in SUBSET s /\ (s \ {x}) \ {y} # s
          OBVIOUS
        <5> QED BY <1>1, <5>1
      <4>5. x[field] \in Int /\ y[field] \in Int
        BY <3>1, <3>2
      <4>6. \A a, b, c \in Int : a + (b + c) = b + (a + c)
        OBVIOUS
      <4>7. g[s] = y[field] + (x[field] + g[(s \ {x}) \ {y}])
        BY <3>1, <4>1, <4>3
      <4> QED BY <4>2, <4>4, <4>5, <4>6, <4>7
    <3>4. g[s] \in Int
      <4>1. g[s \ {y}] \in Int
        BY <3>1, <3>2
      <4>2. \A a, b \in Int : a + b \in Int
        OBVIOUS
      <4> QED BY <3>1, <4>1, <4>2
    <3>5. \A x \in s : g[s] = x[field] + g[s \ {x}]
      BY <3>1, <3>3
    <3> QED BY <3>4, <3>5
  <2> QED BY <2>1, <2>2
<1>2. \A s \in SUBSET S : s \in Q
  <2> HIDE DEF Q
  <2> QED BY <1>1, SubsetInduction
<1> QED BY <1>2

LEMMA TotalEmpty == \A field : Total(field, {}) = 0
<1> TAKE field
<1>1. PICK g : IsSum(g, field, {})
  BY FS_EmptySet, SumExists
<1> QED BY <1>1, FS_EmptySet, TotalIsSum, SumValue

LEMMA TotalAdd ==
    ASSUME NEW S, IsFiniteSet(S), NEW field, NEW x, x \notin S,
           x[field] \in Int, \A y \in S : y[field] \in Int
    PROVE  /\ Total(field, S) \in Int
           /\ Total(field, S \cup {x}) = x[field] + Total(field, S)
<1> DEFINE T == S \cup {x}
<1>1. IsFiniteSet(T) /\ x \in T /\ \A y \in T : y[field] \in Int
  BY FS_AddElement
<1>2. PICK g : IsSum(g, field, T)
  BY <1>1, SumExists
<1>3. S \in SUBSET T /\ T \in SUBSET T /\ T \ {x} = S
  OBVIOUS
<1> HIDE DEF T
<1>4. Total(field, S) = g[S] /\ Total(field, T) = g[T]
  BY <1>1, <1>2, <1>3, TotalIsSum
<1>5. g[S] \in Int /\ g[T] = x[field] + g[S]
  BY <1>1, <1>2, <1>3, SumRemove
<1> QED BY <1>4, <1>5 DEF T

-----------------------------------------------------------------------------
(* The ledger.                                                             *)

Credits(u, c) == {e \in ledger : e.user = u /\ e.to = c}
Debits(u, c) == {e \in ledger : e.user = u /\ e.from = c}

(* LedgerExplainsBalances of one row. *)
Explained(u, c) ==
    OrZero(balance[<<u, c>>]) =
      OrZero(Opening[<<u, c>>]) + Total("credit", Credits(u, c))
        - Total("debit", Debits(u, c))

Balanced ==
    /\ IsFiniteSet(ledger)
    /\ \A u \in Users, c \in Currencies : Explained(u, c)

LEMMA BalancedExplains == Balanced => LedgerExplainsBalances
BY LedgerTotals DEF Balanced, Explained, Credits, Debits, LedgerExplainsBalances

(* The tables change when a wallet is opened or a transaction commits. *)
LEMMA TableSteps ==
    ASSUME [Next]_vars
    PROVE  \/ UNCHANGED tables
           \/ \E u \in Users : CreateWallet(u)
           \/ \E r \in Requests : pc[r] = "commit" /\ Apply(r)
<1>1. ASSUME NEW r \in Requests, Commit(r) \/ CommitAckLost(r)
      PROVE  pc[r] = "commit" /\ Apply(r)
  BY <1>1 DEF Commit, CommitAckLost
<1>2. ASSUME NEW r \in Requests, Step(r), ~ Commit(r), ~ CommitAckLost(r)
      PROVE  UNCHANGED tables
  BY <1>2 DEF Step, GuardTrade, RefuseSameCurrency, CheckIdempotency, FetchRate,
     RateUnavailable, FindWallet, LockFundedRow, LockFirstRow, LockSecondRow, Save,
     RecordTransaction, Respond, Fail, tables
<1>3. CASE \/ \E r \in Requests : \E d \in Offers : Submit(r, d)
           \/ \E r \in Requests : Abort(r)
           \/ \E S \in SUBSET Requests : Crash(S)
           \/ UNCHANGED vars
  BY <1>3 DEF Submit, Abort, Fail, Crash, vars, tables
<1> QED BY <1>1, <1>2, <1>3 DEF Next, Terminating

LEMMA BalancedInit == Init => Balanced
<1> SUFFICES ASSUME Init PROVE Balanced
  OBVIOUS
<1>1. balance = Opening /\ ledger = {} /\ IsFiniteSet(ledger)
  BY FS_EmptySet DEF Init
<1>2. \A row \in Rows : OrZero(Opening[row]) \in Int
  BY ConstantsOK DEF OrZero
<1>3. ASSUME NEW u \in Users, NEW c \in Currencies PROVE Explained(u, c)
  <2>1. Credits(u, c) = {} /\ Debits(u, c) = {}
    BY <1>1 DEF Credits, Debits
  <2>2. OrZero(Opening[<<u, c>>]) \in Int
    BY <1>2 DEF Rows
  <2>3. Total("credit", {}) = 0 /\ Total("debit", {}) = 0
    BY TotalEmpty
  <2> QED BY <1>1, <2>1, <2>2, <2>3 DEF Explained
<1> QED BY <1>1, <1>3 DEF Balanced

LEMMA BalancedOpen ==
    ASSUME IInv, Balanced, NEW u \in Users, CreateWallet(u)
    PROVE  Balanced'
<1>1. ledger' = ledger
  BY DEF CreateWallet
<1>2. \A row \in Rows : OrZero(balance'[row]) = OrZero(balance[row])
  BY DEF CreateWallet, HasWallet, OrZero, Rows
<1>3. ASSUME NEW v \in Users, NEW c \in Currencies PROVE Explained(v, c)'
  <2>1. OrZero(balance'[<<v, c>>]) = OrZero(balance[<<v, c>>])
    BY <1>2 DEF Rows
  <2>2. Credits(v, c)' = Credits(v, c) /\ Debits(v, c)' = Debits(v, c)
    BY <1>1 DEF Credits, Debits
  <2>3. Explained(v, c)
    BY DEF Balanced
  <2> QED BY <2>1, <2>2, <2>3 DEF Explained
<1> QED BY <1>1, <1>3 DEF Balanced

LEMMA BalancedApply ==
    ASSUME NoHalves, IInv, Paths, Balanced, TypeOK',
           NEW r \in Requests, pc[r] = "commit", Apply(r)
    PROVE  Balanced'
<1> DEFINE p == Posting(r, dto[r], rate[r])
<1>1. Abstract!Post(p)
  BY RefineApply
<1>2. /\ p.user \in Users /\ p.to \in Currencies /\ p.from # p.to
      /\ p.from # None =>
           balance[<<p.user, p.from>>] \in Int
  <2>1. /\ dto[r] \in Offers /\ dto[r].from # dto[r].to
        /\ \A row \in Rows : balance[row] \in Int \cup {None}
        /\ p.user = dto[r].user /\ p.from = dto[r].from /\ p.to = dto[r].to
    BY AtCommit DEF Posting
  <2>2. p.from # None => p.from \in Currencies /\ p.user \in Users
    BY <2>1, OfferType
  <2>3. p.from # None => balance[<<p.user, p.from>>] # None
    BY <1>1 DEF Abstract!Post, Abstract!Covered
  <2> HIDE DEF p
  <2> QED BY <2>1, <2>2, <2>3, OfferType DEF Rows
<1> HIDE DEF p
<1>3. ledger' = ledger \cup {p} /\ p \notin ledger
  BY <1>1 DEF Abstract!Post, Abstract!Fresh
<1>4. \A e \in ledger' : e.credit \in Int /\ e.debit \in Int
  BY DEF TypeOK, Entries
<1>5. IsFiniteSet(ledger')
  BY <1>3, FS_AddElement DEF Balanced
<1>6. ASSUME NEW u \in Users, NEW c \in Currencies PROVE Explained(u, c)'
  <2> DEFINE row == <<u, c>>
             C == Credits(u, c)
             D == Debits(u, c)
  <2>1. row \in Rows /\ OrZero(Opening[row]) \in Int
    BY ConstantsOK DEF Rows, OrZero
  <2>2. /\ IsFiniteSet(C) /\ p \notin C
        /\ IsFiniteSet(D) /\ p \notin D
    <3>1. C \in SUBSET ledger /\ D \in SUBSET ledger
      BY DEF Credits, Debits
    <3> HIDE DEF C, D
    <3> QED BY <1>3, <3>1, FS_Subset DEF Balanced
  <2>3. \A e \in C \cup D \cup {p} : e.credit \in Int /\ e.debit \in Int
    BY <1>3, <1>4 DEF Credits, Debits
  <2>4. /\ Total("credit", C) \in Int
        /\ Total("credit", C \cup {p}) = p.credit + Total("credit", C)
        /\ Total("debit", D) \in Int
        /\ Total("debit", D \cup {p}) = p.debit + Total("debit", D)
    <3> HIDE DEF C, D
    <3>1. \A e \in C : e["credit"] \in Int
      BY <2>3
    <3>2. \A e \in D : e["debit"] \in Int
      BY <2>3
    <3>3. p["credit"] \in Int /\ p["debit"] \in Int
      BY <2>3
    <3>4. /\ Total("credit", C) \in Int
          /\ Total("credit", C \cup {p}) = p["credit"] + Total("credit", C)
      BY <2>2, <3>1, <3>3, TotalAdd
    <3>5. /\ Total("debit", D) \in Int
          /\ Total("debit", D \cup {p}) = p["debit"] + Total("debit", D)
      BY <2>2, <3>2, <3>3, TotalAdd
    <3> QED BY <3>4, <3>5
  <2>5. /\ Credits(u, c)' = IF p.user = u /\ p.to = c THEN C \cup {p} ELSE C
        /\ Debits(u, c)' = IF p.user = u /\ p.from = c THEN D \cup {p} ELSE D
    BY <1>3 DEF Credits, Debits
  <2>6. /\ OrZero(balance[row]) =
             OrZero(Opening[row]) + Total("credit", C) - Total("debit", D)
        /\ OrZero(balance[row]) \in Int
    BY <2>1, <2>4 DEF Balanced, Explained
  <2>7. balance'[row] =
          CASE row = <<p.user, p.to>>   -> OrZero(balance[row]) + p.credit
            [] row = <<p.user, p.from>> -> balance[row] - p.debit
            [] OTHER                    -> balance[row]
    BY <1>1, <2>1 DEF Abstract!Post, Abstract!Amount, Abstract!Rows, Rows, OrZero
  <2>8. p.credit \in Int /\ p.debit \in Int
    BY <2>3
  <2> HIDE DEF C, D
  <2>9. CASE p.user = u /\ p.to = c
    <3>1. balance'[row] = OrZero(balance[row]) + p.credit
      <4>1. row = <<p.user, p.to>> /\ row # <<p.user, p.from>>
        BY <1>2, <2>9
      <4> HIDE DEF row
      <4> QED BY <2>7, <4>1
    <3>2. OrZero(balance'[row]) = OrZero(balance[row]) + p.credit
      BY <2>6, <2>8, <3>1, NoneIsNoValue DEF OrZero
    <3>3. Credits(u, c)' = C \cup {p} /\ Debits(u, c)' = D
      BY <1>2, <2>5, <2>9
    <3> QED BY <2>1, <2>4, <2>6, <2>8, <3>2, <3>3 DEF Explained
  <2>10. CASE p.user = u /\ p.from = c
    <3>1. balance'[row] = balance[row] - p.debit
      BY <1>2, <2>7, <2>10
    <3>2. balance[row] \in Int
      BY <1>2, <2>10, NoneIsNoValue
    <3>3. OrZero(balance'[row]) = OrZero(balance[row]) - p.debit
      BY <2>8, <3>1, <3>2, NoneIsNoValue DEF OrZero
    <3>4. Credits(u, c)' = C /\ Debits(u, c)' = D \cup {p}
      BY <1>2, <2>5, <2>10
    <3> QED BY <2>1, <2>4, <2>6, <2>8, <3>3, <3>4 DEF Explained
  <2>11. CASE p.user # u \/ (p.to # c /\ p.from # c)
    <3>1. balance'[row] = balance[row]
      BY <2>7, <2>11
    <3>2. Credits(u, c)' = C /\ Debits(u, c)' = D
      BY <2>5, <2>11
    <3> QED BY <2>6, <3>1, <3>2 DEF Explained
  <2> QED BY <2>9, <2>10, <2>11
<1> QED BY <1>5, <1>6 DEF Balanced

LEMMA BalancedNext ==
    NoHalves /\ IInv /\ Paths /\ Balanced /\ [Next]_vars => Balanced'
<1> SUFFICES ASSUME NoHalves, IInv, Paths, Balanced, [Next]_vars
             PROVE  Balanced'
  OBVIOUS
<1>1. TypeOK'
  <2>1. IInv'
    BY LemmaNext
  <2> QED BY <2>1 DEF IInv
<1>2. CASE UNCHANGED tables
  BY <1>2 DEF tables, Balanced, Explained, Credits, Debits
<1>3. ASSUME NEW u \in Users, CreateWallet(u) PROVE Balanced'
  BY <1>3, BalancedOpen
<1>4. ASSUME NEW r \in Requests, pc[r] = "commit", Apply(r) PROVE Balanced'
  BY <1>1, <1>4, BalancedApply
<1> QED BY <1>2, <1>3, <1>4, TableSteps

(* Every balance is its opening amount plus the credits minus the debits    *)
(* the ledger records, however many requests race, fail and are retried: no *)
(* money moves without a record, or by another amount than recorded.        *)
(* Amounts that end in half a unit are left out: convertCurrency rounds     *)
(* the balance and the record of them in two directions.                   *)
THEOREM MoneyIsExplained ==
    ASSUME NoHalves
    PROVE  Spec => []LedgerExplainsBalances
<1>1. IInv /\ Paths /\ Balanced /\ [Next]_vars => Balanced'
  BY NoHalves, BalancedNext
<1> QED
  BY <1>1, BalancedInit, BalancedExplains, PathsHold, PTL DEF Spec
=============================================================================
