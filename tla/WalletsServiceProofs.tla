------------------------ MODULE WalletsServiceProofs ------------------------
(***************************************************************************)
(* Proofs about WalletsService, for every set of requests, users,          *)
(* currencies and keys, every dto, rate and opening balance.               *)
(*                                                                         *)
(* One inductive invariant, IInv, carries all the safety theorems: four     *)
(* predicates of a single request, the invariants they serve, and types.   *)
(* A step that leaves the tables alone changes one request only, so what    *)
(* it has to preserve is what IInv says of that request (LemmaLocal); a     *)
(* commit, which changes the tables, has to be checked against the others  *)
(* (LemmaCommit).                                                          *)
(***************************************************************************)
EXTENDS WalletsService, TLAPS

Writing == {"save", "record", "commit"}

(* What a request has been checked for by the time it gets somewhere.      *)
RequestOK(r) ==
    /\ pc[r] # "idle" => dto[r] \in Offers
    /\ pc[r] \in {"guard", "rate", "lock2"} => dto[r].kind # "funding"
    /\ pc[r] \in {"rate", "wallet"} \cup InTransaction =>
         /\ dto[r].from # dto[r].to
         /\ dto[r].amount > 0
    /\ pc[r] \in {"wallet"} \cup InTransaction /\ dto[r].kind # "funding" =>
         rate[r] \in Nat

(* Rows are locked by one open transaction at most, and still have the      *)
(* amounts it read; the rows it writes are locked, or absent and about to   *)
(* be inserted; its source covers the amount.                              *)
LocksOK(r) ==
    /\ held[r] # {} => pc[r] \in {"lock2"} \cup Writing
    /\ \A row \in held[r] :
         /\ row[1] = dto[r].user
         /\ balance[row] # None
         /\ seen[r][row[2]] = balance[row]
         /\ \A s \in Requests \ {r} : row \notin held[s]
    /\ pc[r] = "lock2" /\ seen[r][FirstCurrency(dto[r])] # None =>
         <<dto[r].user, FirstCurrency(dto[r])>> \in held[r]
    /\ pc[r] \in Writing /\ (dto[r].kind = "funding" \/ ~ Inserts(r)) =>
         ToRow(dto[r]) \in held[r]
    /\ pc[r] \in Writing /\ dto[r].kind # "funding" =>
         /\ FromRow(dto[r]) \in held[r]
         /\ Covers(seen[r][dto[r].from], dto[r])

(* A transaction about to commit is alone with its key. *)
KeyOK(r) ==
    pc[r] = "commit" =>
        /\ Posted(dto[r]) = {}
        /\ \A s \in Requests \ {r} : pc[s] = "commit" => ~ SameKey(dto[r], dto[s])

(* A row about to be inserted is absent, and nobody else inserts it. *)
InsertOK(r) ==
    pc[r] \in {"record", "commit"} /\ Inserts(r) =>
        /\ balance[ToRow(dto[r])] = None
        /\ \A s \in Requests \ {r} :
             ~ (/\ pc[s] \in {"record", "commit"}
                /\ Inserts(s)
                /\ ToRow(dto[s]) = ToRow(dto[r]))

IInv ==
    /\ TypeOK
    /\ \A r \in Requests : RequestOK(r)
    /\ \A r \in Requests : LocksOK(r)
    /\ \A r \in Requests : KeyOK(r)
    /\ \A r \in Requests : InsertOK(r)
    /\ AtMostOncePerKey
    /\ NoOverdraft

-----------------------------------------------------------------------------
(* Dtos and arithmetic.                                                    *)

LEMMA OfferType ==
    ASSUME NEW d \in Offers
    PROVE  /\ d.user \in Users /\ d.to \in Currencies /\ d.key \in Keys
           /\ d.kind \in Kinds /\ d.amount \in Int
           /\ d.from \in Currencies \cup {None}
           /\ d.kind = "funding" => d.from = None /\ d.amount > 0
           /\ d.kind # "funding" => d.from \in Currencies
           /\ FirstCurrency(d) = d.from \/ FirstCurrency(d) = d.to
           /\ SecondCurrency(d) = d.from \/ SecondCurrency(d) = d.to
           /\ d.kind # "funding" /\ d.from # d.to =>
                FirstCurrency(d) # SecondCurrency(d)
BY ConstantsOK DEF FundDtos, ConvertDtos, TradeDtos, Kinds, FirstCurrency, SecondCurrency

(* Rounding to the column keeps integers, and the sign of what it rounds.  *)
LEMMA ToUnitsType ==
    ASSUME NEW x \in Int
    PROVE  /\ ToUnits(x) \in Int
           /\ x >= 0 => ToUnits(x) >= 0
BY ConstantsOK DEF ToUnits

LEMMA CreditType ==
    ASSUME NEW a \in Int, NEW q \in Nat
    PROVE  /\ Credit(a, q) \in Int
           /\ a >= 0 => Credit(a, q) >= 0
<1> DEFINE s == SubUnits * RateScale
<1>1. s \in Nat /\ s > 0
  BY ConstantsOK
<1>2. a * q \in Int /\ (a >= 0 => a * q >= 0)
  OBVIOUS
<1>3. ASSUME NEW p \in Int, NEW t \in Nat, t > 0
      PROVE  p \div t \in Int /\ (p >= 0 => p \div t >= 0)
  BY <1>3
<1>4. (a * q) \div s \in Int /\ (a * q >= 0 => (a * q) \div s >= 0)
  <2> HIDE DEF s
  <2> QED BY <1>1, <1>2, <1>3
<1> QED BY <1>2, <1>4 DEF Credit

-----------------------------------------------------------------------------
(* Steps that leave the tables alone.                                      *)

(* Only request r moves. *)
Local(r) ==
    /\ UNCHANGED tables
    /\ \A s \in Requests \ {r} :
         /\ pc'[s] = pc[s] /\ dto'[s] = dto[s] /\ rate'[s] = rate[s]
         /\ seen'[s] = seen[s] /\ held'[s] = held[s]

RequestInv(r) == RequestOK(r) /\ LocksOK(r) /\ KeyOK(r) /\ InsertOK(r)

(* A step of one request that leaves the tables alone preserves the         *)
(* invariant if it re-establishes what the invariant says of that request. *)
LEMMA LemmaLocal ==
    ASSUME IInv, NEW r \in Requests, Local(r), TypeOK', RequestInv(r)'
    PROVE  IInv'
<1>1. balance' = balance /\ ledger' = ledger
  BY DEF Local, tables
<1>2. ASSUME NEW s \in Requests, s # r
      PROVE  RequestInv(s)'
  <2>1. /\ pc'[s] = pc[s] /\ dto'[s] = dto[s] /\ rate'[s] = rate[s]
        /\ seen'[s] = seen[s] /\ held'[s] = held[s]
    BY <1>2 DEF Local
  <2>2. RequestOK(s)'
    BY <2>1 DEF IInv, RequestOK
  <2>3. KeyOK(s)'
    <3>1. SUFFICES ASSUME pc[s] = "commit", NEW t \in Requests \ {s}, pc'[t] = "commit"
                   PROVE  ~ SameKey(dto[s], dto'[t])
      BY <1>1, <2>1 DEF IInv, KeyOK, Posted, SameKey
    <3>2. CASE t = r
      BY <1>2, <2>1, <3>1, <3>2 DEF RequestInv, KeyOK, SameKey
    <3>3. CASE t # r
      BY <3>1, <3>3 DEF IInv, Local, KeyOK, SameKey
    <3> QED BY <3>2, <3>3
  <2>4. LocksOK(s)'
    <3>1. ASSUME NEW row \in held[s], NEW t \in Requests \ {s}
          PROVE  row \notin held'[t]
      <4>1. CASE t = r
        BY <1>2, <2>1, <4>1 DEF RequestInv, LocksOK
      <4>2. CASE t # r
        BY <4>2 DEF IInv, Local, LocksOK
      <4> QED BY <4>1, <4>2
    <3> QED
      BY <1>1, <2>1, <3>1 DEF IInv, LocksOK, Inserts, ToRow, FromRow, Covers, FirstCurrency
  <2>5. InsertOK(s)'
    <3>1. ASSUME NEW t \in Requests \ {s}, pc[s] \in {"record", "commit"}, Inserts(s)
          PROVE  ~ (/\ pc[t] \in {"record", "commit"}
                    /\ Inserts(t)
                    /\ ToRow(dto[t]) = ToRow(dto[s]))'
      <4>1. CASE t = r
        BY <1>2, <2>1, <3>1, <4>1 DEF RequestInv, InsertOK, Inserts, ToRow
      <4>2. CASE t # r
        <5>1. pc'[t] = pc[t] /\ dto'[t] = dto[t] /\ seen'[t] = seen[t]
          BY <4>2 DEF Local
        <5>2. InsertOK(s)
          BY DEF IInv
        <5> QED
          BY <2>1, <3>1, <5>1, <5>2 DEF InsertOK, Inserts, ToRow
      <4> QED BY <4>1, <4>2
    <3> QED
      BY <1>1, <2>1, <3>1 DEF IInv, InsertOK, Inserts, ToRow
  <2> QED BY <2>2, <2>3, <2>4, <2>5 DEF RequestInv
<1>3. AtMostOncePerKey' /\ NoOverdraft'
  BY <1>1 DEF IInv, AtMostOncePerKey, NoOverdraft
<1> QED BY <1>2, <1>3 DEF IInv, RequestInv

(* Request r answers: an exception, a replayed transaction, or the answer   *)
(* after a commit.  It holds nothing any more.                             *)
LEMMA LemmaAnswer ==
    ASSUME IInv, NEW r \in Requests, pc[r] # "idle",
           NEW code \in Codes, NEW tx \in Requests \cup {None},
           Answer(r, code, tx), UNCHANGED tables
    PROVE  IInv'
<1> USE DEF Answer, Forget, Goto
<1>1. TypeOK'
  BY DEF IInv, TypeOK, Blank, Ended, tables
<1>2. Local(r)
  BY DEF IInv, TypeOK, Local
<1>3. RequestInv(r)'
  BY DEF IInv, TypeOK, RequestInv, RequestOK, KeyOK, LocksOK, InsertOK, Writing, InTransaction
<1> QED BY <1>1, <1>2, <1>3, LemmaLocal

(* Request r only goes on to its next await. *)
LEMMA LemmaMove ==
    ASSUME IInv, NEW r \in Requests,
           NEW label \in Outside \cup InTransaction,
           Goto(r, label),
           UNCHANGED <<balance, ledger, dto, rate, seen, held, reply>>,
           RequestInv(r)'
    PROVE  IInv'
<1>1. TypeOK'
  BY DEF IInv, TypeOK, Goto
<1>2. Local(r)
  BY DEF IInv, TypeOK, Local, Goto, tables
<1> QED BY <1>1, <1>2, LemmaLocal

(* Before its first lock a request says nothing about rows or keys. *)
LEMMA LemmaUnlocked ==
    ASSUME IInv, NEW r \in Requests,
           pc[r] \notin {"lock2"} \cup Writing, held'[r] = held[r],
           pc'[r] \in Outside \cup {"lock1"}
    PROVE  LocksOK(r)' /\ KeyOK(r)' /\ InsertOK(r)'
<1>1. held'[r] = {}
  BY DEF IInv, LocksOK
<1>2. pc'[r] \notin {"lock2"} \cup Writing
  BY DEF Outside, Writing
<1> QED BY <1>1, <1>2 DEF LocksOK, KeyOK, InsertOK, Writing

LEMMA LemmaSubmit ==
    ASSUME IInv, NEW r \in Requests, NEW d \in Offers, Submit(r, d)
    PROVE  IInv'
<1> USE DEF Submit, Goto
<1>1. TypeOK'
  BY DEF IInv, TypeOK, Outside
<1>2. Local(r)
  BY DEF IInv, TypeOK, Local, tables
<1>3. RequestOK(r)'
  BY DEF IInv, TypeOK, RequestOK, InTransaction, Guarded
<1>4. LocksOK(r)' /\ KeyOK(r)' /\ InsertOK(r)'
  BY LemmaUnlocked DEF IInv, TypeOK, Writing, Outside
<1> QED BY <1>1, <1>2, <1>3, <1>4, LemmaLocal DEF RequestInv

LEMMA LemmaGuardTrade ==
    ASSUME IInv, NEW r \in Requests, GuardTrade(r)
    PROVE  IInv'
<1>1. CASE Fail(r, "BadRequest")
  BY <1>1, LemmaAnswer DEF Fail, GuardTrade, Codes
<1>2. CASE /\ Goto(r, "check")
           /\ UNCHANGED <<balance, ledger, dto, rate, seen, held, reply>>
  <2>1. pc[r] = "guard" /\ pc'[r] = "check"
    BY <1>2 DEF GuardTrade, Goto, IInv, TypeOK
  <2>2. RequestOK(r)'
    BY <1>2, <2>1 DEF IInv, RequestOK, InTransaction
  <2>3. LocksOK(r)' /\ KeyOK(r)' /\ InsertOK(r)'
    BY <1>2, <2>1, LemmaUnlocked DEF Writing, Outside
  <2> QED BY <1>2, <2>2, <2>3, LemmaMove DEF Outside, RequestInv
<1> QED BY <1>1, <1>2 DEF GuardTrade

LEMMA LemmaCheckIdempotency ==
    ASSUME IInv, NEW r \in Requests, CheckIdempotency(r)
    PROVE  IInv'
<1>1. pc[r] = "check" /\ dto[r].from # dto[r].to /\ dto[r] \in Offers
  BY DEF CheckIdempotency, IInv, RequestOK
<1>2. CASE \E e \in Posted(dto[r]) : Answer(r, "OK", e.id) /\ UNCHANGED tables
  <2>1. PICK e \in Posted(dto[r]) : Answer(r, "OK", e.id) /\ UNCHANGED tables
    BY <1>2
  <2>2. e.id \in Requests
    BY DEF Posted, IInv, TypeOK, Entries
  <2> QED BY <1>1, <2>1, <2>2, LemmaAnswer DEF Codes
<1>3. CASE Fail(r, "BadRequest")
  BY <1>1, <1>3, LemmaAnswer DEF Fail, Codes
<1>4. CASE /\ ~ (IF dto[r].kind = "funding" THEN dto[r].to \notin Supported
                                            ELSE dto[r].amount <= 0)
           /\ Goto(r, IF dto[r].kind = "funding" THEN "wallet" ELSE "rate")
           /\ UNCHANGED <<balance, ledger, dto, rate, seen, held, reply>>
  <2>1. dto[r].amount > 0
    BY <1>1, <1>4, OfferType
  <2>2. pc'[r] = IF dto[r].kind = "funding" THEN "wallet" ELSE "rate"
    BY <1>4 DEF Goto, IInv, TypeOK
  <2>3. RequestOK(r)'
    BY <1>1, <1>4, <2>1, <2>2 DEF RequestOK, InTransaction
  <2>4. LocksOK(r)' /\ KeyOK(r)' /\ InsertOK(r)'
    BY <1>1, <1>4, <2>2, LemmaUnlocked DEF Writing, Outside
  <2> QED BY <1>4, <2>3, <2>4, LemmaMove DEF Outside, RequestInv
<1> QED BY <1>2, <1>3, <1>4 DEF CheckIdempotency

LEMMA LemmaFetchRate ==
    ASSUME IInv, NEW r \in Requests, FetchRate(r)
    PROVE  IInv'
<1> USE DEF FetchRate, Goto
<1>1. PICK q \in Nat : rate' = [rate EXCEPT ![r] = q]
  BY ConstantsOK DEF QuotesFor
<1>2. TypeOK'
  BY <1>1 DEF IInv, TypeOK, Outside
<1>3. Local(r)
  BY DEF IInv, TypeOK, Local, tables
<1>4. RequestOK(r)'
  BY <1>1 DEF IInv, TypeOK, RequestOK, InTransaction
<1>5. LocksOK(r)' /\ KeyOK(r)' /\ InsertOK(r)'
  BY LemmaUnlocked DEF IInv, TypeOK, Writing, Outside
<1> QED BY <1>2, <1>3, <1>4, <1>5, LemmaLocal DEF RequestInv

LEMMA LemmaFindWallet ==
    ASSUME IInv, NEW r \in Requests, FindWallet(r)
    PROVE  IInv'
<1>1. CASE Fail(r, "NotFound")
  BY <1>1, LemmaAnswer DEF Fail, FindWallet, Codes
<1>2. CASE /\ Goto(r, "lock1")
           /\ UNCHANGED <<balance, ledger, dto, rate, seen, held, reply>>
  <2>1. pc[r] = "wallet" /\ pc'[r] = "lock1"
    BY <1>2 DEF FindWallet, Goto, IInv, TypeOK
  <2>2. RequestOK(r)'
    BY <1>2, <2>1 DEF IInv, RequestOK, InTransaction
  <2>3. LocksOK(r)' /\ KeyOK(r)' /\ InsertOK(r)'
    BY <1>2, <2>1, LemmaUnlocked DEF Writing, Outside
  <2> QED BY <1>2, <2>2, <2>3, LemmaMove DEF InTransaction, RequestInv
<1> QED BY <1>1, <1>2 DEF FindWallet

(* The row a request asks for, and what it knows once it has it. *)
LEMMA LemmaRead ==
    ASSUME IInv, NEW r \in Requests, pc[r] \in {"lock1", "lock2"},
           NEW label \in {"lock2", "save"}, Goto(r, label),
           Unblocked(r), ReadForUpdate(r, WantedRow(r)),
           UNCHANGED <<balance, ledger, dto, rate, reply>>
    PROVE  /\ TypeOK' /\ Local(r)
           /\ pc'[r] = label
           /\ WantedRow(r) = <<dto[r].user, WantedRow(r)[2]>>
           /\ WantedRow(r)[2] \in Currencies
           /\ seen'[r] = [seen[r] EXCEPT ![WantedRow(r)[2]] = balance[WantedRow(r)]]
           /\ held'[r] = IF balance[WantedRow(r)] = None
                         THEN held[r] ELSE held[r] \cup {WantedRow(r)}
           /\ \A row \in held'[r] :
                /\ row[1] = dto[r].user
                /\ balance[row] # None
                /\ seen'[r][row[2]] = balance[row]
                /\ \A s \in Requests \ {r} : row \notin held'[s]
<1> DEFINE wanted == WantedRow(r)
           u == dto[r].user
           c == wanted[2]
<1>1. dto[r] \in Offers
  BY DEF IInv, RequestOK
<1>2. wanted = <<u, c>> /\ wanted \in Rows /\ u \in Users /\ c \in Currencies
  BY <1>1, OfferType DEF WantedRow, Rows, IInv, RequestOK, InTransaction
<1>3. \A s \in Requests \ {r} : wanted \notin held[s]
  BY DEF Unblocked, Blocks
<1>4. /\ seen' = [seen EXCEPT ![r][c] = balance[wanted]]
      /\ held' = IF balance[wanted] = None
                 THEN held ELSE [held EXCEPT ![r] = @ \cup {wanted}]
  BY DEF ReadForUpdate
<1> HIDE DEF wanted, u, c
<1>5. /\ pc'[r] = label
      /\ seen'[r] = [seen[r] EXCEPT ![c] = balance[wanted]]
      /\ held'[r] = IF balance[wanted] = None THEN held[r] ELSE held[r] \cup {wanted}
  BY <1>4 DEF IInv, TypeOK, Goto
<1>6. TypeOK'
  <2>1. balance[wanted] \in Int \cup {None}
    BY <1>2 DEF IInv, TypeOK
  <2>2. seen' \in [Requests -> [Currencies -> Int \cup {None}]]
    BY <1>2, <1>4, <2>1 DEF IInv, TypeOK
  <2>3. held' \in [Requests -> SUBSET Rows]
    BY <1>2, <1>4 DEF IInv, TypeOK
  <2>4. pc' = [pc EXCEPT ![r] = label]
    BY DEF Goto
  <2> QED BY <2>2, <2>3, <2>4 DEF IInv, TypeOK, InTransaction
<1>7. Local(r)
  BY <1>4 DEF IInv, TypeOK, Local, Goto, tables
<1>8. ASSUME NEW row \in held'[r]
      PROVE  /\ row[1] = u
             /\ balance[row] # None
             /\ seen'[r][row[2]] = balance[row]
             /\ \A s \in Requests \ {r} : row \notin held'[s]
  <2>1. seen[r] \in [Currencies -> Int \cup {None}]
    BY DEF IInv, TypeOK
  <2>2. CASE row = wanted
    <3>1. balance[row] # None
      BY <1>5, <1>8, <2>2 DEF IInv, LocksOK
    <3>2. row[1] = u /\ row[2] = c
      BY <1>2, <2>2
    <3>3. seen'[r][c] = balance[wanted]
      BY <1>2, <1>5, <2>1
    <3>4. \A s \in Requests \ {r} : row \notin held'[s]
      BY <1>3, <1>7, <2>2 DEF Local
    <3> QED BY <2>2, <3>1, <3>2, <3>3, <3>4
  <2>3. CASE row # wanted
    <3>1. row \in held[r] /\ row \in Rows
      BY <1>5, <1>8, <2>3 DEF IInv, TypeOK
    <3>2. /\ row[1] = u /\ balance[row] # None /\ seen[r][row[2]] = balance[row]
          /\ \A s \in Requests \ {r} : row \notin held[s]
      BY <3>1 DEF IInv, LocksOK, u
    <3>3. row[2] \in Currencies /\ row = <<row[1], row[2]>>
      BY <3>1 DEF Rows
    <3>4. row[2] # c
      BY <1>2, <2>3, <3>2, <3>3
    <3> QED BY <1>2, <1>5, <1>7, <2>1, <3>2, <3>3, <3>4 DEF Local
  <2> QED BY <2>2, <2>3
<1> QED BY <1>2, <1>5, <1>6, <1>7, <1>8 DEF wanted, u, c

LEMMA LemmaLockFundedRow ==
    ASSUME IInv, NEW r \in Requests, LockFundedRow(r)
    PROVE  IInv'
<1>1. CASE Fail(r, "NotFound")
  BY <1>1, LemmaAnswer DEF Fail, LockFundedRow, Codes
<1>2. CASE /\ balance[WantedRow(r)] # None
           /\ ReadForUpdate(r, WantedRow(r))
           /\ Goto(r, "save")
           /\ UNCHANGED <<balance, ledger, dto, rate, reply>>
  <2>1. /\ pc[r] = "lock1" /\ dto[r].kind = "funding" /\ Unblocked(r)
        /\ WantedRow(r) = ToRow(dto[r])
    BY DEF LockFundedRow, WantedRow, ToRow
  <2>2. /\ TypeOK' /\ Local(r) /\ pc'[r] = "save" /\ dto'[r] = dto[r]
        /\ ToRow(dto[r]) \in held'[r]
        /\ \A row \in held'[r] :
             /\ row[1] = dto[r].user
             /\ balance[row] # None
             /\ seen'[r][row[2]] = balance[row]
             /\ \A s \in Requests \ {r} : row \notin held'[s]
    BY <1>2, <2>1, LemmaRead
  <2>3. RequestOK(r)'
    BY <1>2, <2>1, <2>2 DEF IInv, RequestOK, InTransaction
  <2>4. LocksOK(r)'
    BY <1>2, <2>1, <2>2 DEF LocksOK, Writing, ToRow
  <2>5. KeyOK(r)' /\ InsertOK(r)'
    BY <2>2 DEF KeyOK, InsertOK
  <2> QED BY <2>2, <2>3, <2>4, <2>5, LemmaLocal DEF RequestInv
<1> QED BY <1>1, <1>2 DEF LockFundedRow

LEMMA LemmaLockFirstRow ==
    ASSUME IInv, NEW r \in Requests, LockFirstRow(r)
    PROVE  IInv'
<1>1. /\ pc[r] = "lock1" /\ dto[r].kind # "funding" /\ Unblocked(r)
      /\ WantedRow(r) = <<dto[r].user, FirstCurrency(dto[r])>>
      /\ ReadForUpdate(r, WantedRow(r)) /\ Goto(r, "lock2")
      /\ UNCHANGED <<balance, ledger, dto, rate, reply>>
  BY DEF LockFirstRow, WantedRow
<1> DEFINE first == <<dto[r].user, FirstCurrency(dto[r])>>
<1>2. /\ TypeOK' /\ Local(r) /\ pc'[r] = "lock2"
      /\ FirstCurrency(dto[r]) \in Currencies
      /\ seen'[r] = [seen[r] EXCEPT ![FirstCurrency(dto[r])] = balance[first]]
      /\ held'[r] = IF balance[first] = None THEN held[r] ELSE held[r] \cup {first}
      /\ \A row \in held'[r] :
           /\ row[1] = dto[r].user
           /\ balance[row] # None
           /\ seen'[r][row[2]] = balance[row]
           /\ \A s \in Requests \ {r} : row \notin held'[s]
  BY <1>1, LemmaRead
<1>3. RequestOK(r)'
  BY <1>1, <1>2 DEF IInv, RequestOK, InTransaction
<1>4. LocksOK(r)'
  <2>1. seen'[r][FirstCurrency(dto[r])] = balance[first]
    BY <1>2 DEF IInv, TypeOK
  <2>2. balance[first] # None => first \in held'[r]
    BY <1>2
  <2>3. FirstCurrency(dto'[r]) = FirstCurrency(dto[r])
    BY <1>1
  <2> QED BY <1>1, <1>2, <2>1, <2>2, <2>3 DEF LocksOK, Writing, FirstCurrency
<1>5. KeyOK(r)' /\ InsertOK(r)'
  BY <1>2 DEF KeyOK, InsertOK
<1> QED BY <1>2, <1>3, <1>4, <1>5, LemmaLocal DEF RequestInv

LEMMA LemmaLockSecondRow ==
    ASSUME IInv, NEW r \in Requests, LockSecondRow(r)
    PROVE  IInv'
<1>1. CASE Fail(r, "BadRequest")
  BY <1>1, LemmaAnswer DEF Fail, LockSecondRow, Codes
<1>2. CASE /\ Covers(SourceRead(r), dto[r])
           /\ ReadForUpdate(r, WantedRow(r))
           /\ Goto(r, "save")
           /\ UNCHANGED <<balance, ledger, dto, rate, reply>>
  <2> DEFINE d == dto[r]
             first == <<d.user, FirstCurrency(d)>>
             second == <<d.user, SecondCurrency(d)>>
  <2>1. /\ pc[r] = "lock2" /\ Unblocked(r) /\ d.kind # "funding" /\ d.from # d.to
        /\ d \in Offers
    BY DEF LockSecondRow, IInv, RequestOK, InTransaction
  <2>2. WantedRow(r) = second /\ WantedRow(r)[2] = SecondCurrency(d)
    BY <2>1 DEF WantedRow
  <2>3. /\ d.from \in Currencies /\ d.to \in Currencies
        /\ \/ d.from = FirstCurrency(d) /\ d.to = SecondCurrency(d)
           \/ d.from = SecondCurrency(d) /\ d.to = FirstCurrency(d)
        /\ FirstCurrency(d) # SecondCurrency(d)
    BY <2>1, OfferType DEF FirstCurrency, SecondCurrency
  <2>4. /\ TypeOK' /\ Local(r) /\ pc'[r] = "save"
        /\ seen'[r] = [seen[r] EXCEPT ![SecondCurrency(d)] = balance[second]]
        /\ held'[r] = IF balance[second] = None THEN held[r] ELSE held[r] \cup {second}
        /\ \A row \in held'[r] :
             /\ row[1] = d.user
             /\ balance[row] # None
             /\ seen'[r][row[2]] = balance[row]
             /\ \A s \in Requests \ {r} : row \notin held'[s]
    <3> HIDE DEF second
    <3> QED BY <1>2, <2>1, <2>2, LemmaRead
  <2>5. /\ seen'[r][SecondCurrency(d)] = balance[second]
        /\ seen'[r][FirstCurrency(d)] = seen[r][FirstCurrency(d)]
    BY <2>3, <2>4 DEF IInv, TypeOK
  <2>6. /\ seen'[r][SecondCurrency(d)] # None => second \in held'[r]
        /\ seen'[r][FirstCurrency(d)] # None => first \in held'[r]
    BY <2>1, <2>4, <2>5 DEF IInv, LocksOK
  <2>7. seen'[r][d.from] = SourceRead(r)
    BY <2>3, <2>5 DEF SourceRead, FromRow
  <2>8. RequestOK(r)'
    BY <1>2, <2>1, <2>4 DEF IInv, RequestOK, InTransaction
  <2>9. LocksOK(r)'
    <3>1. dto'[r] = d /\ balance' = balance
      BY <1>2
    <3>2. Covers(seen'[r][d.from], d) /\ seen'[r][d.from] # None
      BY <1>2, <2>7 DEF Covers
    <3>3. FromRow(d) \in held'[r] /\ (seen'[r][d.to] # None => ToRow(d) \in held'[r])
      BY <2>3, <2>6, <3>2 DEF FromRow, ToRow
    <3> HIDE DEF d
    <3> QED
      BY <2>1, <2>4, <3>1, <3>2, <3>3 DEF LocksOK, Inserts, FromRow, ToRow, Covers, Writing
  <2>10. KeyOK(r)' /\ InsertOK(r)'
    BY <2>4 DEF KeyOK, InsertOK
  <2> QED BY <2>4, <2>8, <2>9, <2>10, LemmaLocal DEF RequestInv
<1> QED BY <1>1, <1>2 DEF LockSecondRow

LEMMA LemmaSave ==
    ASSUME IInv, NEW r \in Requests, Save(r)
    PROVE  IInv'
<1>1. CASE \E code \in {"BadRequest", "Conflict"} : Fail(r, code)
  BY <1>1, LemmaAnswer DEF Fail, Save, Codes
<1>2. CASE /\ Unblocked(r)
           /\ Inserts(r) => balance[ToRow(dto[r])] = None
           /\ Goto(r, "record")
           /\ UNCHANGED <<balance, ledger, dto, rate, seen, held, reply>>
  <2>1. pc[r] = "save" /\ pc'[r] = "record"
    BY <1>2 DEF Save, Goto, IInv, TypeOK
  <2>2. RequestOK(r)'
    BY <1>2, <2>1 DEF IInv, RequestOK, InTransaction
  <2>3. LocksOK(r)'
    BY <1>2, <2>1 DEF IInv, LocksOK, Inserts, ToRow, FromRow, Covers, Writing
  <2>4. KeyOK(r)'
    BY <2>1 DEF KeyOK
  <2>5. InsertOK(r)'
    <3>1. ASSUME NEW s \in Requests \ {r}
          PROVE  pc'[s] = pc[s]
      BY <1>2 DEF Goto, IInv, TypeOK
    <3> QED
      BY <1>2, <2>1, <3>1 DEF InsertOK, Inserts, ToRow, Unblocked, Blocks
  <2> QED BY <1>2, <2>2, <2>3, <2>4, <2>5, LemmaMove DEF InTransaction, RequestInv
<1> QED BY <1>1, <1>2 DEF Save

LEMMA LemmaRecordTransaction ==
    ASSUME IInv, NEW r \in Requests, RecordTransaction(r)
    PROVE  IInv'
<1>1. CASE Fail(r, "Conflict")
  BY <1>1, LemmaAnswer DEF Fail, RecordTransaction, Codes
<1>2. CASE /\ Posted(dto[r]) = {}
           /\ Goto(r, "commit")
           /\ UNCHANGED <<balance, ledger, dto, rate, seen, held, reply>>
  <2>1. pc[r] = "record" /\ Unblocked(r) /\ pc'[r] = "commit"
    BY <1>2 DEF RecordTransaction, Goto, IInv, TypeOK
  <2>2. \A s \in Requests \ {r} : pc'[s] = pc[s]
    BY <1>2 DEF Goto, IInv, TypeOK
  <2>3. RequestOK(r)'
    BY <1>2, <2>1 DEF IInv, RequestOK, InTransaction
  <2>4. LocksOK(r)'
    BY <1>2, <2>1 DEF IInv, LocksOK, Inserts, ToRow, FromRow, Covers, Writing
  <2>5. KeyOK(r)'
    BY <1>2, <2>1, <2>2 DEF KeyOK, Posted, SameKey, Unblocked, Blocks
  <2>6. InsertOK(r)'
    BY <1>2, <2>1, <2>2 DEF IInv, InsertOK, Inserts, ToRow
  <2> QED BY <1>2, <2>3, <2>4, <2>5, <2>6, LemmaMove DEF InTransaction, RequestInv
<1> QED BY <1>1, <1>2 DEF RecordTransaction

-----------------------------------------------------------------------------
(* Commit.                                                                 *)

(* What request r is about to write are amounts, none of them negative; it  *)
(* deletes no row; and it touches no row that another transaction has locked or inserts.   *)
LEMMA LemmaWritten ==
    ASSUME IInv, NEW r \in Requests, pc[r] = "commit"
    PROVE  /\ Written(r) \in [Rows -> Int \cup {None}]
           /\ \A row \in Rows : Written(r)[row] # None => Written(r)[row] >= 0
           /\ \A row \in Rows : balance[row] # None => Written(r)[row] # None
           /\ Posting(r, dto[r], rate[r]) \in Entries
           /\ \A row \in Rows :
                Written(r)[row] # balance[row] =>
                  \/ row \in held[r]
                  \/ row = ToRow(dto[r]) /\ Inserts(r) /\ balance[row] = None
<1> DEFINE d == dto[r]
           from == seen[r][d.from]
           to == seen[r][d.to]
<1>1. /\ d \in Offers /\ d.amount > 0 /\ d.from # d.to
      /\ d.kind # "funding" => rate[r] \in Nat
  BY DEF IInv, RequestOK, InTransaction
<1>2. /\ d.user \in Users /\ d.to \in Currencies /\ d.key \in Keys
      /\ d.kind \in Kinds /\ d.amount \in Int
      /\ d.from \in Currencies \cup {None}
      /\ d.kind = "funding" => d.from = None
      /\ d.kind # "funding" => d.from \in Currencies
  BY <1>1, OfferType
<1>3. ToRow(d) \in Rows /\ ToRow(d)[2] = d.to
      /\ (d.kind # "funding" => FromRow(d) \in Rows /\ FromRow(d)[2] = d.from)
      /\ (d.kind = "funding" => FromRow(d) \notin Rows)
  BY <1>2, NoneIsNoValue DEF ToRow, FromRow, Rows
<1>4. /\ d.kind = "funding" \/ ~ Inserts(r) => ToRow(d) \in held[r]
      /\ d.kind # "funding" => FromRow(d) \in held[r] /\ Covers(from, d)
      /\ \A row \in held[r] : balance[row] # None /\ seen[r][row[2]] = balance[row]
  BY DEF IInv, LocksOK, Writing
<1>5. \A row \in Rows : balance[row] \in Int \cup {None}
                        /\ (balance[row] # None => balance[row] >= 0)
  BY DEF IInv, TypeOK, NoOverdraft
<1>6. d.kind # "funding" => NewFrom(r) \in Int /\ NewFrom(r) >= 0
  <2>1. SUFFICES ASSUME d.kind # "funding"
                 PROVE  NewFrom(r) \in Int /\ NewFrom(r) >= 0
    OBVIOUS
  <2>2. from \in Int /\ from * SubUnits >= d.amount
    BY <1>3, <1>4, <1>5, <2>1 DEF Covers
  <2>3. from * SubUnits - d.amount \in Int /\ from * SubUnits - d.amount >= 0
    BY <1>2, <2>2, ConstantsOK
  <2> QED BY <2>3, ToUnitsType DEF NewFrom
<1>7. NewTo(r) \in Int /\ NewTo(r) >= 0
  <2>1. CASE d.kind = "funding"
    <3>1. to \in Int /\ to >= 0
      BY <1>3, <1>4, <1>5, <2>1
    <3>2. to * SubUnits + d.amount \in Int /\ to * SubUnits + d.amount >= 0
      <4>1. to * SubUnits \in Int /\ to * SubUnits >= 0
        BY <3>1, ConstantsOK
      <4> QED BY <1>1, <1>2, <4>1
    <3> QED BY <2>1, <3>2, ToUnitsType DEF NewTo
  <2>2. CASE d.kind # "funding"
    <3>1. OrZero(to) \in Int /\ OrZero(to) >= 0
      BY <1>3, <1>4, <1>5, <2>2 DEF OrZero, Inserts
    <3>2. Credit(d.amount, rate[r]) \in Int /\ Credit(d.amount, rate[r]) >= 0
      <4>1. d.amount \in Int /\ d.amount >= 0 /\ rate[r] \in Nat
        BY <1>1, <1>2, <2>2
      <4> HIDE DEF d
      <4> QED BY <4>1, CreditType
    <3> QED BY <2>2, <3>1, <3>2 DEF NewTo
  <2> QED BY <2>1, <2>2
<1>8. ASSUME NEW row \in Rows
      PROVE  /\ Written(r)[row] \in Int \cup {None}
             /\ Written(r)[row] # None => Written(r)[row] >= 0
             /\ balance[row] # None => Written(r)[row] # None
             /\ Written(r)[row] # balance[row] =>
                  \/ row \in held[r]
                  \/ row = ToRow(d) /\ Inserts(r) /\ balance[row] = None
  <2>1. CASE row = ToRow(d)
    <3>1. Written(r)[row] = NewTo(r)
      <4>1. row # FromRow(d)
        BY <1>1, <2>1 DEF ToRow, FromRow
      <4> QED BY <2>1, <4>1 DEF Written
    <3>2. row \in held[r] \/ (Inserts(r) /\ balance[row] = None)
      <4>1. CASE Inserts(r)
        <5>1. InsertOK(r)
          BY DEF IInv
        <5> QED BY <2>1, <4>1, <5>1 DEF InsertOK
      <4>2. CASE ~ Inserts(r)
        BY <1>4, <2>1, <4>2
      <4> QED BY <4>1, <4>2
    <3> QED BY <1>7, <2>1, <3>1, <3>2, NoneIsNoValue
  <2>2. CASE row # ToRow(d) /\ row = FromRow(d)
    <3>1. Written(r)[row] = NewFrom(r) /\ d.kind # "funding"
      BY <1>3, <2>2 DEF Written
    <3> QED BY <1>4, <1>6, <2>2, <3>1, NoneIsNoValue
  <2>3. CASE row # ToRow(d) /\ row # FromRow(d)
    <3>1. Written(r)[row] = balance[row]
      BY <2>3 DEF Written
    <3> QED BY <1>5, <3>1
  <2> QED BY <2>1, <2>2, <2>3
<1>9. Written(r) \in [Rows -> Int \cup {None}]
  BY <1>8 DEF Written
<1>10. Posting(r, d, rate[r]) \in Entries
  <2>1. ToUnits(d.amount) \in Int
    BY <1>2, ToUnitsType
  <2>2. d.kind # "funding" => Credit(d.amount, rate[r]) \in Int
    BY <1>1, <1>2, CreditType
  <2>3. rate[r] \in Int \cup {None}
    BY DEF IInv, TypeOK
  <2> HIDE DEF d
  <2> QED BY <1>2, <2>1, <2>2, <2>3 DEF Posting, Entries
<1> QED BY <1>8, <1>9, <1>10

(* Request r commits, acknowledged or not: the others' locks, pending       *)
(* inserts and keys are untouched.                                         *)
LEMMA LemmaCommit ==
    ASSUME IInv, NEW r \in Requests, pc[r] = "commit",
           Apply(r), Forget(r), UNCHANGED dto,
           NEW label \in {"respond", "done"}, Goto(r, label),
           reply' \in [Requests -> [code: Codes \cup {None},
                                   tx: Requests \cup {None}]]
    PROVE  IInv'
<1> DEFINE entry == Posting(r, dto[r], rate[r])
<1>1. balance' = Written(r) /\ ledger' = ledger \cup {entry}
  BY DEF Apply
<1>2. entry.user = dto[r].user /\ entry.key = dto[r].key
  BY DEF Posting
<1>3. /\ pc'[r] \in {"respond", "done"} /\ held'[r] = {}
      /\ dto' = dto
      /\ \A s \in Requests \ {r} :
           /\ pc'[s] = pc[s] /\ rate'[s] = rate[s]
           /\ seen'[s] = seen[s] /\ held'[s] = held[s]
  BY DEF IInv, TypeOK, Goto, Forget
<1>4. TypeOK'
  <2>1. balance' \in [Rows -> Int \cup {None}] /\ ledger' \subseteq Entries
    BY <1>1, LemmaWritten DEF IInv, TypeOK
  <2>2. pc' \in [Requests -> {"idle", "respond"} \cup Outside \cup InTransaction \cup Ended]
    BY DEF IInv, TypeOK, Goto, Ended
  <2>3. /\ dto' \in [Requests -> Offers \cup {None}]
        /\ rate' \in [Requests -> Nat \cup {None}]
        /\ seen' \in [Requests -> [Currencies -> Int \cup {None}]]
        /\ held' \in [Requests -> SUBSET Rows]
    BY DEF IInv, TypeOK, Forget, Blank
  <2> QED BY <2>1, <2>2, <2>3 DEF TypeOK
<1>5. \A row \in Rows :
        balance'[row] # balance[row] =>
          \/ row \in held[r]
          \/ row = ToRow(dto[r]) /\ Inserts(r) /\ balance[row] = None
  BY <1>1, LemmaWritten
<1> HIDE DEF entry
<1>6. ASSUME NEW s \in Requests, s # r
      PROVE  RequestInv(s)'
  <2>1. /\ pc'[s] = pc[s] /\ dto'[s] = dto[s] /\ rate'[s] = rate[s]
        /\ seen'[s] = seen[s] /\ held'[s] = held[s]
    BY <1>3, <1>6
  <2>2. RequestOK(s)'
    BY <2>1 DEF IInv, RequestOK
  <2>3. LocksOK(s)'
    <3>1. \A row \in held[s] : balance'[row] = balance[row]
      <4>1. \A row \in held[s] : row \in Rows /\ row \notin held[r] /\ balance[row] # None
        BY <1>6 DEF IInv, TypeOK, LocksOK
      <4> QED BY <1>5, <4>1
    <3>2. ASSUME NEW row \in held[s], NEW t \in Requests \ {s}
          PROVE  row \notin held'[t]
      BY <1>3 DEF IInv, LocksOK
    <3> QED
      BY <2>1, <3>1, <3>2 DEF IInv, LocksOK, Inserts, ToRow, FromRow, Covers, FirstCurrency
  <2>4. KeyOK(s)'
    <3>1. SUFFICES ASSUME pc[s] = "commit"
                   PROVE  KeyOK(s)'
      BY <2>1 DEF KeyOK
    <3>2. Posted(dto[s]) = {} /\ ~ SameKey(dto[s], dto[r])
      BY <1>6, <3>1 DEF IInv, KeyOK
    <3>3. Posted(dto[s])' = {}
      BY <1>1, <1>2, <2>1, <3>2 DEF Posted, SameKey
    <3>4. \A t \in Requests \ {s} : pc'[t] = "commit" => ~ SameKey(dto[s], dto[t])
      BY <1>3, <3>1 DEF IInv, KeyOK
    <3> QED BY <1>3, <2>1, <3>3, <3>4 DEF KeyOK, Posted, SameKey
  <2>5. InsertOK(s)'
    <3>1. SUFFICES ASSUME pc[s] \in {"record", "commit"}, Inserts(s)
                   PROVE  InsertOK(s)'
      BY <2>1 DEF InsertOK, Inserts
    <3>2. /\ balance[ToRow(dto[s])] = None
          /\ \A t \in Requests \ {s} :
               ~ (/\ pc[t] \in {"record", "commit"}
                  /\ Inserts(t)
                  /\ ToRow(dto[t]) = ToRow(dto[s]))
      BY <3>1 DEF IInv, InsertOK
    <3>3. ToRow(dto[s]) \in Rows
      <4>1. dto[s] \in Offers
        BY <3>1 DEF IInv, RequestOK
      <4> QED BY <4>1, OfferType DEF ToRow, Rows
    <3>4. balance'[ToRow(dto[s])] = None
      <4>1. ToRow(dto[s]) \notin held[r]
        BY <3>2 DEF IInv, LocksOK
      <4>2. ~ (ToRow(dto[s]) = ToRow(dto[r]) /\ Inserts(r))
        BY <1>6, <3>2
      <4> QED BY <1>5, <3>2, <3>3, <4>1, <4>2
    <3>5. \A t \in Requests \ {s} :
            ~ (/\ pc[t] \in {"record", "commit"}
               /\ Inserts(t)
               /\ ToRow(dto[t]) = ToRow(dto[s]))'
      <4>1. SUFFICES ASSUME NEW t \in Requests \ {s}, pc'[t] \in {"record", "commit"},
                            Inserts(t)', ToRow(dto[t])' = ToRow(dto[s])'
                     PROVE  FALSE
        OBVIOUS
      <4>2. t # r
        BY <1>3, <4>1
      <4>3. pc'[t] = pc[t] /\ dto'[t] = dto[t] /\ seen'[t] = seen[t]
        BY <1>3, <4>2
      <4> QED BY <1>3, <3>2, <4>1, <4>3 DEF Inserts, ToRow
    <3> QED BY <1>3, <3>4, <3>5 DEF InsertOK, ToRow
  <2> QED BY <2>2, <2>3, <2>4, <2>5 DEF RequestInv
<1>7. RequestInv(r)'
  <2>1. RequestOK(r)'
    BY <1>3 DEF IInv, RequestOK, InTransaction
  <2> QED BY <1>3, <2>1 DEF RequestInv, LocksOK, KeyOK, InsertOK, Writing
<1>8. AtMostOncePerKey'
  <2>1. \A e \in ledger : ~ SameKey(dto[r], e)
    BY DEF IInv, KeyOK, Posted
  <2> QED BY <1>1, <1>2, <2>1 DEF IInv, AtMostOncePerKey, SameKey
<1>9. NoOverdraft'
  BY <1>1, LemmaWritten DEF NoOverdraft
<1> QED BY <1>4, <1>6, <1>7, <1>8, <1>9 DEF IInv, RequestInv

-----------------------------------------------------------------------------
(* Registration and crashes.                                               *)

(* A wallet is created for a user who has no row, so under no one's lock    *)
(* and beside no pending insert: those need the user's source row.         *)
LEMMA LemmaCreateWallet ==
    ASSUME IInv, NEW u \in Users, CreateWallet(u)
    PROVE  IInv'
<1>1. /\ pc' = pc /\ dto' = dto /\ rate' = rate /\ seen' = seen
      /\ held' = held /\ reply' = reply /\ ledger' = ledger
  BY DEF CreateWallet
<1>2. balance' \in [Rows -> Int \cup {None}]
  BY DEF CreateWallet, IInv, TypeOK
<1>3. \A row \in Rows : balance[row] # None => balance'[row] = balance[row]
  <2>1. \A row \in Rows : row[1] = u => balance[row] = None
    BY DEF CreateWallet, HasWallet, Rows
  <2> QED BY <2>1 DEF CreateWallet
<1>4. TypeOK'
  BY <1>1, <1>2 DEF IInv, TypeOK
<1>5. ASSUME NEW r \in Requests
      PROVE  RequestInv(r)'
  <2>1. RequestOK(r)'
    BY <1>1 DEF IInv, RequestOK
  <2>2. KeyOK(r)'
    BY <1>1 DEF IInv, KeyOK, Posted, SameKey
  <2>3. \A row \in held[r] : balance'[row] = balance[row]
    BY <1>3 DEF IInv, TypeOK, LocksOK
  <2>4. LocksOK(r)'
    BY <1>1, <2>3 DEF IInv, LocksOK, Inserts, ToRow, FromRow, Covers, FirstCurrency
  <2>5. InsertOK(r)'
    <3>1. SUFFICES ASSUME pc[r] \in {"record", "commit"}, Inserts(r)
                   PROVE  balance'[ToRow(dto[r])] = None
      BY <1>1 DEF IInv, InsertOK, Inserts, ToRow
    <3>2. balance[ToRow(dto[r])] = None
      BY <3>1 DEF IInv, InsertOK
    <3>3. FromRow(dto[r]) \in held[r] /\ balance[FromRow(dto[r])] # None
      BY <3>1 DEF IInv, LocksOK, Writing, Inserts
    <3>4. /\ dto[r].from \in Currencies /\ dto[r].to \in Currencies
          /\ dto[r].user \in Users
      <4>1. dto[r] \in Offers /\ dto[r].kind # "funding"
        BY <3>1 DEF IInv, RequestOK, Inserts
      <4> QED BY <4>1, OfferType
    <3>5. dto[r].user # u
      BY <3>3, <3>4 DEF CreateWallet, HasWallet, FromRow
    <3> QED BY <3>2, <3>4, <3>5 DEF CreateWallet, ToRow, Rows
  <2> QED BY <2>1, <2>2, <2>4, <2>5 DEF RequestInv
<1>6. AtMostOncePerKey'
  BY <1>1 DEF IInv, AtMostOncePerKey
<1>7. NoOverdraft'
  BY NoneIsNoValue DEF IInv, TypeOK, NoOverdraft, CreateWallet
<1> QED BY <1>4, <1>5, <1>6, <1>7 DEF IInv, RequestInv

(* A crash forgets what its requests held, and takes nothing from others.  *)
LEMMA LemmaCrash ==
    ASSUME IInv, NEW S \in SUBSET Requests, Crash(S)
    PROVE  IInv'
<1>1. balance' = balance /\ ledger' = ledger /\ dto' = dto /\ reply' = reply
  BY DEF Crash
<1>2. ASSUME NEW s \in Requests
      PROVE  /\ s \in S => pc'[s] = "lost" /\ held'[s] = {} /\ pc[s] # "idle"
             /\ s \notin S => /\ pc'[s] = pc[s] /\ rate'[s] = rate[s]
                             /\ seen'[s] = seen[s] /\ held'[s] = held[s]
  BY DEF Crash
<1>3. TypeOK'
  BY DEF Crash, IInv, TypeOK, Blank, Ended
<1>4. ASSUME NEW s \in Requests
      PROVE  RequestInv(s)'
  <2>1. CASE s \in S
    <3>1. RequestOK(s)'
      BY <1>1, <1>2, <2>1 DEF IInv, RequestOK, InTransaction
    <3> QED
      BY <1>2, <2>1, <3>1 DEF RequestInv, LocksOK, KeyOK, InsertOK, Writing
  <2>2. CASE s \notin S
    <3>1. RequestOK(s)'
      BY <1>1, <1>2, <2>2 DEF IInv, RequestOK
    <3>2. KeyOK(s)'
      BY <1>1, <1>2, <2>2 DEF IInv, KeyOK, Posted, SameKey
    <3>3. LocksOK(s)'
      <4>1. ASSUME NEW row \in held[s], NEW t \in Requests \ {s}
            PROVE  row \notin held'[t]
        BY <1>2 DEF IInv, LocksOK
      <4> QED
        BY <1>1, <1>2, <2>2, <4>1 DEF IInv, LocksOK, Inserts, ToRow, FromRow, Covers, FirstCurrency
    <3>4. InsertOK(s)'
      <4>1. SUFFICES ASSUME pc[s] \in {"record", "commit"}, Inserts(s),
                            NEW t \in Requests \ {s}, pc'[t] \in {"record", "commit"},
                            Inserts(t)', ToRow(dto[t])' = ToRow(dto[s])'
                     PROVE  FALSE
        BY <1>1, <1>2, <2>2 DEF IInv, InsertOK, Inserts, ToRow
      <4>2. t \notin S
        BY <1>2, <4>1
      <4>3. pc'[t] = pc[t] /\ seen'[t] = seen[t]
        BY <1>2, <4>2
      <4>4. InsertOK(s)
        BY DEF IInv
      <4> QED BY <1>1, <4>1, <4>3, <4>4 DEF InsertOK, Inserts, ToRow
    <3> QED BY <3>1, <3>2, <3>3, <3>4 DEF RequestInv
  <2> QED BY <2>1, <2>2
<1>5. AtMostOncePerKey' /\ NoOverdraft'
  BY <1>1 DEF IInv, AtMostOncePerKey, NoOverdraft
<1> QED BY <1>3, <1>4, <1>5 DEF IInv, RequestInv

-----------------------------------------------------------------------------
(* The inductive invariant.                                                *)

LEMMA LemmaInit == Init => IInv
<1> SUFFICES ASSUME Init PROVE IInv
  OBVIOUS
<1>1. TypeOK
  BY ConstantsOK DEF Init, TypeOK, Blank, NoReply
<1>2. ASSUME NEW r \in Requests
      PROVE  RequestOK(r) /\ LocksOK(r) /\ KeyOK(r) /\ InsertOK(r)
  BY DEF Init, RequestOK, LocksOK, KeyOK, InsertOK, InTransaction, Writing
<1>3. AtMostOncePerKey
  BY DEF Init, AtMostOncePerKey
<1>4. NoOverdraft
  BY ConstantsOK DEF Init, NoOverdraft
<1> QED BY <1>1, <1>2, <1>3, <1>4 DEF IInv

(* Every step a handler takes by itself preserves the invariant. *)
LEMMA LemmaStep ==
    ASSUME IInv, NEW r \in Requests, Step(r)
    PROVE  IInv'
<1>1. CASE GuardTrade(r)
  BY <1>1, LemmaGuardTrade
<1>2. CASE RefuseSameCurrency(r)
  BY <1>2, LemmaAnswer DEF RefuseSameCurrency, Fail, Codes
<1>3. CASE CheckIdempotency(r)
  BY <1>3, LemmaCheckIdempotency
<1>4. CASE FetchRate(r)
  BY <1>4, LemmaFetchRate
<1>5. CASE RateUnavailable(r)
  BY <1>5, LemmaAnswer DEF RateUnavailable, Fail, Codes
<1>6. CASE FindWallet(r)
  BY <1>6, LemmaFindWallet
<1>7. CASE LockFundedRow(r)
  BY <1>7, LemmaLockFundedRow
<1>8. CASE LockFirstRow(r)
  BY <1>8, LemmaLockFirstRow
<1>9. CASE LockSecondRow(r)
  BY <1>9, LemmaLockSecondRow
<1>10. CASE Save(r)
  BY <1>10, LemmaSave
<1>11. CASE RecordTransaction(r)
  BY <1>11, LemmaRecordTransaction
<1>12. CASE Commit(r)
  <2>1. reply' \in [Requests -> [code: Codes \cup {None}, tx: Requests \cup {None}]]
    BY <1>12 DEF Commit, IInv, TypeOK
  <2> QED BY <1>12, <2>1, LemmaCommit DEF Commit
<1>13. CASE CommitAckLost(r)
  <2>1. reply' \in [Requests -> [code: Codes \cup {None}, tx: Requests \cup {None}]]
    BY <1>13 DEF CommitAckLost, Answer, IInv, TypeOK, Codes
  <2> QED BY <1>13, <2>1, LemmaCommit DEF CommitAckLost, Answer
<1>14. CASE Respond(r)
  BY <1>14, LemmaAnswer DEF Respond, Codes
<1> QED
  BY <1>1, <1>2, <1>3, <1>4, <1>5, <1>6, <1>7, <1>8, <1>9, <1>10, <1>11, <1>12, <1>13, <1>14
     DEF Step

LEMMA LemmaNext == IInv /\ [Next]_vars => IInv'
<1> SUFFICES ASSUME IInv, [Next]_vars PROVE IInv'
  OBVIOUS
<1>1. CASE \E u \in Users : CreateWallet(u)
  BY <1>1, LemmaCreateWallet
<1>2. CASE \E r \in Requests : \E d \in Offers : Submit(r, d)
  BY <1>2, LemmaSubmit
<1>3. CASE \E r \in Requests : Step(r)
  BY <1>3, LemmaStep
<1>4. CASE \E r \in Requests : Abort(r)
  BY <1>4, LemmaAnswer DEF Abort, Fail, Codes, InTransaction
<1>5. CASE \E S \in SUBSET Requests : Crash(S)
  BY <1>5, LemmaCrash
<1>6. CASE UNCHANGED vars
  <2>1. /\ balance' = balance /\ ledger' = ledger /\ pc' = pc /\ dto' = dto
        /\ rate' = rate /\ seen' = seen /\ held' = held /\ reply' = reply
    BY <1>6 DEF vars
  <2>2. TypeOK' /\ AtMostOncePerKey' /\ NoOverdraft'
    BY <2>1 DEF IInv, TypeOK, AtMostOncePerKey, NoOverdraft
  <2>3. ASSUME NEW r \in Requests
        PROVE  RequestOK(r)' /\ LocksOK(r)' /\ KeyOK(r)' /\ InsertOK(r)'
    BY <2>1 DEF IInv, RequestOK, LocksOK, KeyOK, InsertOK, Posted, SameKey, Inserts,
                ToRow, FromRow, Covers, FirstCurrency
  <2> QED BY <2>2, <2>3 DEF IInv
<1> QED BY <1>1, <1>2, <1>3, <1>4, <1>5, <1>6 DEF Next, Terminating

(* The inductive invariant holds of every behaviour. *)
THEOREM Inductive == Spec => []IInv
BY LemmaInit, LemmaNext, PTL DEF Spec

-----------------------------------------------------------------------------
(* What it gives.                                                          *)

(* The variables keep their types, in every behaviour of every instance.   *)
THEOREM TypeCorrect == Spec => []TypeOK
<1>1. IInv => TypeOK
  BY DEF IInv
<1> QED BY <1>1, Inductive, PTL

(* A user's idempotency key is posted at most once, however many copies of  *)
(* a request race, fail, crash and come again.                             *)
THEOREM AtMostOnce == Spec => []AtMostOncePerKey
<1>1. IInv => AtMostOncePerKey
  BY DEF IInv
<1> QED BY <1>1, Inductive, PTL

(* No balance row is ever negative. *)
THEOREM Solvent == Spec => []NoOverdraft
<1>1. IInv => NoOverdraft
  BY DEF IInv
<1> QED BY <1>1, Inductive, PTL

(* No lost update: an absolute amount is only ever written over the value   *)
(* it was computed from.                                                   *)
THEOREM NoLostUpdate == Spec => []WritesReplaceWhatWasRead
<1>1. ASSUME IInv
      PROVE  WritesReplaceWhatWasRead
  <2>1. SUFFICES ASSUME NEW r \in Requests, pc[r] \in {"record", "commit"},
                        NEW row \in Rows \cap {FromRow(dto[r]), ToRow(dto[r])}
                 PROVE  seen[r][row[2]] = balance[row]
    BY DEF WritesReplaceWhatWasRead
  <2>2. CASE row \in held[r]
    BY <1>1, <2>2 DEF IInv, LocksOK
  <2>3. CASE row = ToRow(dto[r]) /\ Inserts(r)
    BY <1>1, <2>1, <2>3 DEF IInv, InsertOK, Inserts, ToRow
  <2>4. CASE row = FromRow(dto[r]) /\ dto[r].kind = "funding"
    <3>1. dto[r] \in Offers
      BY <1>1, <2>1 DEF IInv, RequestOK
    <3>2. row[2] = None
      BY <2>4, <3>1, OfferType DEF FromRow
    <3> QED BY <2>1, <3>2, NoneIsNoValue DEF Rows
  <2>5. row \in held[r] \/ (row = ToRow(dto[r]) /\ Inserts(r))
          \/ (row = FromRow(dto[r]) /\ dto[r].kind = "funding")
    <3>1. row = FromRow(dto[r]) \/ row = ToRow(dto[r])
      BY <2>1
    <3>2. /\ dto[r].kind = "funding" \/ ~ Inserts(r) => ToRow(dto[r]) \in held[r]
          /\ dto[r].kind # "funding" => FromRow(dto[r]) \in held[r]
      BY <1>1, <2>1 DEF IInv, LocksOK, Writing
    <3> QED BY <3>1, <3>2
  <2> QED BY <2>2, <2>3, <2>4, <2>5
<1> QED BY <1>1, Inductive, PTL

(* Two transactions never insert the same balance row. *)
THEOREM UniqueInserts == Spec => []PendingInsertsAreUnique
<1>1. IInv => PendingInsertsAreUnique
  BY DEF IInv, InsertOK, PendingInsertsAreUnique
<1> QED BY <1>1, Inductive, PTL
=============================================================================
