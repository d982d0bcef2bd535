---------------------- MODULE WalletsRefinementProofs ----------------------
(***************************************************************************)
(* More proofs about WalletsService: its answers are true, its             *)
(* transactions cannot deadlock, and it implements AtomicLedger.           *)
(*                                                                         *)
(* They need more of a request than IInv of WalletsServiceProofs says: the  *)
(* rate it executes at, the amounts it has been checked for, the one lock   *)
(* it holds while it waits for the other, and its record in the ledger.    *)
(* PathOK says that, and is inductive together with IInv.                  *)
(***************************************************************************)
EXTENDS WalletsServiceProofs, FiniteSetTheorems

(* The rate is one that getRate answered; funding has none. *)
RateOK(r) ==
    /\ pc[r] \in {"idle", "guard", "check"} \/ dto[r].kind = "funding" =>
         rate[r] = None
    /\ pc[r] \in {"wallet"} \cup InTransaction /\ dto[r].kind # "funding" =>
         rate[r] \in Quotes

(* What is about to be committed fits its column. *)
LimitOK(r) == pc[r] \in {"record", "commit"} => NewTo(r) <= MaxAmount

(* While it waits for its second row, a conversion holds the first at most. *)
OrderOK(r) ==
    pc[r] = "lock2" => held[r] \subseteq {<<dto[r].user, FirstCurrency(dto[r])>>}

(* The record of r is there if, and only if, r committed. *)
EntryOK(r) ==
    /\ \A e \in ledger : e.id = r =>
         pc[r] \in {"respond"} \cup Ended /\ SameKey(e, dto[r])
    /\ pc[r] = "respond" => \E e \in ledger : e.id = r

(* RepliesAreTrue of one request. *)
ReplyOK(r) ==
    pc[r] = "done" =>
        IF reply[r].code = "OK"
        THEN \E e \in ledger : e.id = reply[r].tx /\ SameKey(e, dto[r])
        ELSE reply[r].code # "InternalError" => \A e \in ledger : e.id # r

PathOK(r) == RateOK(r) /\ LimitOK(r) /\ OrderOK(r) /\ EntryOK(r) /\ ReplyOK(r)

Paths == \A r \in Requests : PathOK(r)

-----------------------------------------------------------------------------
(* Steps and what they leave alone.                                        *)

(* Request s stays where it is. *)
Still(s) ==
    /\ pc'[s] = pc[s] /\ dto'[s] = dto[s] /\ rate'[s] = rate[s]
    /\ seen'[s] = seen[s] /\ held'[s] = held[s] /\ reply'[s] = reply[s]

LEMMA LemmaStill ==
    ASSUME NEW s \in Requests, PathOK(s), Still(s), ledger \subseteq ledger',
           \A e \in ledger' : e.id = s => e \in ledger
    PROVE  PathOK(s)'
<1> USE DEF Still
<1>1. RateOK(s)' /\ OrderOK(s)'
  BY DEF PathOK, RateOK, OrderOK, FirstCurrency
<1>2. LimitOK(s)'
  BY DEF PathOK, LimitOK, NewTo
<1>3. EntryOK(s)'
  BY DEF PathOK, EntryOK, SameKey
<1>4. ReplyOK(s)'
  BY DEF PathOK, ReplyOK, SameKey
<1> QED BY <1>1, <1>2, <1>3, <1>4 DEF PathOK

(* Only r moves, and the ledger stays as it is. *)
LEMMA LemmaAlone ==
    ASSUME Paths, NEW r \in Requests, \A s \in Requests \ {r} : Still(s),
           ledger' = ledger, PathOK(r)'
    PROVE  Paths'
BY LemmaStill DEF Paths

(* A request that has not committed is refused. *)
LEMMA LemmaRefused ==
    ASSUME TypeOK, Paths, NEW r \in Requests,
           pc[r] \notin {"respond"} \cup Ended,
           NEW status \in Codes \ {"OK"}, Fail(r, status)
    PROVE  Paths'
<1> USE DEF Fail, Answer, Goto, Forget
<1>1. /\ pc'[r] = "done" /\ rate'[r] = None /\ dto'[r] = dto[r]
      /\ reply'[r].code = status /\ ledger' = ledger
  BY DEF TypeOK, tables
<1>2. \A s \in Requests \ {r} : Still(s)
  BY DEF TypeOK, Still
<1>3. \A e \in ledger : e.id # r
  BY DEF Paths, PathOK, EntryOK
<1>4. PathOK(r)'
  BY <1>1, <1>3 DEF PathOK, RateOK, LimitOK, OrderOK, EntryOK, ReplyOK, InTransaction
<1> QED BY <1>1, <1>2, <1>4, LemmaAlone

(* A request that has not committed goes on. *)
LEMMA LemmaGoesOn ==
    ASSUME TypeOK, Paths, NEW r \in Requests,
           pc[r] \notin {"respond"} \cup Ended,
           NEW label \in Outside \cup InTransaction, Goto(r, label),
           ledger' = ledger, reply' = reply,
           \A s \in Requests \ {r} :
             /\ dto'[s] = dto[s] /\ rate'[s] = rate[s]
             /\ seen'[s] = seen[s] /\ held'[s] = held[s],
           RateOK(r)', LimitOK(r)', OrderOK(r)'
    PROVE  Paths'
<1>1. pc'[r] = label /\ \A s \in Requests \ {r} : Still(s)
  BY DEF TypeOK, Goto, Still
<1>2. \A e \in ledger : e.id # r
  BY DEF Paths, PathOK, EntryOK
<1>3. EntryOK(r)' /\ ReplyOK(r)'
  BY <1>1, <1>2 DEF EntryOK, ReplyOK, Outside, InTransaction
<1> QED BY <1>1, <1>3, LemmaAlone DEF PathOK

-----------------------------------------------------------------------------
(* The steps.                                                              *)

LEMMA PathMove ==
    ASSUME TypeOK, Paths, NEW r \in Requests,
           NEW label \in Outside \cup InTransaction, Goto(r, label),
           pc[r] \notin {"respond"} \cup Ended,
           UNCHANGED <<balance, ledger, dto, rate, seen, held, reply>>,
           RateOK(r)', LimitOK(r)', OrderOK(r)'
    PROVE  Paths'
BY LemmaGoesOn

LEMMA PathSubmit ==
    ASSUME IInv, Paths, NEW r \in Requests, NEW d \in Offers, Submit(r, d)
    PROVE  Paths'
<1> USE DEF Submit
<1>1. pc[r] = "idle" /\ rate[r] = None
  BY DEF Paths, PathOK, RateOK
<1>2. PICK label \in {"guard", "check"} : Goto(r, label)
  OBVIOUS
<1>3. pc'[r] = label
  BY <1>2 DEF IInv, TypeOK, Goto
<1>4. RateOK(r)' /\ LimitOK(r)' /\ OrderOK(r)'
  BY <1>1, <1>3 DEF RateOK, LimitOK, OrderOK, InTransaction
<1>5. \A s \in Requests \ {r} : dto'[s] = dto[s]
  BY DEF IInv, TypeOK
<1> QED
  BY <1>1, <1>2, <1>4, <1>5, LemmaGoesOn DEF IInv, Outside, Ended

LEMMA PathGuardTrade ==
    ASSUME IInv, Paths, NEW r \in Requests, GuardTrade(r)
    PROVE  Paths'
<1> USE DEF GuardTrade, IInv
<1>1. CASE Fail(r, "BadRequest")
  BY <1>1, LemmaRefused DEF Codes, Ended
<1>2. CASE /\ Goto(r, "check")
           /\ UNCHANGED <<balance, ledger, dto, rate, seen, held, reply>>
  <2>1. pc[r] = "guard" /\ pc'[r] = "check" /\ rate[r] = None
    BY <1>2 DEF TypeOK, Goto, Paths, PathOK, RateOK
  <2>2. RateOK(r)' /\ LimitOK(r)' /\ OrderOK(r)'
    BY <1>2, <2>1 DEF RateOK, LimitOK, OrderOK, InTransaction
  <2> QED BY <1>2, <2>2, PathMove DEF Outside, Ended
<1> QED BY <1>1, <1>2

LEMMA PathCheckIdempotency ==
    ASSUME IInv, Paths, NEW r \in Requests, CheckIdempotency(r)
    PROVE  Paths'
<1> USE DEF IInv
<1>1. pc[r] = "check" /\ rate[r] = None
  BY DEF CheckIdempotency, Paths, PathOK, RateOK
<1>2. CASE \E e \in Posted(dto[r]) : Answer(r, "OK", e.id) /\ UNCHANGED tables
  <2>1. PICK e \in Posted(dto[r]) : Answer(r, "OK", e.id) /\ UNCHANGED tables
    BY <1>2
  <2>2. e \in ledger /\ SameKey(e, dto[r])
    BY DEF Posted, SameKey
  <2>3. /\ pc'[r] = "done" /\ rate'[r] = None /\ dto'[r] = dto[r]
        /\ reply'[r].code = "OK" /\ reply'[r].tx = e.id /\ ledger' = ledger
        /\ \A s \in Requests \ {r} : Still(s)
    BY <2>1 DEF TypeOK, tables, Answer, Goto, Forget, Still
  <2>4. \A f \in ledger : f.id # r
    BY <1>1 DEF Paths, PathOK, EntryOK, Ended
  <2>5. PathOK(r)'
    BY <2>2, <2>3, <2>4 DEF PathOK, RateOK, LimitOK, OrderOK, EntryOK, ReplyOK,
       InTransaction, SameKey
  <2> QED BY <2>3, <2>5, LemmaAlone
<1>3. CASE Fail(r, "BadRequest")
  BY <1>1, <1>3, LemmaRefused DEF Codes, Ended
<1>4. CASE /\ Goto(r, IF dto[r].kind = "funding" THEN "wallet" ELSE "rate")
           /\ UNCHANGED <<balance, ledger, dto, rate, seen, held, reply>>
  <2>1. PICK label \in {"wallet", "rate"} :
          /\ Goto(r, label)
          /\ label = "wallet" => dto[r].kind = "funding"
    BY <1>4
  <2>2. pc'[r] = label
    BY <2>1 DEF TypeOK, Goto
  <2>3. RateOK(r)' /\ LimitOK(r)' /\ OrderOK(r)'
    BY <1>1, <1>4, <2>1, <2>2 DEF RateOK, LimitOK, OrderOK, InTransaction
  <2> QED BY <1>1, <1>4, <2>1, <2>3, PathMove DEF Outside, Ended
<1> QED BY <1>2, <1>3, <1>4 DEF CheckIdempotency

LEMMA PathFetchRate ==
    ASSUME IInv, Paths, NEW r \in Requests, FetchRate(r)
    PROVE  Paths'
<1> USE DEF FetchRate, IInv
<1>1. dto[r].from # dto[r].to /\ dto[r].kind # "funding"
  BY DEF RequestOK
<1>2. rate'[r] \in Quotes
  BY <1>1 DEF TypeOK, QuotesFor
<1>3. pc'[r] = "wallet" /\ \A s \in Requests \ {r} : rate'[s] = rate[s]
  BY DEF TypeOK, Goto
<1>4. RateOK(r)' /\ LimitOK(r)' /\ OrderOK(r)'
  BY <1>1, <1>2, <1>3 DEF RateOK, LimitOK, OrderOK, InTransaction
<1> QED BY <1>3, <1>4, LemmaGoesOn DEF Outside, Ended

LEMMA PathFindWallet ==
    ASSUME IInv, Paths, NEW r \in Requests, FindWallet(r)
    PROVE  Paths'
<1> USE DEF FindWallet, IInv
<1>1. CASE Fail(r, "NotFound")
  BY <1>1, LemmaRefused DEF Codes, Ended
<1>2. CASE /\ Goto(r, "lock1")
           /\ UNCHANGED <<balance, ledger, dto, rate, seen, held, reply>>
  <2>1. pc[r] = "wallet" /\ pc'[r] = "lock1"
    BY <1>2 DEF TypeOK, Goto
  <2>2. RateOK(r)' /\ LimitOK(r)' /\ OrderOK(r)'
    BY <1>2, <2>1 DEF Paths, PathOK, RateOK, LimitOK, OrderOK, InTransaction
  <2> QED BY <1>2, <2>2, PathMove DEF InTransaction, Ended
<1> QED BY <1>1, <1>2

(* A row is read FOR UPDATE, and its lock is the first of a conversion's    *)
(* two or the last it asks for.                                            *)
LEMMA PathRead ==
    ASSUME IInv, Paths, NEW r \in Requests, pc[r] \in {"lock1", "lock2"},
           NEW label \in {"lock2", "save"}, Goto(r, label),
           label = "lock2" => pc[r] = "lock1" /\ dto[r].kind # "funding",
           ReadForUpdate(r, WantedRow(r)),
           UNCHANGED <<balance, ledger, dto, rate, reply>>
    PROVE  Paths'
<1> USE DEF IInv
<1>1. pc'[r] = label
  BY DEF TypeOK, Goto
<1>2. RateOK(r)' /\ LimitOK(r)'
  BY <1>1 DEF Paths, PathOK, RateOK, LimitOK, InTransaction
<1>3. OrderOK(r)'
  <2>1. SUFFICES ASSUME label = "lock2"
                 PROVE  held'[r] \subseteq {WantedRow(r)}
    BY <1>1 DEF OrderOK, WantedRow, FirstCurrency
  <2>2. held[r] = {}
    BY <2>1 DEF LocksOK, Writing
  <2> QED BY <2>2 DEF ReadForUpdate, TypeOK
<1>4. \A s \in Requests \ {r} :
        dto'[s] = dto[s] /\ rate'[s] = rate[s]
          /\ seen'[s] = seen[s] /\ held'[s] = held[s]
  BY DEF ReadForUpdate, TypeOK
<1> QED BY <1>2, <1>3, <1>4, LemmaGoesOn DEF InTransaction, Ended

LEMMA PathLocks ==
    ASSUME IInv, Paths, NEW r \in Requests,
           LockFundedRow(r) \/ LockFirstRow(r) \/ LockSecondRow(r)
    PROVE  Paths'
<1>1. pc[r] \notin {"respond"} \cup Ended
  BY DEF LockFundedRow, LockFirstRow, LockSecondRow, Ended
<1>2. CASE \E status \in {"NotFound", "BadRequest"} : Fail(r, status)
  BY <1>1, <1>2, LemmaRefused DEF IInv, Codes
<1>3. CASE \E label \in {"lock2", "save"} :
             /\ Goto(r, label)
             /\ pc[r] \in {"lock1", "lock2"}
             /\ label = "lock2" => pc[r] = "lock1" /\ dto[r].kind # "funding"
             /\ ReadForUpdate(r, WantedRow(r))
             /\ UNCHANGED <<balance, ledger, dto, rate, reply>>
  BY <1>3, PathRead
<1> QED
  BY <1>2, <1>3 DEF LockFundedRow, LockFirstRow, LockSecondRow

LEMMA PathSave ==
    ASSUME IInv, Paths, NEW r \in Requests, Save(r)
    PROVE  Paths'
<1> USE DEF Save, IInv
<1>1. CASE \E status \in {"BadRequest", "Conflict"} : Fail(r, status)
  BY <1>1, LemmaRefused DEF Codes, Ended
<1>2. CASE /\ NewTo(r) <= MaxAmount
           /\ Goto(r, "record")
           /\ UNCHANGED <<balance, ledger, dto, rate, seen, held, reply>>
  <2>1. pc[r] = "save" /\ pc'[r] = "record"
    BY <1>2 DEF TypeOK, Goto
  <2>2. NewTo(r)' = NewTo(r)
    BY <1>2 DEF NewTo
  <2>3. RateOK(r)' /\ LimitOK(r)' /\ OrderOK(r)'
    BY <1>2, <2>1, <2>2 DEF Paths, PathOK, RateOK, LimitOK, OrderOK, InTransaction
  <2> QED BY <1>2, <2>3, PathMove DEF InTransaction, Ended
<1> QED BY <1>1, <1>2

LEMMA PathRecordTransaction ==
    ASSUME IInv, Paths, NEW r \in Requests, RecordTransaction(r)
    PROVE  Paths'
<1> USE DEF RecordTransaction, IInv
<1>1. CASE Fail(r, "Conflict")
  BY <1>1, LemmaRefused DEF Codes, Ended
<1>2. CASE /\ Goto(r, "commit")
           /\ UNCHANGED <<balance, ledger, dto, rate, seen, held, reply>>
  <2>1. pc[r] = "record" /\ pc'[r] = "commit"
    BY <1>2 DEF TypeOK, Goto
  <2>2. NewTo(r)' = NewTo(r)
    BY <1>2 DEF NewTo
  <2>3. RateOK(r)' /\ LimitOK(r)' /\ OrderOK(r)'
    BY <1>2, <2>1, <2>2 DEF Paths, PathOK, RateOK, LimitOK, OrderOK, InTransaction
  <2> QED BY <1>2, <2>3, PathMove DEF InTransaction, Ended
<1> QED BY <1>1, <1>2

(* The record of r appears; no other request's does. *)
LEMMA PathCommit ==
    ASSUME IInv, Paths, NEW r \in Requests, Commit(r) \/ CommitAckLost(r)
    PROVE  Paths'
<1> USE DEF Commit, CommitAckLost, Answer, Goto, Forget, IInv
<1>1. /\ pc'[r] \in {"respond", "done"} /\ rate'[r] = None /\ dto'[r] = dto[r]
      /\ pc'[r] = "done" => reply'[r].code = "InternalError"
      /\ ledger' = ledger \cup {Posting(r, dto[r], rate[r])}
      /\ \A s \in Requests \ {r} : Still(s)
  BY DEF TypeOK, Apply, Still
<1>2. /\ Posting(r, dto[r], rate[r]).id = r
      /\ SameKey(Posting(r, dto[r], rate[r]), dto[r])
  BY DEF Posting, SameKey
<1>3. \A e \in ledger : e.id # r
  BY DEF Paths, PathOK, EntryOK, Ended
<1>4. PathOK(r)'
  BY <1>1, <1>2, <1>3 DEF PathOK, RateOK, LimitOK, OrderOK, EntryOK, ReplyOK,
     InTransaction, Ended, SameKey
<1> QED BY <1>1, <1>2, <1>4, LemmaStill DEF Paths

LEMMA PathRespond ==
    ASSUME IInv, Paths, NEW r \in Requests, Respond(r)
    PROVE  Paths'
<1> USE DEF Respond, Answer, Goto, Forget, IInv
<1>1. /\ pc[r] = "respond"
      /\ pc'[r] = "done" /\ rate'[r] = None /\ dto'[r] = dto[r]
      /\ reply'[r].code = "OK" /\ reply'[r].tx = r /\ ledger' = ledger
      /\ \A s \in Requests \ {r} : Still(s)
  BY DEF TypeOK, tables, Still
<1>2. /\ \E e \in ledger : e.id = r
      /\ \A e \in ledger : e.id = r => SameKey(e, dto[r])
  BY <1>1 DEF Paths, PathOK, EntryOK
<1>3. PathOK(r)'
  BY <1>1, <1>2 DEF PathOK, RateOK, LimitOK, OrderOK, EntryOK, ReplyOK,
     InTransaction, Ended, SameKey
<1> QED BY <1>1, <1>3, LemmaAlone

LEMMA PathCrash ==
    ASSUME IInv, Paths, NEW S \in SUBSET Requests, Crash(S)
    PROVE  Paths'
<1> USE DEF Crash
<1>1. ASSUME NEW s \in S PROVE PathOK(s)'
  <2>1. pc'[s] = "lost" /\ rate'[s] = None /\ dto'[s] = dto[s] /\ ledger' = ledger
    OBVIOUS
  <2>2. \A e \in ledger : e.id = s => SameKey(e, dto[s])
    BY DEF Paths, PathOK, EntryOK
  <2> QED
    BY <2>1, <2>2 DEF PathOK, RateOK, LimitOK, OrderOK, EntryOK, ReplyOK,
       InTransaction, Ended, SameKey
<1>2. ASSUME NEW s \in Requests \ S PROVE PathOK(s)'
  BY LemmaStill DEF Paths, Still
<1> QED BY <1>1, <1>2 DEF Paths

LEMMA PathInit == Init => Paths
BY DEF Init, Paths, PathOK, RateOK, LimitOK, OrderOK, EntryOK, ReplyOK, InTransaction

LEMMA PathNext == IInv /\ Paths /\ [Next]_vars => Paths'
<1> SUFFICES ASSUME IInv, Paths, [Next]_vars PROVE Paths'
  OBVIOUS
<1>1. ASSUME NEW u \in Users, CreateWallet(u) PROVE Paths'
  BY <1>1, LemmaStill DEF CreateWallet, Paths, Still
<1>2. ASSUME NEW r \in Requests, NEW d \in Offers, Submit(r, d) PROVE Paths'
  BY <1>2, PathSubmit
<1>3. ASSUME NEW r \in Requests,
             RefuseSameCurrency(r) \/ RateUnavailable(r) \/ Abort(r)
      PROVE  Paths'
  <2>1. PICK status \in Codes \ {"OK"} : Fail(r, status)
    BY <1>3 DEF RefuseSameCurrency, RateUnavailable, Abort, Codes
  <2>2. pc[r] \notin {"respond"} \cup Ended
    BY <1>3 DEF RefuseSameCurrency, RateUnavailable, Abort, InTransaction, Ended
  <2> QED BY <2>1, <2>2, LemmaRefused DEF IInv
<1>4. ASSUME NEW r \in Requests, Step(r) PROVE Paths'
  BY <1>3, <1>4, PathGuardTrade, PathCheckIdempotency, PathFetchRate,
     PathFindWallet, PathLocks, PathSave, PathRecordTransaction, PathCommit,
     PathRespond DEF Step
<1>5. ASSUME NEW S \in SUBSET Requests, Crash(S) PROVE Paths'
  BY <1>5, PathCrash
<1>6. CASE UNCHANGED vars
  BY <1>6, LemmaStill DEF vars, Paths, Still
<1> QED
  BY <1>1, <1>2, <1>3, <1>4, <1>5, <1>6 DEF Next, Terminating

LEMMA PathsHold == Spec => [](IInv /\ Paths)
BY PathInit, PathNext, LemmaInit, LemmaNext, PTL DEF Spec

(* An answer tells the truth: success names a committed transaction of the  *)
(* same user and key, and a refusal but a 500 left nothing in the ledger.  *)
THEOREM TrueReplies == Spec => []RepliesAreTrue
<1>1. Paths => RepliesAreTrue
  BY DEF Paths, PathOK, ReplyOK, RepliesAreTrue
<1> QED BY <1>1, PathsHold, PTL

-----------------------------------------------------------------------------
(* Transactions do not deadlock.                                           *)

(* There are finitely many currency codes, so one of any is the last.      *)
LEMMA LastCurrency ==
    ASSUME NEW C \in SUBSET Currencies, C # {}
    PROVE  \E c \in C : \A d \in C : Rank[d] <= Rank[c]
<1> DEFINE after(c) == {d \in C : Rank[d] > Rank[c]}
           R == StrictSubsetOrdering(C)
           T == {after(c) : c \in C}
<1>1. IsFiniteSet(C) /\ Rank \in [Currencies -> Nat]
  BY ConstantsOK, FS_Subset
<1>2. IsWellFoundedOn(R, FiniteSubsetsOf(C))
  BY FS_StrictSubsetOrderingWellFounded
<1>3. T \subseteq FiniteSubsetsOf(C) /\ T # {}
  <2>1. FiniteSubsetsOf(C) = SUBSET C
    BY <1>1, FS_FiniteSubsetsOfFinite
  <2>2. \A c \in C : after(c) \in SUBSET C
    OBVIOUS
  <2>3. T \subseteq SUBSET C /\ T # {}
    <3> HIDE DEF after
    <3> QED BY <2>2
  <2> QED BY <2>1, <2>3
<1>4. \E X \in T : \A Y \in T : ~ (<<Y, X>> \in R)
  <2> HIDE DEF R, T
  <2> QED BY <1>2, <1>3, WFMin
<1>5. PICK c \in C : \A Y \in T : ~ (<<Y, after(c)>> \in R)
  BY <1>4
<1>6. ASSUME NEW d \in C PROVE Rank[d] <= Rank[c]
  <2>1. SUFFICES ASSUME Rank[d] > Rank[c] PROVE FALSE
    BY <1>1
  <2>2. after(d) \subseteq after(c) /\ d \in after(c) /\ d \notin after(d)
    BY <1>1, <2>1
  <2>3. <<after(d), after(c)>> \in R
    BY <2>2 DEF StrictSubsetOrdering
  <2> QED BY <1>5, <2>3
<1> QED BY <1>6

(* Who waits for whom: only for transactions further on, or, between two    *)
(* conversions that have asked for their first row, for one whose first     *)
(* currency comes later in the alphabet.                                   *)
LEMMA WaitsForLater ==
    ASSUME IInv, Paths, NEW r \in Requests, NEW s \in Requests \ {r}, Blocks(s, r)
    PROVE  \/ pc[r] = "lock1" /\ pc[s] \in {"lock2"} \cup Writing
           \/ pc[r] = "lock2" /\ pc[s] \in Writing
           \/ /\ pc[r] = "lock2" /\ pc[s] = "lock2"
              /\ FirstCurrency(dto[r]) \in Currencies
              /\ FirstCurrency(dto[s]) \in Currencies
              /\ Rank[FirstCurrency(dto[r])] < Rank[FirstCurrency(dto[s])]
           \/ pc[r] = "save" /\ pc[s] \in {"record", "commit"}
           \/ pc[r] = "record" /\ pc[s] = "commit"
<1>1. CASE pc[r] \in {"lock1", "lock2"} /\ WantedRow(r) \in held[s]
  <2>1. pc[s] \in {"lock2"} \cup Writing
    BY <1>1 DEF IInv, LocksOK
  <2>2. CASE pc[r] = "lock2" /\ pc[s] = "lock2"
    <3>1. /\ dto[r] \in Offers /\ dto[r].kind # "funding" /\ dto[r].from # dto[r].to
          /\ dto[s] \in Offers /\ dto[s].kind # "funding"
      BY <2>2 DEF IInv, RequestOK, InTransaction
    <3>2. WantedRow(r)[2] = SecondCurrency(dto[r])
      BY <2>2, <3>1 DEF WantedRow
    <3>3. held[s] \subseteq {<<dto[s].user, FirstCurrency(dto[s])>>}
      BY <2>2 DEF Paths, PathOK, OrderOK
    <3>4. SecondCurrency(dto[r]) = FirstCurrency(dto[s])
      BY <1>1, <3>2, <3>3
    <3>5. /\ dto[r].from \in Currencies /\ dto[r].to \in Currencies
          /\ FirstCurrency(dto[r]) \in Currencies
          /\ FirstCurrency(dto[s]) \in Currencies
      BY <3>1, OfferType
    <3>6. Rank[FirstCurrency(dto[r])] < Rank[SecondCurrency(dto[r])]
      BY <3>1, <3>5, ConstantsOK DEF FirstCurrency, SecondCurrency
    <3> QED BY <2>2, <3>4, <3>5, <3>6
  <2> QED BY <1>1, <2>1, <2>2
<1>2. CASE pc[r] = "save" /\ pc[s] \in {"record", "commit"}
  BY <1>2
<1>3. CASE pc[r] = "record" /\ pc[s] = "commit"
  BY <1>3
<1> QED BY <1>1, <1>2, <1>3 DEF Blocks

LEMMA SomeoneRuns == IInv /\ Paths => NoWaitCycle
<1> SUFFICES ASSUME IInv, Paths,
                    NEW S \in SUBSET {r \in Requests : pc[r] \in InTransaction},
                    S # {}
             PROVE  \E r \in S : \A s \in S \ {r} : ~ Blocks(s, r)
  BY DEF NoWaitCycle
<1> DEFINE Free(r) == \A s \in S \ {r} : ~ Blocks(s, r)
           second == {r \in S : pc[r] = "lock2"}
<1>1. \A r \in S : r \in Requests /\ pc[r] \in {"lock1", "lock2"} \cup Writing
  BY DEF InTransaction, Writing
<1>2. ASSUME NEW r \in S, pc[r] = "commit" PROVE Free(r)
  BY <1>1, <1>2, WaitsForLater
<1>3. ASSUME NEW r \in S, pc[r] = "record", \A s \in S : pc[s] # "commit"
      PROVE  Free(r)
  BY <1>1, <1>3, WaitsForLater
<1>4. ASSUME NEW r \in S, pc[r] = "save",
             \A s \in S : pc[s] \notin {"record", "commit"}
      PROVE  Free(r)
  BY <1>1, <1>4, WaitsForLater
<1>5. ASSUME second # {}, \A s \in S : pc[s] \notin Writing
      PROVE  \E r \in second : Free(r)
  <2> DEFINE first(r) == FirstCurrency(dto[r])
  <2>1. \A r \in second : first(r) \in Currencies
    <3>1. \A r \in second : dto[r] \in Offers /\ dto[r].kind # "funding"
      BY <1>1 DEF IInv, RequestOK
    <3>2. \A r \in second :
            dto[r].from \in Currencies /\ dto[r].to \in Currencies
      BY <3>1, OfferType
    <3> QED BY <3>2 DEF FirstCurrency
  <2>2. PICK r \in second : \A s \in second : Rank[first(s)] <= Rank[first(r)]
    <3> DEFINE C == {first(r) : r \in second}
    <3>1. C \in SUBSET Currencies /\ C # {}
      BY <1>5, <2>1
    <3>2. \E c \in C : \A d \in C : Rank[d] <= Rank[c]
      <4> HIDE DEF C
      <4> QED BY <3>1, LastCurrency
    <3> QED BY <3>2
  <2>3. ASSUME NEW s \in S \ {r}, Blocks(s, r) PROVE FALSE
    <3>1. /\ pc[s] = "lock2"
          /\ first(r) \in Currencies /\ first(s) \in Currencies
          /\ Rank[first(r)] < Rank[first(s)]
      BY <1>1, <1>5, <2>3, WaitsForLater
    <3>2. Rank[first(s)] <= Rank[first(r)]
      BY <2>2, <3>1
    <3> QED BY <3>1, <3>2, ConstantsOK
  <2> QED BY <2>3
<1>6. ASSUME NEW r \in S, \A s \in S : pc[s] = "lock1" PROVE Free(r)
  BY <1>1, <1>6, WaitsForLater DEF Writing
<1>7. \/ \E r \in S : pc[r] = "commit"
      \/ \E r \in S : pc[r] = "record" /\ \A s \in S : pc[s] # "commit"
      \/ \E r \in S : pc[r] = "save"
                        /\ \A s \in S : pc[s] \notin {"record", "commit"}
      \/ second # {} /\ \A s \in S : pc[s] \notin Writing
      \/ \A s \in S : pc[s] = "lock1"
  BY <1>1 DEF Writing
<1> QED BY <1>2, <1>3, <1>4, <1>5, <1>6, <1>7

(* No set of open transactions waits in a circle, for any number of         *)
(* requests: they lock in alphabetical order, insert afterwards, and        *)
(* record last.                                                            *)
THEOREM NoDeadlock == Spec => []NoWaitCycle
BY SomeoneRuns, PathsHold, PTL

-----------------------------------------------------------------------------
(* Rounding.                                                               *)

(* An amount that is half a unit more than a whole one; ToUnits rounds it   *)
(* up, and its negative too.                                               *)
IsHalf(a) == \E k \in Int : 2 * a + SubUnits = (2 * SubUnits) * k

NoHalves == \A d \in Offers : d.kind # "funding" => ~ IsHalf(d.amount)

LEMMA Quotient ==
    ASSUME NEW m \in Nat \ {0}, NEW k \in Int, NEW t \in Int, 0 <= t, t < m
    PROVE  (m * k + t) \div m = k
<1> DEFINE y == m * k + t
           q == y \div m
<1>1. q \in Int /\ m * q <= y /\ y < m * q + m
  BY SMTT(60)
<1> HIDE DEF q
<1>2. m * (k - q) < m /\ m * (q - k) < m
  <2>1. m * (k - q) = m * k - m * q /\ m * (q - k) = m * q - m * k
    BY <1>1
  <2>2. m * k \in Int /\ m * q \in Int
    BY <1>1
  <2> QED BY <1>1, <2>1, <2>2
<1>3. \A n \in Int : n >= 1 => m * n >= m
  BY SMTT(60)
<1>4. k - q < 1 /\ q - k < 1
  BY <1>1, <1>2, <1>3
<1> QED BY <1>1, <1>4 DEF q

LEMMA Remainder ==
    ASSUME NEW m \in Nat \ {0}, NEW x \in Int
    PROVE  LET k == x \div m
               t == x - m * k
           IN /\ k \in Int /\ t \in Int
              /\ x = m * k + t
              /\ 0 <= t /\ t < m
<1> DEFINE k == x \div m
<1>1. k \in Int /\ m * k <= x /\ x < m * k + m
  BY SMTT(60)
<1>2. m * k \in Int
  <2> HIDE DEF k
  <2> QED BY <1>1
<1> HIDE DEF k
<1>3. /\ x - m * k \in Int /\ x = m * k + (x - m * k)
      /\ 0 <= x - m * k /\ x - m * k < m
  BY <1>1, <1>2
<1> QED BY <1>1, <1>3 DEF k

(* Whole units stay as they are. *)
LEMMA ToUnitsPlus ==
    ASSUME NEW b \in Int, NEW a \in Int
    PROVE  ToUnits(b * SubUnits + a) = b + ToUnits(a)
<1> DEFINE m == 2 * SubUnits
           x == 2 * a + SubUnits
           k == x \div m
           t == x - m * k
<1>1. m \in Nat \ {0} /\ x \in Int /\ b * m \in Int
  BY ConstantsOK
<1>2. k \in Int /\ t \in Int /\ x = m * k + t /\ 0 <= t /\ t < m
  <2> HIDE DEF m, x
  <2> QED BY <1>1, Remainder
<1>3. 2 * (b * SubUnits + a) + SubUnits = x + b * m
  BY ConstantsOK
<1> HIDE DEF m, x, k, t
<1>4. x + b * m = m * (b + k) + t
  <2>1. m * (b + k) = b * m + m * k
    BY <1>1, <1>2
  <2>2. m * k \in Int
    BY <1>1, <1>2
  <2> QED BY <1>1, <1>2, <2>1, <2>2
<1>5. (x + b * m) \div m = b + k
  <2>1. b + k \in Int
    BY <1>2
  <2> QED BY <1>1, <1>2, <1>4, <2>1, Quotient
<1> QED BY <1>3, <1>5 DEF ToUnits, m, x, k

(* A debit that is no half unit rounds to as much as the source loses. *)
LEMMA ToUnitsMinus ==
    ASSUME NEW b \in Int, NEW a \in Int, ~ IsHalf(a)
    PROVE  ToUnits(b * SubUnits - a) = b - ToUnits(a)
<1> DEFINE m == 2 * SubUnits
           x == 2 * a + SubUnits
           k == x \div m
           t == x - m * k
<1>1. m \in Nat \ {0} /\ x \in Int /\ -a \in Int
  BY ConstantsOK
<1>2. k \in Int /\ t \in Int /\ x = m * k + t /\ 0 <= t /\ t < m /\ t # 0
  <2>1. ASSUME NEW l \in Int PROVE x # m * l
    BY <2>1 DEF IsHalf
  <2> HIDE DEF m, x
  <2>2. k \in Int /\ t \in Int /\ x = m * k + t /\ 0 <= t /\ t < m
    BY <1>1, Remainder
  <2> HIDE DEF k, t
  <2>3. m * k \in Int
    BY <1>1, <2>2
  <2> QED BY <1>1, <2>1, <2>2, <2>3
<1>3. 2 * (-a) + SubUnits = m - x
  BY ConstantsOK
<1> HIDE DEF m, x, k, t
<1>4. m - x = m * (-k) + (m - t)
  <2>1. m * (-k) = - (m * k) /\ m * k \in Int
    BY <1>1, <1>2
  <2> QED BY <1>1, <1>2, <2>1
<1>5. (m - x) \div m = -k
  <2>1. -k \in Int /\ m - t \in Int /\ 0 <= m - t /\ m - t < m
    BY <1>1, <1>2
  <2> QED BY <1>1, <1>4, <2>1, Quotient
<1>6. ToUnits(-a) = -k /\ ToUnits(a) = k
  BY <1>3, <1>5 DEF ToUnits, m, x, k
<1>7. ToUnits(b * SubUnits + (-a)) = b + ToUnits(-a)
  BY <1>1, ToUnitsPlus
<1>8. b * SubUnits - a = b * SubUnits + (-a)
  BY ConstantsOK
<1> QED BY <1>2, <1>6, <1>7, <1>8

(* Funds that cover an amount cover what it rounds to. *)
LEMMA CoversRounded ==
    ASSUME NEW b \in Int, NEW a \in Int, b * SubUnits >= a
    PROVE  b >= ToUnits(a)
<1> DEFINE m == 2 * SubUnits
           x == 2 * a + SubUnits
           k == x \div m
           t == x - m * k
<1>1. m \in Nat \ {0} /\ x \in Int /\ x <= m * b + SubUnits /\ SubUnits < m
  BY ConstantsOK
<1>2. k \in Int /\ t \in Int /\ x = m * k + t /\ 0 <= t /\ t < m
  <2> HIDE DEF m, x
  <2> QED BY <1>1, Remainder
<1>3. ToUnits(a) = k /\ SubUnits \in Int
  BY ConstantsOK DEF ToUnits
<1> HIDE DEF m, x, k, t
<1>4. m * (k - b) < m
  <2>1. m * (k - b) = m * k - m * b /\ m * k \in Int /\ m * b \in Int
    BY <1>1, <1>2
  <2> QED BY <1>1, <1>2, <1>3, <2>1
<1>5. \A n \in Int : n >= 1 => m * n >= m
  BY <1>1, SMTT(60)
<1>6. k - b < 1
  <2>1. k - b \in Int /\ m * (k - b) \in Int
    BY <1>1, <1>2
  <2> QED BY <1>1, <1>4, <1>5, <2>1
<1> QED BY <1>2, <1>3, <1>6

-----------------------------------------------------------------------------
(* WalletsService implements AtomicLedger.                                 *)

(* What a request about to commit knows of its two rows. *)
LEMMA AtCommit ==
    ASSUME IInv, Paths, NEW r \in Requests, pc[r] = "commit"
    PROVE  LET d == dto[r] IN
           /\ d \in Offers /\ d.from # d.to /\ d.amount \in Int
           /\ ToRow(d) \in Rows
           /\ seen[r][d.to] = balance[ToRow(d)]
           /\ d.kind = "funding" =>
                d.from = None /\ balance[ToRow(d)] # None
           /\ d.kind # "funding" =>
                /\ FromRow(d) \in Rows /\ d.from # None
                /\ seen[r][d.from] = balance[FromRow(d)]
                /\ Covers(balance[FromRow(d)], d)
           /\ \A row \in Rows : balance[row] \in Int \cup {None}
<1> DEFINE d == dto[r]
<1>1. /\ d \in Offers /\ d.from # d.to
      /\ d.user \in Users /\ d.to \in Currencies /\ d.amount \in Int
      /\ d.kind = "funding" => d.from = None
      /\ d.kind # "funding" => d.from \in Currencies
  BY OfferType DEF IInv, RequestOK, InTransaction
<1>2. ToRow(d) \in Rows /\ (d.kind # "funding" => FromRow(d) \in Rows /\ d.from # None)
  BY <1>1, NoneIsNoValue DEF ToRow, FromRow, Rows
<1>3. ToRow(d)[2] = d.to /\ FromRow(d)[2] = d.from
  BY DEF ToRow, FromRow
<1>4. /\ d.kind = "funding" \/ ~ Inserts(r) => ToRow(d) \in held[r]
      /\ d.kind # "funding" =>
           FromRow(d) \in held[r] /\ Covers(seen[r][d.from], d)
      /\ \A row \in held[r] : balance[row] # None /\ seen[r][row[2]] = balance[row]
  BY DEF IInv, LocksOK, Writing
<1>5. Inserts(r) => balance[ToRow(d)] = None /\ seen[r][d.to] = None
  BY DEF IInv, InsertOK, Inserts
<1>6. \A row \in Rows : balance[row] \in Int \cup {None}
  BY DEF IInv, TypeOK
<1> HIDE DEF d
<1> QED BY <1>1, <1>2, <1>3, <1>4, <1>5, <1>6 DEF d, Inserts

LEMMA RefinePostings ==
    ASSUME IInv, Paths, NEW r \in Requests, pc[r] = "commit"
    PROVE  Posting(r, dto[r], rate[r]) \in Postings
<1>1. dto[r] \in Offers
  BY AtCommit
<1>2. CASE dto[r].kind = "funding"
  <2>1. rate[r] = None
    BY <1>2 DEF Paths, PathOK, RateOK
  <2>2. dto[r] \in FundDtos
    BY <1>1, <1>2, ConstantsOK DEF FundDtos, ConvertDtos, TradeDtos
  <2> QED BY <1>1, <2>1, <2>2 DEF Postings
<1>3. CASE dto[r].kind # "funding"
  <2>1. rate[r] \in Quotes
    BY <1>3 DEF Paths, PathOK, RateOK, InTransaction
  <2>2. dto[r] \notin FundDtos
    BY <1>3 DEF FundDtos
  <2> QED BY <1>1, <2>1, <2>2 DEF Postings
<1> QED BY <1>2, <1>3

LEMMA RefineApply ==
    ASSUME NoHalves, IInv, Paths, NEW r \in Requests, pc[r] = "commit", Apply(r)
    PROVE  Abstract!Post(Posting(r, dto[r], rate[r]))
<1> DEFINE d == dto[r]
           p == Posting(r, d, rate[r])
           from == balance[FromRow(d)]
           to == balance[ToRow(d)]
           to0 == IF to = None THEN 0 ELSE to
<1>1. /\ d \in Offers /\ d.from # d.to /\ d.amount \in Int
      /\ ToRow(d) \in Rows /\ seen[r][d.to] = to /\ to \in Int \cup {None}
      /\ d.kind = "funding" => d.from = None /\ to # None
      /\ d.kind # "funding" =>
           /\ FromRow(d) \in Rows /\ d.from # None /\ from \in Int \cup {None}
           /\ seen[r][d.from] = from /\ Covers(from, d)
  BY AtCommit
<1>2. /\ p.user = d.user /\ p.key = d.key /\ p.from = d.from /\ p.to = d.to
      /\ d.kind = "funding" => p.debit = 0 /\ p.credit = ToUnits(d.amount)
      /\ d.kind # "funding" =>
           p.debit = ToUnits(d.amount) /\ p.credit = Credit(d.amount, rate[r])
  BY DEF Posting
<1>3. to0 \in Int /\ NewTo(r) = to0 + p.credit
  <2>1. CASE d.kind = "funding"
    <3>1. to \in Int /\ to0 = to
      BY <1>1, <2>1
    <3>2. NewTo(r) = ToUnits(to * SubUnits + d.amount)
      BY <1>1, <2>1 DEF NewTo
    <3> QED BY <1>1, <1>2, <2>1, <3>1, <3>2, ToUnitsPlus
  <2>2. CASE d.kind # "funding"
    BY <1>1, <1>2, <2>2 DEF NewTo, OrZero
  <2> QED BY <2>1, <2>2
<1>4. d.kind # "funding" =>
        from \in Int /\ NewFrom(r) = from - p.debit /\ from >= p.debit
  <2>1. SUFFICES ASSUME d.kind # "funding"
                 PROVE  from \in Int /\ NewFrom(r) = from - p.debit /\ from >= p.debit
    OBVIOUS
  <2>2. from \in Int /\ from * SubUnits >= d.amount /\ ~ IsHalf(d.amount)
    BY <1>1, <2>1 DEF Covers, NoHalves
  <2>3. NewFrom(r) = ToUnits(from * SubUnits - d.amount)
    BY <1>1, <2>1 DEF NewFrom
  <2> QED BY <1>1, <1>2, <2>1, <2>2, <2>3, ToUnitsMinus, CoversRounded
<1>5. NewTo(r) <= MaxAmount
  BY DEF Paths, PathOK, LimitOK
<1>6. ledger' = ledger \cup {p} /\ balance' = Written(r)
  BY DEF Apply
<1>7. \A e \in ledger : <<e.user, e.key>> # <<d.user, d.key>>
  BY DEF IInv, KeyOK, Posted, SameKey
<1>8. ToRow(d) = <<d.user, d.to>> /\ FromRow(d) = <<d.user, d.from>>
  BY DEF ToRow, FromRow
<1>9. ASSUME NEW row \in Rows
      PROVE  balance'[row] = CASE row = <<d.user, d.to>>   -> to0 + p.credit
                               [] row = <<d.user, d.from>> -> balance[row] - p.debit
                               [] OTHER                    -> balance[row]
  <2>1. CASE row = ToRow(d)
    <3>1. Written(r)[row] = NewTo(r) /\ row # FromRow(d)
      BY <1>1, <1>8, <2>1 DEF Written
    <3> QED BY <1>3, <1>6, <1>8, <2>1, <3>1
  <2>2. CASE row # ToRow(d) /\ row = FromRow(d)
    <3>1. Written(r)[row] = NewFrom(r)
      BY <2>2 DEF Written
    <3>2. d.kind # "funding"
      BY <1>1, <1>8, <2>2, NoneIsNoValue DEF Rows
    <3> QED BY <1>4, <1>6, <1>8, <2>2, <3>1, <3>2
  <2>3. CASE row # ToRow(d) /\ row # FromRow(d)
    <3>1. Written(r)[row] = balance[row]
      BY <2>3 DEF Written
    <3> QED BY <1>6, <1>8, <2>3, <3>1
  <2> QED BY <2>1, <2>2, <2>3
<1>10. Abstract!Fresh(p)
  BY <1>2, <1>7 DEF Abstract!Fresh
<1>11. Abstract!Covered(p)
  BY <1>1, <1>2, <1>4, <1>8, NoneIsNoValue DEF Abstract!Covered
<1>12. Abstract!Amount(<<p.user, p.to>>) = to0
  BY <1>2, <1>8 DEF Abstract!Amount
<1>13. balance' = [row \in Rows |->
                    CASE row = <<p.user, p.to>>   -> Abstract!Amount(row) + p.credit
                      [] row = <<p.user, p.from>> -> balance[row] - p.debit
                      [] OTHER                    -> balance[row]]
  <2> HIDE DEF to0, p, d
  <2>1. \A row \in Rows : balance'[row] =
          CASE row = <<p.user, p.to>>   -> Abstract!Amount(row) + p.credit
            [] row = <<p.user, p.from>> -> balance[row] - p.debit
            [] OTHER                    -> balance[row]
    BY <1>2, <1>9, <1>12
  <2>2. balance' = [row \in Rows |-> balance'[row]]
    BY <1>6 DEF Written
  <2> QED BY <2>1, <2>2
<1> HIDE DEF to0, p, d
<1> QED
  BY <1>3, <1>5, <1>6, <1>10, <1>11, <1>12, <1>13 DEF Abstract!Post, Abstract!Rows, Rows, p, d

LEMMA RefineNext ==
    NoHalves /\ IInv /\ Paths /\ [Next]_vars => [Abstract!Next]_Abstract!vars
<1> SUFFICES ASSUME NoHalves, IInv, Paths, [Next]_vars
             PROVE  [Abstract!Next]_Abstract!vars
  OBVIOUS
<1>1. ASSUME NEW u \in Users, CreateWallet(u) PROVE Abstract!Next
  BY <1>1 DEF CreateWallet, HasWallet, Rows, Abstract!Next, Abstract!OpenWallet,
     Abstract!HasWallet, Abstract!Rows
<1>2. ASSUME NEW r \in Requests, Commit(r) \/ CommitAckLost(r)
      PROVE  Abstract!Next
  <2>1. pc[r] = "commit" /\ Apply(r)
    BY <1>2 DEF Commit, CommitAckLost
  <2>2. Abstract!Post(Posting(r, dto[r], rate[r]))
    BY <2>1, RefineApply
  <2>3. Posting(r, dto[r], rate[r]) \in Postings
    BY <2>1, RefinePostings
  <2> QED BY <2>2, <2>3 DEF Abstract!Next
<1>3. ASSUME NEW r \in Requests, Step(r), ~ Commit(r), ~ CommitAckLost(r)
      PROVE  UNCHANGED Abstract!vars
  BY <1>3 DEF Step, GuardTrade, RefuseSameCurrency, CheckIdempotency, FetchRate,
     RateUnavailable, FindWallet, LockFundedRow, LockFirstRow, LockSecondRow, Save,
     RecordTransaction, Respond, Fail, tables, Abstract!vars
<1>4. CASE \/ \E r \in Requests : \E d \in Offers : Submit(r, d)
           \/ \E r \in Requests : Abort(r)
           \/ \E S \in SUBSET Requests : Crash(S)
           \/ UNCHANGED vars
  BY <1>4 DEF Submit, Abort, Fail, Crash, vars, tables, Abstract!vars
<1> QED BY <1>1, <1>2, <1>3, <1>4 DEF Next, Terminating

(* The requests of any number of users, interleaved at every await, rolled  *)
(* back, crashed and retried, change the two tables only as the atomic      *)
(* ledger does: a wallet is opened, or one covered transaction is posted    *)
(* under a fresh key and moves exactly what its record says.  Amounts that  *)
(* end in half a unit are left out: convertCurrency rounds them twice.      *)
THEOREM Refinement ==
    ASSUME NoHalves
    PROVE  Spec => ImplementsAtomicLedger
<1>1. Init => Abstract!Init
  BY DEF Init, Abstract!Init
<1>2. IInv /\ Paths /\ [Next]_vars => [Abstract!Next]_Abstract!vars
  BY NoHalves, RefineNext
<1> QED
  BY <1>1, <1>2, PathsHold, PTL DEF Spec, ImplementsAtomicLedger, Abstract!Spec
=============================================================================
