--------------------------- MODULE ExchangeProofs ---------------------------
(***************************************************************************)
(* Proofs about Exchange.  The application is both of its parts at once:    *)
(* every step of it is a step, or none, of WalletsService, and a step, or   *)
(* none, of AuthService over the wallets that WalletsService keeps.  So     *)
(* what is proved of either part is proved of the application; what is      *)
(* left is about the places where they meet.                               *)
(*                                                                         *)
(* AuthP names the definitions and theorems of AuthServiceProofs with the   *)
(* substitution that Exchange makes in Auth.                               *)
(***************************************************************************)
EXTENDS Exchange, WalletsRefinementProofs, TLAPS

AuthP == INSTANCE AuthServiceProofs WITH
    Calls <- AuthCalls, Offers <- AuthOffers, wallets <- WalletOwners,
    pc <- authPc, dto <- authDto, reply <- authReply

VerifiedIn(rows, x) == \E u \in rows : u.email = x /\ u.verified

(* An open transaction has found the wallet of its user. *)
FoundWallets ==
    \A r \in Requests : pc[r] \in InTransaction => HasWallet(dto[r].user)

(* Whoever was let in is verified, and still is. *)
OnlyVerified ==
    /\ \A r \in Requests : pc[r] # "idle" => VerifiedIn(users, dto[r].user)
    /\ \A e \in ledger : VerifiedIn(users, e.user)

EInv == IInv /\ AuthP!IInv /\ FoundWallets /\ OnlyVerified

(* Wallets of the start have a row for every supported currency. *)
CompleteOpening ==
    \A u \in Users :
        (\E c \in Currencies : Opening[<<u, c>>] # None)
          => \A c \in Supported : Opening[<<u, c>>] # None

(* And so have all others. *)
CompleteWallets ==
    \A u \in Users :
        HasWallet(u) => \A c \in Supported : balance[<<u, c>>] # None

Ready == CompleteWallets /\ WalletsAreReady

-----------------------------------------------------------------------------
(* Auth and AuthP are the same.                                            *)

LEMMA AuthConstants ==
    /\ AuthP!ConstantsOK /\ AuthP!OpeningsOK
    /\ AuthP!Emails \subseteq Users
<1>1. AuthP!UserRows = Auth!UserRows
  BY DEF AuthP!UserRows, Auth!UserRows, AuthP!Ids, Auth!Ids
<1>2. AuthP!Dtos = Auth!Dtos
  BY DEF AuthP!Dtos, AuthP!RegisterDtos, AuthP!LoginDtos, AuthP!VerifyDtos,
     AuthP!ResendDtos, AuthP!AccessDtos, Auth!Dtos, Auth!RegisterDtos,
     Auth!LoginDtos, Auth!VerifyDtos, Auth!ResendDtos, Auth!AccessDtos
<1>3. AuthP!Codes = Auth!Codes /\ AuthP!Emails = Auth!Emails
  BY DEF AuthP!Codes, Auth!Codes, AuthP!Emails, Auth!Emails
<1> QED
  BY AuthConstantsOK, <1>1, <1>2, <1>3
     DEF AuthP!ConstantsOK, AuthP!OpeningsOK, Auth!ConstantsOK, Auth!OpeningsOK

LEMMA SameInit == Auth!Init => AuthP!Init
BY DEF Auth!Init, AuthP!Init

LEMMA SameOperators ==
    /\ \A e : Auth!RowsOf(e) = AuthP!RowsOf(e)
    /\ Auth!ConnectionFree <=> AuthP!ConnectionFree
    /\ \A c, s : Auth!Answer(c, s) <=> AuthP!Answer(c, s)
    /\ \A c, l : Auth!Goto(c, l) <=> AuthP!Goto(c, l)
    /\ \A c : Auth!Draw(c) <=> AuthP!Draw(c)
    /\ \A c : Auth!Email(c) = AuthP!Email(c)
    /\ \A u, o : Auth!Refusal(u, o) = AuthP!Refusal(u, o)
    /\ \A c, u : Auth!Updated(c, u) = AuthP!Updated(c, u)
    /\ \A c : Auth!NewUser(c) = AuthP!NewUser(c)
    /\ \A c, d : Auth!Blocks(d, c) <=> AuthP!Blocks(d, c)
    /\ Auth!tables = AuthP!tables /\ Auth!locals = AuthP!locals
<1>1. \A e : Auth!RowsOf(e) = AuthP!RowsOf(e)
  BY DEF Auth!RowsOf, AuthP!RowsOf
<1>2. Auth!InTransaction = AuthP!InTransaction /\ Auth!Inserted = AuthP!Inserted
  BY DEF Auth!InTransaction, AuthP!InTransaction, Auth!Inserted, AuthP!Inserted
<1>3. {c \in AuthCalls : authPc[c] \in Auth!InTransaction}
        = {c \in AuthCalls : authPc[c] \in AuthP!InTransaction}
  BY <1>2
<1>4. Auth!ConnectionFree <=> AuthP!ConnectionFree
  <2> DEFINE S == {c \in AuthCalls : authPc[c] \in Auth!InTransaction}
             T == {c \in AuthCalls : authPc[c] \in AuthP!InTransaction}
  <2>1. Auth!Cardinality(S) = AuthP!Cardinality(T)
    <3> HIDE DEF S, T
    <3>1. S = T
      BY <1>3 DEF S, T
    <3>2. Auth!Cardinality(S) = AuthP!Cardinality(S)
      BY DEF Auth!Cardinality, AuthP!Cardinality
    <3> QED BY <3>1, <3>2
  <2>2. /\ Auth!ConnectionFree <=> Auth!Cardinality(S) < PoolSize
        /\ AuthP!ConnectionFree <=> AuthP!Cardinality(T) < PoolSize
    BY DEF Auth!ConnectionFree, AuthP!ConnectionFree
  <2> HIDE DEF S, T
  <2> QED BY <2>1, <2>2
<1>5. \A c, l : Auth!Goto(c, l) <=> AuthP!Goto(c, l)
  BY DEF Auth!Goto, AuthP!Goto
<1>6. \A c, s : Auth!Answer(c, s) <=> AuthP!Answer(c, s)
  BY DEF Auth!Answer, AuthP!Answer, Auth!Goto, AuthP!Goto
<1>7. \A c : Auth!Draw(c) <=> AuthP!Draw(c)
  BY DEF Auth!Draw, AuthP!Draw
<1>8. \A c : Auth!Email(c) = AuthP!Email(c)
  BY DEF Auth!Email, AuthP!Email
<1>9. \A u, o : Auth!Refusal(u, o) = AuthP!Refusal(u, o)
  BY Zenon DEF Auth!Refusal, AuthP!Refusal
<1>10. \A c, u : Auth!Updated(c, u) = AuthP!Updated(c, u)
  BY Zenon DEF Auth!Updated, AuthP!Updated
<1>11. \A c : Auth!NewUser(c) = AuthP!NewUser(c)
  BY <1>8 DEF Auth!NewUser, AuthP!NewUser
<1>12. \A c, d : Auth!Blocks(d, c) <=> AuthP!Blocks(d, c)
  BY <1>2, <1>8 DEF Auth!Blocks, AuthP!Blocks
<1>13. Auth!tables = AuthP!tables /\ Auth!locals = AuthP!locals
  BY DEF Auth!tables, AuthP!tables, Auth!locals, AuthP!locals
<1> QED
  BY <1>1, <1>4, <1>5, <1>6, <1>7, <1>8, <1>9, <1>10, <1>11, <1>12, <1>13

LEMMA SameStep ==
    ASSUME NEW c \in AuthCalls, Auth!Step(c)
    PROVE  AuthP!Step(c)
<1> USE SameOperators DEF Auth!tables, AuthP!tables, Auth!locals,
        AuthP!locals
<1>1. Auth!RegisterLookup(c) => AuthP!RegisterLookup(c)
  BY Zenon DEF Auth!RegisterLookup, AuthP!RegisterLookup
<1>2. Auth!InsertUser(c) => AuthP!InsertUser(c)
  BY Zenon DEF Auth!InsertUser, AuthP!InsertUser
<1>3. Auth!InsertWallet(c) => AuthP!InsertWallet(c)
  BY DEF Auth!InsertWallet, AuthP!InsertWallet
<1>4. Auth!Commit(c) => AuthP!Commit(c)
  BY DEF Auth!Commit, AuthP!Commit
<1>5. Auth!SendMail(c) => AuthP!SendMail(c)
  BY DEF Auth!SendMail, AuthP!SendMail
<1>6. Auth!VerifyLookup(c) => AuthP!VerifyLookup(c)
  BY Zenon DEF Auth!VerifyLookup, AuthP!VerifyLookup
<1>7. Auth!ResendLookup(c) => AuthP!ResendLookup(c)
  BY Zenon DEF Auth!ResendLookup, AuthP!ResendLookup
<1>8. Auth!UpdateUser(c) => AuthP!UpdateUser(c)
  <2>1. {IF u.id = found[c].id THEN Auth!Updated(c, u) ELSE u : u \in users}
          = {IF u.id = found[c].id THEN AuthP!Updated(c, u) ELSE u : u \in users}
    OBVIOUS
  <2> QED
    BY <2>1, Zenon DEF Auth!UpdateUser, AuthP!UpdateUser
<1>9. Auth!LoginLookup(c) => AuthP!LoginLookup(c)
  BY Zenon DEF Auth!LoginLookup, AuthP!LoginLookup
<1>10. Auth!ComparePassword(c) => AuthP!ComparePassword(c)
  BY DEF Auth!ComparePassword, AuthP!ComparePassword
<1>11. Auth!ValidateToken(c) => AuthP!ValidateToken(c)
  BY Zenon DEF Auth!ValidateToken, AuthP!ValidateToken
<1>12. Auth!Begin(c) => AuthP!Begin(c)
  BY Zenon DEF Auth!Begin, AuthP!Begin
<1> QED
  BY <1>1, <1>2, <1>3, <1>4, <1>5, <1>6, <1>7, <1>8, <1>9, <1>10, <1>11, <1>12
     DEF Auth!Step, AuthP!Step

LEMMA SameNext == [Auth!Next]_Auth!vars => [AuthP!Next]_AuthP!vars
<1> USE DEF Auth!Goto, AuthP!Goto, Auth!Answer, AuthP!Answer,
            Auth!InTransaction, AuthP!InTransaction, Auth!Inserted,
            AuthP!Inserted, Auth!tables, AuthP!tables,
            Auth!locals, AuthP!locals, Auth!vars, AuthP!vars, Auth!Ended,
            AuthP!Ended
<1>1. ASSUME NEW c \in AuthCalls, NEW d \in AuthOffers, Auth!Submit(c, d)
      PROVE  AuthP!Submit(c, d)
  BY <1>1 DEF Auth!Submit, AuthP!Submit, Auth!RowsOf, AuthP!RowsOf
<1>2. ASSUME NEW c \in AuthCalls, Auth!Abort(c) PROVE AuthP!Abort(c)
  BY <1>2 DEF Auth!Abort, AuthP!Abort
<1>3. ASSUME NEW S \in SUBSET AuthCalls, Auth!Crash(S) PROVE AuthP!Crash(S)
  BY <1>3 DEF Auth!Crash, AuthP!Crash
<1>4. ASSUME NEW u \in users, Auth!OtpExpires(u) PROVE AuthP!OtpExpires(u)
  BY <1>4 DEF Auth!OtpExpires, AuthP!OtpExpires
<1>5. Auth!Terminating => AuthP!Terminating
  BY DEF Auth!Terminating, AuthP!Terminating
<1>6. UNCHANGED Auth!vars => UNCHANGED AuthP!vars
  OBVIOUS
<1> QED
  BY <1>1, <1>2, <1>3, <1>4, <1>5, <1>6, SameStep DEF Auth!Next, AuthP!Next

-----------------------------------------------------------------------------
(* What a handler of WalletsService does.                                  *)

LEMMA StepFacts ==
    ASSUME IInv, NEW s \in Requests, Step(s) \/ Abort(s)
    PROVE  /\ pc[s] \notin {"idle"} \cup Ended /\ dto' = dto
           /\ \A t \in Requests \ {s} : pc'[t] = pc[t] /\ reply'[t] = reply[t]
           /\ UNCHANGED tables \/ (pc[s] = "commit" /\ Apply(s))
           /\ pc'[s] \in InTransaction =>
                pc[s] \in InTransaction \/ HasWallet(dto[s].user)
           /\ pc'[s] = "done" /\ reply'[s].code = "NotFound" =>
                \/ ~ HasWallet(dto[s].user)
                \/ balance[ToRow(dto[s])] = None
<1> DEFINE Facts ==
      /\ pc[s] \notin {"idle"} \cup Ended /\ dto' = dto
      /\ \A t \in Requests \ {s} : pc'[t] = pc[t] /\ reply'[t] = reply[t]
      /\ UNCHANGED tables \/ (pc[s] = "commit" /\ Apply(s))
      /\ pc'[s] \in InTransaction =>
           pc[s] \in InTransaction \/ HasWallet(dto[s].user)
      /\ pc'[s] = "done" /\ reply'[s].code = "NotFound" =>
           \/ ~ HasWallet(dto[s].user)
           \/ balance[ToRow(dto[s])] = None
<1>1. /\ pc \in [Requests -> {"idle", "respond"} \cup Outside
                                \cup InTransaction \cup Ended]
      /\ reply \in [Requests -> [code: Codes \cup {None},
                                  tx: Requests \cup {None}]]
  BY DEF IInv, TypeOK
<1>2. ASSUME NEW status, NEW tx, Answer(s, status, tx)
      PROVE  /\ pc'[s] = "done" /\ reply'[s].code = status /\ dto' = dto
             /\ \A t \in Requests \ {s} : pc'[t] = pc[t] /\ reply'[t] = reply[t]
  BY <1>1, <1>2 DEF Answer, Goto
<1>3. ASSUME NEW label, Goto(s, label)
      PROVE  pc'[s] = label /\ \A t \in Requests \ {s} : pc'[t] = pc[t]
  BY <1>1, <1>3 DEF Goto
<1> USE DEF Ended, Outside, InTransaction
<1>4. CASE \/ GuardTrade(s) \/ RefuseSameCurrency(s) \/ RateUnavailable(s)
           \/ Save(s) \/ RecordTransaction(s) \/ Respond(s) \/ Abort(s)
  BY <1>1, <1>2, <1>3, <1>4
     DEF GuardTrade, RefuseSameCurrency, RateUnavailable, Save,
         RecordTransaction, Respond, Abort, Fail, tables
<1>5. CASE CheckIdempotency(s)
  BY <1>1, <1>2, <1>3, <1>5 DEF CheckIdempotency, Fail, tables
<1>6. CASE FetchRate(s)
  BY <1>1, <1>3, <1>6 DEF FetchRate, tables
<1>7. CASE FindWallet(s)
  BY <1>1, <1>2, <1>3, <1>7 DEF FindWallet, Fail, tables
<1>8. CASE LockFundedRow(s) \/ LockFirstRow(s) \/ LockSecondRow(s)
  BY <1>1, <1>2, <1>3, <1>8
     DEF LockFundedRow, LockFirstRow, LockSecondRow, WantedRow, ToRow, Fail,
         tables
<1>9. CASE Commit(s) \/ CommitAckLost(s)
  BY <1>1, <1>2, <1>3, <1>9 DEF Commit, CommitAckLost
<1> QED
  BY <1>4, <1>5, <1>6, <1>7, <1>8, <1>9 DEF Step

(* Only the opening of a wallet gives a user rows who had none; and no row  *)
(* ever goes.                                                              *)
LEMMA OwnersStay ==
    ASSUME IInv, FoundWallets,
           UNCHANGED balance
             \/ \E s \in Requests : Step(s) \/ Abort(s)
    PROVE  /\ \A row \in Rows : balance[row] # None => balance'[row] # None
           /\ \A u \in Users : HasWallet(u)' <=> HasWallet(u)
<1>1. CASE UNCHANGED balance
  BY <1>1 DEF HasWallet
<1>2. ASSUME NEW s \in Requests, pc[s] = "commit", Apply(s)
      PROVE  /\ \A row \in Rows : balance[row] # None => balance'[row] # None
             /\ \A u \in Users : HasWallet(u)' <=> HasWallet(u)
  <2>1. balance' = Written(s) /\ HasWallet(dto[s].user)
    BY <1>2 DEF Apply, FoundWallets, InTransaction
  <2>2. \A row \in Rows : balance[row] # None => balance'[row] # None
    BY <1>2, <2>1, LemmaWritten
  <2>3. ASSUME NEW u \in Users, HasWallet(u)
        PROVE  HasWallet(u)'
    BY <2>2, <2>3 DEF HasWallet, Rows
  <2>4. ASSUME NEW u \in Users, HasWallet(u)'
        PROVE  HasWallet(u)
    <3>1. SUFFICES ASSUME u # dto[s].user PROVE HasWallet(u)
      BY <2>1
    <3>2. PICK c \in Currencies : balance'[<<u, c>>] # None
      BY <2>4 DEF HasWallet
    <3>3. /\ <<u, c>> \in Rows
          /\ <<u, c>> # ToRow(dto[s]) /\ <<u, c>> # FromRow(dto[s])
      BY <3>1 DEF Rows, ToRow, FromRow
    <3>4. balance'[<<u, c>>] = balance[<<u, c>>]
      BY <2>1, <3>3 DEF Written
    <3> QED BY <3>2, <3>4 DEF HasWallet
  <2> QED BY <2>2, <2>3, <2>4
<1> QED BY <1>1, <1>2, StepFacts DEF tables

LEMMA OpensWallet ==
    ASSUME IInv, NEW u \in Users, CreateWallet(u)
    PROVE  /\ \A row \in Rows : balance[row] # None => balance'[row] # None
           /\ \A v \in Users : HasWallet(v) => HasWallet(v)'
           /\ \A v \in Users \ {u} : HasWallet(v)' <=> HasWallet(v)
           /\ \A c \in Supported : balance'[<<u, c>>] = 0
<1>1. \A row \in Rows : balance'[row] = IF row[1] = u /\ row[2] \in Supported
                                       THEN 0 ELSE balance[row]
  BY DEF CreateWallet
<1>2. \A row \in Rows : balance[row] # None => balance'[row] # None
  BY <1>1, NoneIsNoValue
<1>3. \A v \in Users : HasWallet(v) => HasWallet(v)'
  BY <1>2 DEF HasWallet, Rows
<1>4. \A v \in Users \ {u} : HasWallet(v)' <=> HasWallet(v)
  BY <1>1 DEF HasWallet, Rows
<1>5. \A c \in Supported : balance'[<<u, c>>] = 0
  BY <1>1, ConstantsOK DEF Rows
<1> QED BY <1>2, <1>3, <1>4, <1>5

-----------------------------------------------------------------------------
(* Every step of the application is a step of both parts.                  *)

LEMMA OwnersEmails ==
    ASSUME AuthP!IInv, NEW v \in users PROVE v.email \in Users
BY AuthConstants DEF AuthP!IInv, AuthP!TablesOK

LEMMA SameOwners ==
    ASSUME AuthP!IInv, UNCHANGED users,
           \A u \in Users : HasWallet(u)' <=> HasWallet(u)
    PROVE  WalletOwners' = WalletOwners
BY OwnersEmails DEF WalletOwners

LEMMA OpeningPart ==
    ExchangeInit => Init /\ Auth!Init /\ AuthP!Init
BY SameInit DEF ExchangeInit

(* The opening of a wallet for the address of a registration. *)
LEMMA OpensForUser ==
    ASSUME AuthP!IInv, NEW c \in AuthCalls, CommitRegistration(c)
    PROVE  /\ Auth!Email(c) \in Users /\ CreateWallet(Auth!Email(c))
           /\ Auth!Commit(c)
<1>1. authPc[c] = "commit" /\ CreateWallet(Auth!Email(c)) /\ Auth!Commit(c)
  BY DEF CommitRegistration
<1>2. authDto[c] \in AuthOffers
  BY <1>1 DEF AuthP!IInv, AuthP!CallOK, AuthP!RequestOK
<1>3. AuthP!Email(c) \in AuthP!Emails
  BY <1>2, AuthConstants, AuthP!EmailType
<1> QED BY <1>1, <1>3, AuthConstants, SameOperators

LEMMA NextParts ==
    ASSUME EInv, [ExchangeNext]_allVars
    PROVE  [Next]_vars /\ [Auth!Next]_Auth!vars
<1> USE DEF EInv
<1>1. ASSUME NEW c \in AuthCalls, NEW d \in AuthOffers, AuthStart(c, d)
      PROVE  UNCHANGED vars /\ Auth!Next
  BY <1>1 DEF AuthStart, Auth!Next
<1>2. ASSUME NEW c \in AuthCalls, AuthStep(c)
      PROVE  [Next]_vars /\ Auth!Next
  <2>1. CASE CommitRegistration(c)
    BY <2>1, OpensForUser DEF Next, Auth!Next, Auth!Step
  <2>2. CASE UNCHANGED vars /\ Auth!Step(c)
    BY <2>2 DEF Auth!Next
  <2> QED BY <1>2, <2>1, <2>2 DEF AuthStep
<1>3. ASSUME NEW c \in AuthCalls, AuthAbort(c)
      PROVE  UNCHANGED vars /\ Auth!Next
  BY <1>3 DEF AuthAbort, Auth!Next
<1>4. ASSUME NEW u \in users, CodeExpires(u)
      PROVE  UNCHANGED vars /\ Auth!Next
  BY <1>4 DEF CodeExpires, Auth!Next
<1>5. ASSUME UNCHANGED authVars,
             UNCHANGED balance \/ \E s \in Requests : Step(s) \/ Abort(s)
      PROVE  UNCHANGED Auth!vars
  <2>1. UNCHANGED <<users, mailbox, tokens, authPc, authDto, found, code, authReply>>
    BY <1>5 DEF authVars
  <2>2. WalletOwners' = WalletOwners
    BY <1>5, <2>1, OwnersStay, SameOwners
  <2> QED BY <2>1, <2>2 DEF Auth!vars, Auth!tables, Auth!locals
<1>6. ASSUME NEW r \in Requests, NEW d \in Offers, Enter(r, d)
      PROVE  Next /\ UNCHANGED Auth!vars
  <2>1. Submit(r, d) /\ UNCHANGED authVars
    BY <1>6 DEF Enter
  <2>2. UNCHANGED balance
    BY <2>1 DEF Submit
  <2> QED BY <1>5, <2>1, <2>2 DEF Next
<1>7. ASSUME NEW r \in Requests, WalletStep(r) \/ WalletAbort(r)
      PROVE  Next /\ UNCHANGED Auth!vars
  BY <1>5, <1>7 DEF WalletStep, WalletAbort, Next
<1>8. ASSUME NEW S \in SUBSET Requests, NEW T \in SUBSET AuthCalls,
             CrashBoth(S, T)
      PROVE  [Next]_vars /\ [Auth!Next]_Auth!vars
  <2>1. [Next]_vars /\ UNCHANGED balance
    BY <1>8 DEF CrashBoth, Crash, Next, vars
  <2>2. CASE T # {}
    BY <1>8, <2>1, <2>2 DEF CrashBoth, Auth!Next
  <2>3. CASE T = {}
    BY <1>5, <1>8, <2>1, <2>3 DEF CrashBoth
  <2> QED BY <2>1, <2>2, <2>3
<1>9. ASSUME UNCHANGED allVars
      PROVE  UNCHANGED vars /\ UNCHANGED Auth!vars
  <2>1. UNCHANGED vars /\ UNCHANGED authVars /\ UNCHANGED balance
    BY <1>9 DEF allVars, vars
  <2> QED BY <1>5, <2>1
<1> QED
  BY <1>1, <1>2, <1>3, <1>4, <1>6, <1>7, <1>8, <1>9
     DEF ExchangeNext, AllEnded

-----------------------------------------------------------------------------
(* What joins the parts is invariant.                                      *)

LEMMA EInvInit == ExchangeInit => EInv
<1> SUFFICES ASSUME ExchangeInit PROVE EInv
  OBVIOUS
<1>1. Init /\ AuthP!Init
  BY OpeningPart
<1>2. IInv /\ AuthP!IInv
  BY <1>1, LemmaInit, AuthConstants, AuthP!InitInv
<1>3. \A r \in Requests : pc[r] = "idle"
  BY <1>1 DEF Init
<1>4. ledger = {}
  BY <1>1 DEF Init
<1> QED
  BY <1>2, <1>3, <1>4
     DEF EInv, FoundWallets, OnlyVerified, InTransaction

(* Whoever is verified stays verified. *)
LEMMA VerifiedStay ==
    ASSUME AuthP!IInv, [Auth!Next]_Auth!vars
    PROVE  \A x : VerifiedIn(users, x) => VerifiedIn(users', x)
<1>1. \A u \in users : \E v \in users' :
        v.id = u.id /\ v.email = u.email /\ (u.verified => v.verified)
  BY SameNext, AuthConstants, AuthP!AccountsStay
<1> QED BY <1>1 DEF VerifiedIn

(* What a step of the application does to the state of WalletsService.     *)
LEMMA WalletPart ==
    ASSUME EInv, [ExchangeNext]_allVars
    PROVE  \/ UNCHANGED vars
           \/ \E c \in AuthCalls : CommitRegistration(c)
           \/ \E r \in Requests, d \in Offers : MayEnter(d.user) /\ Submit(r, d)
           \/ \E r \in Requests : Step(r) \/ Abort(r)
           \/ \E S \in SUBSET Requests : Crash(S)
BY DEF ExchangeNext, AuthStart, AuthStep, AuthAbort, CodeExpires, Enter,
       WalletStep, WalletAbort, CrashBoth, AllEnded, allVars

LEMMA EInvNext == EInv /\ [ExchangeNext]_allVars => EInv'
<1> SUFFICES ASSUME EInv, [ExchangeNext]_allVars PROVE EInv'
  OBVIOUS
<1>1. [Next]_vars /\ [Auth!Next]_Auth!vars
  BY NextParts
<1>2. IInv /\ AuthP!IInv /\ IInv' /\ AuthP!IInv'
  <2>1. IInv'
    BY <1>1, LemmaNext DEF EInv
  <2>2. AuthP!IInv'
    BY <1>1, SameNext, AuthConstants, AuthP!NextInv DEF EInv
  <2> QED BY <2>1, <2>2 DEF EInv
<1>3. \A x : VerifiedIn(users, x) => VerifiedIn(users', x)
  BY <1>1, <1>2, VerifiedStay
<1> DEFINE Past == FoundWallets /\ OnlyVerified
<1>4. Past /\ pc \in [Requests -> {"idle", "respond"} \cup Outside
                                    \cup InTransaction \cup Ended]
  BY DEF EInv, IInv, TypeOK
<1>5. \A r \in Requests : pc[r] # "idle" => dto[r] \in Offers /\ dto[r].user \in Users
  BY <1>2, OfferType DEF IInv, RequestOK
<1>6. ASSUME UNCHANGED vars
      PROVE  Past'
  <2>1. balance' = balance /\ ledger' = ledger /\ pc' = pc /\ dto' = dto
    BY <1>6 DEF vars
  <2>2. FoundWallets'
    BY <1>4, <2>1 DEF FoundWallets, HasWallet
  <2>3. OnlyVerified'
    BY <1>3, <1>4, <2>1 DEF OnlyVerified
  <2> QED BY <2>2, <2>3
<1>7. ASSUME NEW c \in AuthCalls, CommitRegistration(c)
      PROVE  Past'
  <2>1. /\ pc' = pc /\ dto' = dto /\ ledger' = ledger
        /\ \A v \in Users : HasWallet(v) => HasWallet(v)'
    BY <1>2, <1>7, OpensForUser, OpensWallet DEF CreateWallet
  <2> QED
    BY <1>3, <1>4, <1>5, <2>1
       DEF FoundWallets, OnlyVerified, InTransaction
<1>8. ASSUME NEW r \in Requests, NEW d \in Offers, MayEnter(d.user), Submit(r, d)
      PROVE  Past'
  <2>1. VerifiedIn(users, d.user)
    BY <1>8 DEF MayEnter, VerifiedIn
  <2>2. /\ pc'[r] \in Outside /\ dto'[r] = d
        /\ \A s \in Requests \ {r} : pc'[s] = pc[s] /\ dto'[s] = dto[s]
        /\ balance' = balance /\ ledger' = ledger
    BY <1>2, <1>4, <1>8 DEF Submit, Goto, Outside, IInv, TypeOK
  <2>3. FoundWallets'
    BY <1>4, <2>2 DEF FoundWallets, HasWallet, Outside, InTransaction
  <2>4. OnlyVerified'
    BY <1>3, <1>4, <2>1, <2>2 DEF OnlyVerified
  <2> QED BY <2>3, <2>4
<1>9. ASSUME NEW r \in Requests, Step(r) \/ Abort(r)
      PROVE  Past'
  <2>1. /\ pc[r] \notin {"idle"} \cup Ended /\ dto' = dto
        /\ \A t \in Requests \ {r} : pc'[t] = pc[t]
        /\ UNCHANGED tables \/ (pc[r] = "commit" /\ Apply(r))
        /\ pc'[r] \in InTransaction =>
             pc[r] \in InTransaction \/ HasWallet(dto[r].user)
    BY <1>2, <1>9, StepFacts
  <2>2. \A u \in Users : HasWallet(u)' <=> HasWallet(u)
    BY <1>2, <1>4, <1>9, OwnersStay
  <2>3. FoundWallets'
    BY <1>4, <1>5, <2>1, <2>2 DEF FoundWallets, InTransaction
  <2>4. \A e \in ledger' : e \in ledger \/ e.user = dto[r].user
    BY <2>1 DEF Apply, Posting, tables
  <2>5. OnlyVerified'
    <3>1. \A s \in Requests : pc'[s] # "idle" => VerifiedIn(users', dto'[s].user)
      BY <1>3, <1>4, <2>1 DEF OnlyVerified
    <3>2. \A e \in ledger' : VerifiedIn(users', e.user)
      BY <1>3, <1>4, <2>1, <2>4 DEF OnlyVerified
    <3> QED BY <3>1, <3>2 DEF OnlyVerified
  <2> QED BY <2>3, <2>5
<1>10. ASSUME NEW S \in SUBSET Requests, Crash(S)
       PROVE  Past'
  <2>1. /\ dto' = dto /\ ledger' = ledger /\ balance' = balance
        /\ \A s \in Requests : pc'[s] = pc[s] \/ (pc'[s] = "lost" /\ pc[s] # "idle")
    BY <1>10 DEF Crash
  <2>2. FoundWallets'
    BY <1>4, <2>1 DEF FoundWallets, HasWallet, InTransaction
  <2>3. OnlyVerified'
    BY <1>3, <1>4, <2>1 DEF OnlyVerified
  <2> QED BY <2>2, <2>3
<1>11. Past'
  <2>1. \/ UNCHANGED vars
        \/ \E c \in AuthCalls : CommitRegistration(c)
        \/ \E r \in Requests, d \in Offers : MayEnter(d.user) /\ Submit(r, d)
        \/ \E r \in Requests : Step(r) \/ Abort(r)
        \/ \E S \in SUBSET Requests : Crash(S)
    BY WalletPart
  <2> HIDE DEF Past
  <2> QED BY <2>1, <1>6, <1>7, <1>8, <1>9, <1>10
<1> QED BY <1>2, <1>11 DEF EInv

(* Holds of every reachable state of the application, whatever the calls,   *)
(* requests, crashes and accounts.                                         *)
THEOREM Joined == ExchangeSpec => []EInv
BY EInvInit, EInvNext, PTL DEF ExchangeSpec

(* The application is a WalletsService and an AuthService: over one         *)
(* database and one pool, every behaviour of it is one of each part, with   *)
(* the wallets that the balance table shows as the wallets of AuthService.  *)
THEOREM Composition == ExchangeSpec => Spec /\ Auth!Spec
<1>1. ExchangeInit => Init /\ Auth!Init
  BY OpeningPart
<1>2. EInv /\ [ExchangeNext]_allVars => [Next]_vars /\ [Auth!Next]_Auth!vars
  BY NextParts
<1> QED BY <1>1, <1>2, Joined, PTL DEF ExchangeSpec, Spec, Auth!Spec

(* Money moves only for users whose address was verified, although the      *)
(* guard reads a copy of the row and the token outlives it.                *)
THEOREM VerifiedUsersTrade == ExchangeSpec => []OnlyVerifiedUsersTrade
<1>1. EInv => OnlyVerifiedUsersTrade
  BY DEF EInv, OnlyVerified, VerifiedIn, OnlyVerifiedUsersTrade
<1> QED BY <1>1, Joined, PTL

-----------------------------------------------------------------------------
(* Nobody who is let in misses a wallet.                                   *)

LEMMA ReadyInit == CompleteOpening /\ ExchangeInit => Ready
<1> SUFFICES ASSUME CompleteOpening, ExchangeInit PROVE Ready
  OBVIOUS
<1>1. balance = Opening /\ \A r \in Requests : pc[r] = "idle"
  BY DEF ExchangeInit, Init
<1>2. CompleteWallets
  BY <1>1 DEF CompleteOpening, CompleteWallets, HasWallet
<1> QED BY <1>1, <1>2 DEF Ready, WalletsAreReady

(* A verified user has a wallet. *)
LEMMA VerifiedHaveWallets ==
    ASSUME AuthP!IInv, NEW x, VerifiedIn(users, x)
    PROVE  HasWallet(x)
<1>1. PICK u \in users : u.email = x
  BY DEF VerifiedIn
<1>2. u.id \in WalletOwners
  BY <1>1 DEF AuthP!IInv, AuthP!AccountsHaveWallets
<1>3. PICK v \in users : v.id = u.id /\ HasWallet(v.email)
  BY <1>2 DEF WalletOwners
<1>4. v = u
  BY <1>3 DEF AuthP!IInv, AuthP!TablesOK
<1> QED BY <1>1, <1>3, <1>4

LEMMA CompleteStep ==
    ASSUME EInv, CompleteWallets, [ExchangeNext]_allVars
    PROVE  CompleteWallets'
<1>1. IInv /\ AuthP!IInv /\ FoundWallets
  BY DEF EInv
<1>2. CASE UNCHANGED balance \/ \E s \in Requests : Step(s) \/ Abort(s)
  <2>1. /\ \A row \in Rows : balance[row] # None => balance'[row] # None
        /\ \A u \in Users : HasWallet(u)' <=> HasWallet(u)
    BY <1>1, <1>2, OwnersStay
  <2> QED BY <2>1, ConstantsOK DEF CompleteWallets, Rows
<1>3. ASSUME NEW c \in AuthCalls, CommitRegistration(c)
      PROVE  CompleteWallets'
  <2>1. PICK u \in Users : CreateWallet(u)
    BY <1>1, <1>3, OpensForUser
  <2>2. /\ \A row \in Rows : balance[row] # None => balance'[row] # None
        /\ \A v \in Users \ {u} : HasWallet(v)' <=> HasWallet(v)
        /\ \A d \in Supported : balance'[<<u, d>>] = 0
    BY <1>1, <2>1, OpensWallet
  <2> QED BY <2>2, ConstantsOK, NoneIsNoValue DEF CompleteWallets, Rows
<1>4. \/ UNCHANGED balance
      \/ \E c \in AuthCalls : CommitRegistration(c)
      \/ \E s \in Requests : Step(s) \/ Abort(s)
  BY WalletPart DEF vars, Submit, Crash
<1> QED BY <1>2, <1>3, <1>4

LEMMA ReadyStep ==
    ASSUME EInv, Ready, [ExchangeNext]_allVars
    PROVE  WalletsAreReady'
<1>1. /\ IInv /\ AuthP!IInv /\ CompleteWallets
      /\ \A r \in Requests : pc[r] # "idle" => VerifiedIn(users, dto[r].user)
  BY DEF EInv, Ready, OnlyVerified
<1>2. \A r \in Requests : pc[r] = "done" /\ dto[r].to \in Supported
                            => reply[r].code # "NotFound"
  BY DEF Ready, WalletsAreReady
<1>3. CASE UNCHANGED <<pc, dto, reply>>
  BY <1>2, <1>3 DEF WalletsAreReady
<1>4. ASSUME NEW r \in Requests, NEW d \in Offers, Submit(r, d)
      PROVE  WalletsAreReady'
  <2>1. /\ pc'[r] # "done" /\ reply' = reply
        /\ \A s \in Requests \ {r} : pc'[s] = pc[s] /\ dto'[s] = dto[s]
    BY <1>1, <1>4 DEF Submit, Goto, IInv, TypeOK
  <2> QED BY <1>2, <2>1 DEF WalletsAreReady
<1>5. ASSUME NEW r \in Requests, Step(r) \/ Abort(r)
      PROVE  WalletsAreReady'
  <2>1. /\ pc[r] \notin {"idle"} \cup Ended /\ dto' = dto
        /\ \A s \in Requests \ {r} : pc'[s] = pc[s] /\ reply'[s] = reply[s]
        /\ pc'[r] = "done" /\ reply'[r].code = "NotFound" =>
             \/ ~ HasWallet(dto[r].user)
             \/ balance[ToRow(dto[r])] = None
    BY <1>1, <1>5, StepFacts
  <2>2. HasWallet(dto[r].user) /\ dto[r].user \in Users
    BY <1>1, <2>1, VerifiedHaveWallets, OfferType DEF IInv, RequestOK
  <2>3. dto[r].to \in Supported => balance[ToRow(dto[r])] # None
    BY <1>1, <2>2 DEF CompleteWallets, ToRow
  <2> QED BY <1>2, <2>1, <2>2, <2>3 DEF WalletsAreReady
<1>6. ASSUME NEW S \in SUBSET Requests, Crash(S)
      PROVE  WalletsAreReady'
  <2>1. /\ dto' = dto /\ reply' = reply
        /\ \A s \in Requests : pc'[s] = pc[s] \/ pc'[s] = "lost"
    BY <1>6 DEF Crash
  <2> QED BY <1>2, <2>1 DEF WalletsAreReady
<1>7. \/ UNCHANGED <<pc, dto, reply>>
      \/ \E r \in Requests, d \in Offers : Submit(r, d)
      \/ \E r \in Requests : Step(r) \/ Abort(r)
      \/ \E S \in SUBSET Requests : Crash(S)
  <2>1. \A c \in AuthCalls : CommitRegistration(c) => UNCHANGED <<pc, dto, reply>>
    BY DEF CommitRegistration, CreateWallet
  <2> QED BY <2>1, WalletPart DEF vars
<1> QED BY <1>3, <1>4, <1>5, <1>6, <1>7

(* Whoever gets as far as a wallet handler finds a wallet with a row for    *)
(* every supported currency: no crash, failed commit or race between        *)
(* registering and trading leaves an admitted user without one.  Accounts   *)
(* of the start must have got theirs when the same currencies were          *)
(* supported.                                                              *)
THEOREM ReadyWallets ==
    ASSUME CompleteOpening
    PROVE  ExchangeSpec => []WalletsAreReady
<1>1. ExchangeInit => Ready
  BY CompleteOpening, ReadyInit
<1>2. EInv /\ Ready /\ [ExchangeNext]_allVars => Ready'
  BY CompleteStep, ReadyStep DEF Ready
<1>3. Ready => WalletsAreReady
  BY DEF Ready
<1> QED BY <1>1, <1>2, <1>3, Joined, PTL DEF ExchangeSpec
=============================================================================
