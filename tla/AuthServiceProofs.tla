-------------------------- MODULE AuthServiceProofs --------------------------
(***************************************************************************)
(* Proofs about AuthService, for every set of calls, addresses and codes,   *)
(* every table of accounts at the start and every spelling of addresses.   *)
(*                                                                         *)
(* The inductive invariant IInv says of each call what it has established   *)
(* by the time it gets somewhere (CallOK), and of the tables what the       *)
(* unique keys and the order of the handlers' steps make of them.          *)
(***************************************************************************)
EXTENDS AuthService, TLAPS

Registering == {"begin"} \cup InTransaction

(* The labels a registration can be at when its row is there. *)
Registered == {"mail", "done", "lost"}

(* What a call has been checked for by the time it gets somewhere. *)
RequestOK(c) ==
    /\ pc[c] # "idle" => dto[c] \in Offers
    /\ pc[c] \in {"idle", "lookup"} => code[c] = None /\ found[c] = None
    /\ pc[c] \in Registering =>
         dto[c].kind = "register" /\ code[c] \in Otps
    /\ pc[c] = "update" =>
         /\ dto[c].kind \in {"verify", "resend"}
         /\ found[c] # None
         /\ dto[c].kind = "resend" => code[c] \in Otps
    /\ pc[c] = "mail" =>
         dto[c].kind \in {"register", "resend"} /\ code[c] \in Otps
    /\ pc[c] = "compare" => dto[c].kind = "login" /\ found[c] # None

(* The row a call has read is still there, and as verified as it was.      *)
FoundOK(c) ==
    found[c] # None =>
        \E u \in users :
            /\ u.id = found[c].id /\ u.email = Email(c)
            /\ found[c].verified => u.verified

(* Whoever asks with a token has an account that it was issued to. *)
AccessOK(c) ==
    pc[c] = "lookup" /\ dto[c].kind = "access" =>
        \E u \in users : u.email = Email(c) /\ u.id \in tokens

(* A row is there if, and only if, its registration got as far. *)
RowOK(c) ==
    /\ \A u \in users : u.id = c =>
         /\ pc[c] \in Registered
         /\ dto[c].kind = "register" /\ u.email = Email(c)
    /\ pc[c] = "mail" /\ dto[c].kind = "register" =>
         \E u \in users : u.id = c

(* AnswersAreTrue of one call. *)
AnswerOK(c) ==
    pc[c] = "done" =>
        LET mailed == [email |-> Email(c), otp |-> code[c]] \in mailbox
            mine == {u \in users : u.id = c}
            verified == \E u \in RowsOf(Email(c)) : u.verified
        IN CASE dto[c].kind = "register" ->
                  /\ reply[c] = "OK" => mine # {} /\ mailed
                  /\ reply[c] = "Conflict" => mine = {}
             [] dto[c].kind = "resend" ->
                  reply[c] = "OK" => mailed \/ code[c] = None
             [] OTHER -> reply[c] = "OK" => verified

CallOK(c) ==
    /\ RequestOK(c) /\ FoundOK(c) /\ AccessOK(c)
    /\ RowOK(c) /\ AnswerOK(c)

(* An address about to be committed is free, and nobody else's. *)
UniqueOK(c) ==
    pc[c] \in Inserted =>
        /\ \A u \in users : u.email # Email(c)
        /\ \A d \in Calls \ {c} : pc[d] \in Inserted => Email(d) # Email(c)

(* Primary key and unique index; tokens belong to verified accounts. *)
TablesOK ==
    /\ \A u, v \in users : u.id = v.id \/ u.email = v.email => u = v
    /\ \A u \in users : u.email \in Emails
    /\ \A t \in tokens : \E u \in users : u.id = t /\ u.verified

IInv ==
    /\ TypeOK
    /\ \A c \in Calls : CallOK(c)
    /\ \A c \in Calls : UniqueOK(c)
    /\ TablesOK
    /\ AccountsHaveWallets
    /\ StoredCodeIsDelivered

-----------------------------------------------------------------------------
(* Dtos and addresses.                                                     *)

LEMMA OfferType ==
    ASSUME NEW d \in Offers
    PROVE  /\ d.email \in Addresses
           /\ d.kind \in {"register", "login", "verify", "resend", "access"}
           /\ d.kind \in {"register", "login"} => d.password \in Passwords
           /\ d.kind = "verify" => d.otp \in Otps
           /\ d # None
BY ConstantsOK DEF Dtos, RegisterDtos, LoginDtos, VerifyDtos, ResendDtos, AccessDtos

LEMMA EmailType ==
    ASSUME NEW c \in Calls, dto[c] \in Offers
    PROVE  /\ Email(c) \in Addresses
           /\ Email(c) \in Emails
           /\ Normalised[Email(c)] = Email(c)
<1>1. dto[c].email \in Addresses
  BY OfferType
<1> QED BY <1>1, ConstantsOK DEF Email, Emails

-----------------------------------------------------------------------------
(* Types.                                                                  *)

LEMMA InitType == Init => TypeOK
<1> SUFFICES ASSUME Init PROVE TypeOK
  OBVIOUS
<1>1. users \subseteq UserRows
  BY OpeningsOK DEF Init
<1>2. wallets \subseteq Ids /\ tokens \subseteq Ids
  BY <1>1 DEF Init, UserRows
<1>3. mailbox \subseteq Mails
  BY <1>1 DEF Init, UserRows, Mails
<1> QED BY <1>1, <1>2, <1>3 DEF Init, TypeOK, Labels

(* What the records a call writes are. *)
LEMMA NewUserType ==
    ASSUME NEW c \in Calls, dto[c] \in Offers, dto[c].kind = "register",
           code[c] \in Otps
    PROVE  NewUser(c) \in UserRows
BY OfferType, EmailType DEF NewUser, UserRows, Ids

LEMMA UpdatedType ==
    ASSUME NEW c \in Calls, NEW u \in UserRows,
           dto[c].kind # "verify" => code[c] \in Otps
    PROVE  Updated(c, u) \in UserRows
BY DEF Updated, UserRows

LEMMA RefusalType ==
    ASSUME NEW u \in UserRows, NEW otp
    PROVE  Refusal(u, otp) \in Codes \cup {None}
BY DEF Refusal, Codes

LEMMA NextType ==
    ASSUME TypeOK, \A c \in Calls : RequestOK(c), [Next]_vars
    PROVE  TypeOK'
<1> USE DEF TypeOK, Goto, Answer, Labels, Ended,
         InTransaction, Inserted, Codes, tables, locals
<1>1. ASSUME NEW c \in Calls, NEW d \in Offers, Submit(c, d) PROVE TypeOK'
  BY <1>1 DEF Submit
<1>2. ASSUME NEW c \in Calls, RegisterLookup(c) PROVE TypeOK'
  BY <1>2 DEF RegisterLookup, Draw
<1>3. ASSUME NEW c \in Calls, Begin(c) \/ InsertUser(c) PROVE TypeOK'
  BY <1>3 DEF Begin, InsertUser
<1>4. ASSUME NEW c \in Calls, InsertWallet(c) PROVE TypeOK'
  BY <1>4 DEF InsertWallet
<1>5. ASSUME NEW c \in Calls, Commit(c) PROVE TypeOK'
  <2>1. NewUser(c) \in UserRows
    BY <1>5, NewUserType DEF Commit, RequestOK, Registering
  <2> QED BY <1>5, <2>1 DEF Commit, Ids
<1>6. ASSUME NEW c \in Calls, SendMail(c) PROVE TypeOK'
  <2>1. [email |-> Email(c), otp |-> code[c]] \in Mails
    BY <1>6, EmailType DEF SendMail, RequestOK, Mails
  <2> QED BY <1>6, <2>1 DEF SendMail
<1>7. ASSUME NEW c \in Calls, VerifyLookup(c) PROVE TypeOK'
  <2>1. \A u \in users : Refusal(u, dto[c].otp) \in Codes \cup {None}
    BY RefusalType
  <2> QED BY <1>7, <2>1 DEF VerifyLookup, RowsOf
<1>8. ASSUME NEW c \in Calls, ResendLookup(c) PROVE TypeOK'
  BY <1>8 DEF ResendLookup, RowsOf, Draw
<1>9. ASSUME NEW c \in Calls, UpdateUser(c) PROVE TypeOK'
  <2>1. \A u \in users : Updated(c, u) \in UserRows
    BY <1>9, UpdatedType DEF UpdateUser, RequestOK
  <2>2. users' \subseteq UserRows
    BY <1>9, <2>1 DEF UpdateUser
  <2> QED BY <1>9, <2>2 DEF UpdateUser
<1>10. ASSUME NEW c \in Calls, LoginLookup(c) PROVE TypeOK'
  BY <1>10 DEF LoginLookup, RowsOf
<1>11. ASSUME NEW c \in Calls, ComparePassword(c) PROVE TypeOK'
  <2>1. found[c].id \in Ids
    BY <1>11 DEF ComparePassword, RequestOK, UserRows
  <2> QED BY <1>11, <2>1 DEF ComparePassword
<1>12. ASSUME NEW c \in Calls, ValidateToken(c) PROVE TypeOK'
  BY <1>12 DEF ValidateToken
<1>13. ASSUME NEW c \in Calls, Abort(c) PROVE TypeOK'
  BY <1>13 DEF Abort
<1>14. ASSUME NEW S \in SUBSET Calls, Crash(S) PROVE TypeOK'
  BY <1>14 DEF Crash
<1>15. ASSUME NEW u \in users, OtpExpires(u) PROVE TypeOK'
  <2>1. [u EXCEPT !.valid = FALSE] \in UserRows
    BY DEF UserRows
  <2> QED BY <1>15, <2>1 DEF OtpExpires
<1>16. CASE UNCHANGED vars
  BY <1>16 DEF vars
<1> QED
  BY <1>1, <1>2, <1>3, <1>4, <1>5, <1>6, <1>7, <1>8, <1>9, <1>10, <1>11,
     <1>12, <1>13, <1>14, <1>15, <1>16 DEF Next, Step, Terminating

-----------------------------------------------------------------------------
(* Initial states.                                                         *)

LEMMA InitInv == Init => IInv
<1> SUFFICES ASSUME Init PROVE IInv
  OBVIOUS
<1>1. TypeOK
  BY InitType
<1>2. ASSUME NEW c \in Calls
      PROVE  CallOK(c) /\ UniqueOK(c)
  <2>1. \A u \in users : u.id # c
    BY OpeningsOK, ConstantsOK DEF Init
  <2> QED
    BY <2>1 DEF Init, CallOK, UniqueOK, RequestOK, FoundOK, AccessOK, RowOK,
                AnswerOK, Registering, InTransaction, Inserted
<1>3. TablesOK
  BY OpeningsOK DEF Init, TablesOK
<1>4. AccountsHaveWallets
  BY DEF Init, AccountsHaveWallets
<1>5. StoredCodeIsDelivered
  BY OpeningsOK DEF Init, StoredCodeIsDelivered
<1> QED BY <1>1, <1>2, <1>3, <1>4, <1>5 DEF IInv

-----------------------------------------------------------------------------
(* What a step leaves to the calls that do not move.                       *)

Still(d) ==
    /\ pc'[d] = pc[d] /\ dto'[d] = dto[d] /\ found'[d] = found[d]
    /\ code'[d] = code[d] /\ reply'[d] = reply[d]

(* Only call c moves. *)
Local(c) == \A d \in Calls \ {c} : Still(d)

(* No row, mail or token is lost; no row changes hands or is unverified     *)
(* again; and the rows added are those of the calls in S.                  *)
Grows(S) ==
    /\ mailbox \subseteq mailbox'
    /\ tokens \subseteq tokens'
    /\ \A u \in users : \E v \in users' :
         v.id = u.id /\ v.email = u.email /\ (u.verified => v.verified)
    /\ \A v \in users' :
         v.id \in S \/ \E u \in users : u.id = v.id /\ u.email = v.email

LEMMA LemmaStill ==
    ASSUME IInv, NEW d \in Calls, Still(d), NEW S, Grows(S), d \notin S
    PROVE  CallOK(d)'
<1>1. /\ pc'[d] = pc[d] /\ dto'[d] = dto[d] /\ found'[d] = found[d]
      /\ code'[d] = code[d] /\ reply'[d] = reply[d]
      /\ Email(d)' = Email(d)
  BY DEF Still, Email
<1>2. CallOK(d)
  BY DEF IInv
<1>3. RequestOK(d)'
  BY <1>1, <1>2 DEF CallOK, RequestOK
<1>4. FoundOK(d)'
  BY <1>1, <1>2 DEF CallOK, FoundOK, Grows
<1>5. AccessOK(d)'
  BY <1>1, <1>2 DEF CallOK, AccessOK, Grows
<1>6. RowOK(d)'
  BY <1>1, <1>2 DEF CallOK, RowOK, Grows
<1>7. AnswerOK(d)'
  <2>1. {u \in users : u.id = d} # {} <=> {u \in users' : u.id = d} # {}
    BY DEF Grows
  <2>2. (\E u \in RowsOf(Email(d)) : u.verified)
          => (\E u \in RowsOf(Email(d)) : u.verified)'
    BY <1>1 DEF Grows, RowsOf
  <2> QED
    BY <1>1, <1>2, <2>1, <2>2 DEF CallOK, AnswerOK, Grows
<1> QED BY <1>3, <1>4, <1>5, <1>6, <1>7 DEF CallOK

LEMMA LemmaOthers ==
    ASSUME IInv, NEW c \in Calls, Local(c), Grows({c}), CallOK(c)'
    PROVE  \A d \in Calls : CallOK(d)'
BY LemmaStill DEF Local

(* No transaction is opened, and no address appears. *)
LEMMA LemmaUnique ==
    ASSUME IInv, NEW c \in Calls, Local(c),
           \A v \in users' : \E u \in users : u.email = v.email,
           pc'[c] \in Inserted => pc[c] \in Inserted /\ dto'[c] = dto[c]
    PROVE  \A d \in Calls : UniqueOK(d)'
<1> SUFFICES ASSUME NEW d \in Calls, pc'[d] \in Inserted
             PROVE  UniqueOK(d)'
  BY DEF UniqueOK
<1>1. \A e \in Calls : pc'[e] \in Inserted =>
        pc[e] \in Inserted /\ Email(e)' = Email(e)
  BY DEF Local, Still, Email
<1>2. UniqueOK(d)
  BY DEF IInv
<1> QED BY <1>1, <1>2 DEF UniqueOK

(* Call c answers for the code it has stored, as far as anybody must. *)
Answers(c) ==
    /\ dto[c] # None
    /\ pc[c] \in {"mail", "lost"} \/ (pc[c] = "done" /\ reply[c] = "InternalError")

Mail(c) == [email |-> Email(c), otp |-> code[c]]

(* No code is stored, and c delivers or goes on answering for its own.     *)
LEMMA LemmaStored ==
    ASSUME IInv, NEW c \in Calls, Local(c), mailbox \subseteq mailbox',
           \A v \in users' : ~ v.verified =>
             \E u \in users : ~ u.verified /\ u.email = v.email /\ u.otp = v.otp,
           Answers(c) =>
             \/ Mail(c) \in mailbox'
             \/ Answers(c)' /\ dto'[c] = dto[c] /\ code'[c] = code[c]
    PROVE  StoredCodeIsDelivered'
<1> SUFFICES ASSUME NEW v \in users', ~ v.verified,
                    [email |-> v.email, otp |-> v.otp] \notin mailbox'
             PROVE  \E d \in Calls :
                      /\ dto'[d] # None /\ Email(d)' = v.email
                      /\ code'[d] = v.otp
                      /\ \/ pc'[d] \in {"mail", "lost"}
                         \/ pc'[d] = "done" /\ reply'[d] = "InternalError"
  BY DEF StoredCodeIsDelivered
<1>1. PICK u \in users : ~ u.verified /\ u.email = v.email /\ u.otp = v.otp
  OBVIOUS
<1>2. PICK d \in Calls :
        Answers(d) /\ Email(d) = u.email /\ code[d] = u.otp
  BY <1>1 DEF IInv, StoredCodeIsDelivered, Answers
<1>3. CASE d = c
  <2>1. Mail(c) \notin mailbox'
    BY <1>1, <1>2, <1>3 DEF Mail
  <2> QED BY <1>1, <1>2, <1>3, <2>1 DEF Answers, Email
<1>4. CASE d # c
  BY <1>1, <1>2, <1>4 DEF Answers, Local, Still, Email
<1> QED BY <1>3, <1>4

(* A step of c that leaves users and wallets alone. *)
LEMMA LemmaLocal ==
    ASSUME IInv, NEW c \in Calls, Local(c), TypeOK', CallOK(c)',
           UNCHANGED tables, mailbox \subseteq mailbox', tokens \subseteq tokens',
           \A t \in tokens' : \E u \in users : u.id = t /\ u.verified,
           pc'[c] \in Inserted => pc[c] \in Inserted /\ dto'[c] = dto[c],
           Answers(c) =>
             \/ Mail(c) \in mailbox'
             \/ Answers(c)' /\ dto'[c] = dto[c] /\ code'[c] = code[c]
    PROVE  IInv'
<1>1. users' = users /\ wallets' = wallets
  BY DEF tables
<1>2. \A d \in Calls : CallOK(d)'
  BY <1>1, LemmaOthers DEF Grows
<1>3. \A d \in Calls : UniqueOK(d)'
  BY <1>1, LemmaUnique
<1>4. TablesOK' /\ AccountsHaveWallets'
  BY <1>1 DEF IInv, TablesOK, AccountsHaveWallets
<1>5. StoredCodeIsDelivered'
  BY <1>1, LemmaStored
<1> QED BY <1>2, <1>3, <1>4, <1>5 DEF IInv

-----------------------------------------------------------------------------
(* The steps.                                                              *)

LEMMA SubmitInv ==
    ASSUME IInv, NEW c \in Calls, NEW d \in Offers, Submit(c, d)
    PROVE  IInv'
<1> USE DEF Submit, Goto, tables
<1>1. TypeOK'
  BY NextType DEF IInv, CallOK, Next
<1>2. /\ pc[c] = "idle" /\ pc'[c] = "lookup" /\ dto'[c] = d
      /\ found'[c] = None /\ code'[c] = None
      /\ d # None /\ Local(c)
  BY OfferType DEF IInv, TypeOK, CallOK, RequestOK, Local, Still
<1>3. \A u \in users : u.id # c
  BY <1>2 DEF IInv, CallOK, RowOK, Registered
<1>4. CallOK(c)'
  BY <1>2, <1>3
     DEF CallOK, RequestOK, Registering, InTransaction, Inserted, FoundOK,
       AccessOK, RowOK, AnswerOK, Email, RowsOf
<1> QED
  BY <1>1, <1>2, <1>4, LemmaLocal
     DEF IInv, TablesOK, InTransaction, Inserted, Answers

LEMMA RegisterLookupInv ==
    ASSUME IInv, NEW c \in Calls, RegisterLookup(c)
    PROVE  IInv'
<1> USE DEF RegisterLookup, Goto, Answer, tables
<1>1. TypeOK'
  BY NextType DEF IInv, CallOK, Next, Step
<1>2. /\ pc[c] = "lookup" /\ dto[c].kind = "register" /\ dto[c] \in Offers
      /\ found[c] = None
      /\ Local(c)
  BY DEF IInv, TypeOK, CallOK, RequestOK, Local, Still, Draw
<1>3. \/ pc'[c] = "done" /\ reply'[c] = "Conflict"
      \/ pc'[c] = "begin" /\ code'[c] \in Otps
  BY DEF IInv, TypeOK, Draw
<1>4. \A u \in users : u.id # c
  BY <1>2 DEF IInv, CallOK, RowOK, Registered
<1>5. CallOK(c)'
  BY <1>2, <1>3, <1>4
     DEF CallOK, RequestOK, Registering, InTransaction, Inserted, FoundOK,
       AccessOK, RowOK, AnswerOK, Email, RowsOf
<1> QED
  BY <1>1, <1>2, <1>3, <1>5, LemmaLocal
     DEF IInv, TablesOK, InTransaction, Inserted, Answers

LEMMA BeginInv ==
    ASSUME IInv, NEW c \in Calls, Begin(c)
    PROVE  IInv'
<1> USE DEF Begin, Goto, tables, locals
<1>1. TypeOK'
  BY NextType DEF IInv, CallOK, Next, Step
<1>2. /\ pc[c] = "begin" /\ pc'[c] = "insert" /\ Local(c)
  BY DEF IInv, TypeOK, Local, Still
<1>3. CallOK(c)'
  BY <1>2 DEF IInv, CallOK, RequestOK, Registering, Registered, InTransaction,
       Inserted, FoundOK, AccessOK, RowOK, AnswerOK, Email
<1> QED
  BY <1>1, <1>2, <1>3, LemmaLocal
     DEF IInv, TablesOK, InTransaction, Inserted, Answers

LEMMA InsertWalletInv ==
    ASSUME IInv, NEW c \in Calls, InsertWallet(c)
    PROVE  IInv'
<1> USE DEF InsertWallet, Goto, tables, locals
<1>1. TypeOK'
  BY NextType DEF IInv, CallOK, Next, Step
<1>2. /\ pc[c] = "wallet" /\ pc'[c] = "commit" /\ Local(c)
  BY DEF IInv, TypeOK, Local, Still
<1>3. CallOK(c)'
  BY <1>2
     DEF IInv, CallOK, RequestOK, Registering, Registered,
         InTransaction, Inserted,
       FoundOK, AccessOK, RowOK, AnswerOK, Email
<1> QED
  BY <1>1, <1>2, <1>3, LemmaLocal
     DEF IInv, TablesOK, InTransaction, Inserted, Answers

LEMMA SendMailInv ==
    ASSUME IInv, NEW c \in Calls, SendMail(c)
    PROVE  IInv'
<1> USE DEF SendMail, Goto, Answer, tables, locals
<1>1. TypeOK'
  BY NextType DEF IInv, CallOK, Next, Step
<1>2. /\ pc[c] = "mail" /\ pc'[c] = "done" /\ Local(c)
      /\ dto[c].kind \in {"register", "resend"}
  BY DEF IInv, TypeOK, Local, Still, CallOK, RequestOK
<1>3. \/ Mail(c) \in mailbox' /\ reply'[c] \in {"OK", "InternalError"}
      \/ reply'[c] = "InternalError"
  BY DEF IInv, TypeOK, Mail
<1>4. dto[c].kind = "register" => \E u \in users : u.id = c
  BY <1>2 DEF IInv, CallOK, RowOK
<1>5. AnswerOK(c)'
  BY <1>2, <1>3, <1>4 DEF AnswerOK, Mail, Email
<1>6. CallOK(c)'
  BY <1>2, <1>5 DEF IInv, CallOK, RequestOK, Registering, Registered,
       InTransaction, Inserted, FoundOK, AccessOK, RowOK, Email
<1> QED
  BY <1>1, <1>2, <1>3, <1>6, LemmaLocal
     DEF IInv, TablesOK, InTransaction, Inserted, Answers

LEMMA VerifyLookupInv ==
    ASSUME IInv, NEW c \in Calls, VerifyLookup(c)
    PROVE  IInv'
<1> USE DEF VerifyLookup, Goto, Answer, tables
<1>1. TypeOK'
  BY NextType DEF IInv, CallOK, Next, Step
<1>2. /\ pc[c] = "lookup" /\ dto[c].kind = "verify" /\ dto[c] \in Offers
      /\ found[c] = None /\ Local(c)
      /\ dto'[c] = dto[c] /\ Email(c)' = Email(c)
  BY DEF IInv, TypeOK, Local, Still, CallOK, RequestOK, Email
<1>3. \/ /\ pc'[c] = "done" /\ found'[c] = None
         /\ reply'[c] \in {"Unauthorized", "BadRequest"}
      \/ /\ pc'[c] = "update"
         /\ \E u \in RowsOf(Email(c)) : found'[c] = u
  BY <1>2 DEF IInv, TypeOK, Refusal
<1>4. \A u \in users : u.id # c /\ u # None
  BY <1>2, ConstantsOK DEF IInv, CallOK, RowOK, Registered, TypeOK
<1>5. CallOK(c)'
  BY <1>2, <1>3, <1>4
     DEF CallOK, RequestOK, Registering, InTransaction, Inserted, FoundOK,
       AccessOK, RowOK, AnswerOK, RowsOf
<1> QED
  BY <1>1, <1>2, <1>3, <1>5, LemmaLocal
     DEF IInv, TablesOK, InTransaction, Inserted, Answers

LEMMA ResendLookupInv ==
    ASSUME IInv, NEW c \in Calls, ResendLookup(c)
    PROVE  IInv'
<1> USE DEF ResendLookup, Goto, Answer, tables
<1>1. TypeOK'
  BY NextType DEF IInv, CallOK, Next, Step
<1>2. /\ pc[c] = "lookup" /\ dto[c].kind = "resend" /\ dto[c] \in Offers
      /\ found[c] = None /\ code[c] = None /\ Local(c)
      /\ dto'[c] = dto[c] /\ Email(c)' = Email(c)
  BY DEF IInv, TypeOK, Local, Still, CallOK, RequestOK, Email, Draw
<1>3. \/ /\ pc'[c] = "done" /\ found'[c] = None /\ code'[c] = None
      \/ /\ pc'[c] = "update" /\ code'[c] \in Otps
         /\ \E u \in RowsOf(Email(c)) : found'[c] = u
  BY <1>2 DEF IInv, TypeOK, Draw
<1>4. \A u \in users : u.id # c /\ u # None
  BY <1>2, ConstantsOK DEF IInv, CallOK, RowOK, Registered, TypeOK
<1>5. CallOK(c)'
  BY <1>2, <1>3, <1>4
     DEF CallOK, RequestOK, Registering, InTransaction, Inserted, FoundOK,
       AccessOK, RowOK, AnswerOK, RowsOf
<1> QED
  BY <1>1, <1>2, <1>3, <1>5, LemmaLocal
     DEF IInv, TablesOK, InTransaction, Inserted, Answers

LEMMA LoginLookupInv ==
    ASSUME IInv, NEW c \in Calls, LoginLookup(c)
    PROVE  IInv'
<1> USE DEF LoginLookup, Goto, Answer, tables
<1>1. TypeOK'
  BY NextType DEF IInv, CallOK, Next, Step
<1>2. /\ pc[c] = "lookup" /\ dto[c].kind = "login" /\ dto[c] \in Offers
      /\ found[c] = None /\ Local(c)
      /\ dto'[c] = dto[c] /\ Email(c)' = Email(c)
  BY DEF IInv, TypeOK, Local, Still, CallOK, RequestOK, Email
<1>3. \/ /\ pc'[c] = "done" /\ found'[c] = None
         /\ reply'[c] = "Unauthorized"
      \/ /\ pc'[c] = "compare"
         /\ \E u \in RowsOf(Email(c)) : found'[c] = u
  BY <1>2 DEF IInv, TypeOK
<1>4. \A u \in users : u.id # c /\ u # None
  BY <1>2, ConstantsOK DEF IInv, CallOK, RowOK, Registered, TypeOK
<1>5. CallOK(c)'
  BY <1>2, <1>3, <1>4
     DEF CallOK, RequestOK, Registering, InTransaction, Inserted, FoundOK,
       AccessOK, RowOK, AnswerOK, RowsOf
<1> QED
  BY <1>1, <1>2, <1>3, <1>5, LemmaLocal
     DEF IInv, TablesOK, InTransaction, Inserted, Answers

LEMMA ComparePasswordInv ==
    ASSUME IInv, NEW c \in Calls, ComparePassword(c)
    PROVE  IInv'
<1> USE DEF ComparePassword, Goto, Answer, tables, locals
<1>1. TypeOK'
  BY NextType DEF IInv, CallOK, Next, Step
<1>2. /\ pc[c] = "compare" /\ dto[c].kind = "login" /\ found[c] # None
      /\ dto[c] \in Offers
      /\ pc'[c] = "done" /\ Local(c)
      /\ dto'[c] = dto[c] /\ found'[c] = found[c] /\ Email(c)' = Email(c)
  BY DEF IInv, TypeOK, Local, Still, CallOK, RequestOK, Email
<1>3. PICK v \in users :
        /\ v.id = found[c].id /\ v.email = Email(c)
        /\ found[c].verified => v.verified
  BY <1>2 DEF IInv, CallOK, FoundOK
<1>4. \/ tokens' = tokens /\ reply'[c] # "OK"
      \/ tokens' = tokens \cup {v.id} /\ v.verified
  BY <1>3 DEF IInv, TypeOK
<1>5. \A u \in users : u.id # c
  BY <1>2 DEF IInv, CallOK, RowOK, Registered
<1>6. CallOK(c)'
  BY <1>2, <1>3, <1>4, <1>5
     DEF CallOK, RequestOK, Registering, InTransaction, Inserted,
       FoundOK, AccessOK, RowOK, AnswerOK, RowsOf
<1>7. \A t \in tokens' : \E u \in users : u.id = t /\ u.verified
  BY <1>4 DEF IInv, TablesOK
<1> QED
  BY <1>1, <1>2, <1>4, <1>6, <1>7, LemmaLocal
     DEF InTransaction, Inserted, Answers

LEMMA ValidateTokenInv ==
    ASSUME IInv, NEW c \in Calls, ValidateToken(c)
    PROVE  IInv'
<1> USE DEF ValidateToken, Goto, Answer, tables, locals
<1>1. TypeOK'
  BY NextType DEF IInv, CallOK, Next, Step
<1>2. /\ pc[c] = "lookup" /\ dto[c].kind = "access" /\ dto[c] \in Offers
      /\ found[c] = None
      /\ pc'[c] = "done" /\ Local(c)
      /\ dto'[c] = dto[c] /\ found'[c] = found[c] /\ Email(c)' = Email(c)
  BY DEF IInv, TypeOK, Local, Still, CallOK, RequestOK, Email
<1>3. PICK u \in users : u.email = Email(c) /\ u.id \in tokens
  BY <1>2 DEF IInv, CallOK, AccessOK
<1>4. u.verified
  BY <1>3 DEF IInv, TablesOK
<1>5. reply'[c] = "OK"
  BY <1>3, <1>4 DEF IInv, TypeOK, RowsOf
<1>6. \A v \in users : v.id # c
  BY <1>2 DEF IInv, CallOK, RowOK, Registered
<1>7. CallOK(c)'
  BY <1>2, <1>3, <1>4, <1>5, <1>6
     DEF CallOK, RequestOK, Registering, InTransaction, Inserted,
       FoundOK, AccessOK, RowOK, AnswerOK, RowsOf
<1> QED
  BY <1>1, <1>2, <1>7, LemmaLocal
     DEF IInv, TablesOK, InTransaction, Inserted, Answers

LEMMA AbortInv ==
    ASSUME IInv, NEW c \in Calls, Abort(c)
    PROVE  IInv'
<1> USE DEF Abort, Goto, Answer, tables, locals
<1>1. TypeOK'
  BY NextType DEF IInv, CallOK, Next
<1>2. /\ pc[c] \notin Registered /\ dto[c] \in Offers
      /\ pc'[c] = "done" /\ reply'[c] = "InternalError" /\ Local(c)
      /\ dto'[c] = dto[c] /\ found'[c] = found[c] /\ Email(c)' = Email(c)
  BY
     DEF IInv, TypeOK, Local, Still, CallOK, RequestOK, Email, Registered,
         InTransaction, Inserted
<1>3. \A u \in users : u.id # c
  BY <1>2 DEF IInv, CallOK, RowOK
<1>4. AnswerOK(c)'
  BY <1>2 DEF AnswerOK
<1>5. CallOK(c)'
  BY <1>2, <1>3, <1>4
     DEF IInv, CallOK, RequestOK, Registering, InTransaction, Inserted,
       FoundOK, AccessOK, RowOK
<1>6. ~ Answers(c)
  BY <1>2 DEF Answers, Registered
<1> QED
  BY <1>1, <1>2, <1>5, <1>6, LemmaLocal
     DEF IInv, TablesOK, InTransaction, Inserted

LEMMA InsertUserInv ==
    ASSUME IInv, NEW c \in Calls, InsertUser(c)
    PROVE  IInv'
<1> USE DEF InsertUser, Goto, Answer, tables, locals
<1>1. TypeOK'
  BY NextType DEF IInv, CallOK, Next, Step
<1>2. /\ pc[c] = "insert" /\ dto[c].kind = "register"
      /\ Local(c)
      /\ \A d \in Calls : dto'[d] = dto[d] /\ Email(d)' = Email(d)
  BY DEF IInv, TypeOK, Local, Still, CallOK, RequestOK, Registering,
       InTransaction, Email
<1>3. \/ pc'[c] = "done" /\ reply'[c] = "Conflict"
      \/ pc'[c] = "wallet" /\ RowsOf(Email(c)) = {}
  BY DEF IInv, TypeOK
<1>4. \A u \in users : u.id # c
  BY <1>2 DEF IInv, CallOK, RowOK, Registered
<1>5. CallOK(c)'
  BY <1>2, <1>3, <1>4
     DEF IInv, CallOK, RequestOK, Registering, InTransaction, Inserted,
       FoundOK, AccessOK, RowOK, AnswerOK
<1>6. \A d \in Calls : CallOK(d)'
  BY <1>2, <1>5, LemmaOthers DEF Grows
<1>7. ASSUME NEW d \in Calls PROVE UniqueOK(d)'
  <2>1. CASE d = c
    BY <1>2, <1>3, <2>1
       DEF UniqueOK, RowsOf, Blocks, InTransaction, Inserted, Local, Still
  <2>2. CASE d # c
    <3>1. UniqueOK(d) /\ ~ Blocks(d, c)
      BY DEF IInv
    <3> QED
      BY <1>2, <2>2, <3>1 DEF UniqueOK, Blocks, Local, Still
  <2> QED BY <2>1, <2>2
<1>8. StoredCodeIsDelivered'
  BY <1>2, LemmaStored DEF Answers
<1> QED
  BY <1>1, <1>6, <1>7, <1>8 DEF IInv, TablesOK, AccountsHaveWallets

LEMMA CommitInv ==
    ASSUME IInv, NEW c \in Calls, Commit(c)
    PROVE  IInv'
<1> USE DEF Commit, Goto, Answer, tables, locals
<1>1. TypeOK'
  BY NextType DEF IInv, CallOK, Next, Step
<1>2. /\ pc[c] = "commit" /\ dto[c].kind = "register" /\ dto[c] \in Offers
      /\ code[c] \in Otps
      /\ Local(c)
      /\ \A d \in Calls : dto'[d] = dto[d] /\ Email(d)' = Email(d)
  BY DEF IInv, TypeOK, Local, Still, CallOK, RequestOK, Registering,
         InTransaction, Inserted, Email
<1>3. \/ pc'[c] = "mail"
      \/ pc'[c] = "done" /\ reply'[c] = "InternalError"
  BY DEF IInv, TypeOK
<1>4. \A u \in users : u.id # c
  BY <1>2 DEF IInv, CallOK, RowOK, Registered
<1>5. /\ NewUser(c).id = c /\ NewUser(c).email = Email(c)
      /\ NewUser(c).otp = code[c] /\ ~ NewUser(c).verified
  BY DEF NewUser
<1>6. CallOK(c)'
  <2>1. FoundOK(c)'
    BY <1>2 DEF IInv, CallOK, FoundOK
  <2> QED
    BY <1>2, <1>3, <1>4, <1>5, <2>1 DEF IInv, CallOK, RequestOK, Registering,
       Registered, InTransaction, Inserted, AccessOK, RowOK, AnswerOK
<1>7. \A d \in Calls : CallOK(d)'
  <2>1. Grows({c})
    BY <1>5 DEF Grows
  <2> QED BY <1>2, <1>6, <2>1, LemmaOthers
<1>8. \A u \in users : u.email # Email(c)
  BY <1>2 DEF IInv, UniqueOK, InTransaction, Inserted
<1>9. ASSUME NEW d \in Calls PROVE UniqueOK(d)'
  <2>1. CASE d = c
    BY <1>3, <2>1 DEF UniqueOK, InTransaction, Inserted
  <2>2. CASE d # c
    <3>1. UniqueOK(d)
      BY DEF IInv
    <3>2. pc[c] \in Inserted
      BY <1>2 DEF InTransaction, Inserted
    <3>3. pc'[c] \notin Inserted
      BY <1>3 DEF InTransaction, Inserted
    <3> QED
      BY <1>2, <1>5, <2>2, <3>1, <3>2, <3>3 DEF UniqueOK, Local, Still
  <2> QED BY <2>1, <2>2
<1>10. TablesOK'
  <2>1. Email(c) \in Emails
    BY <1>2, EmailType
  <2> QED
    BY <1>4, <1>5, <1>8, <2>1 DEF IInv, TablesOK
<1>11. AccountsHaveWallets'
  BY <1>5 DEF IInv, AccountsHaveWallets
<1>12. StoredCodeIsDelivered'
  <2> SUFFICES ASSUME NEW v \in users', ~ v.verified,
                      [email |-> v.email, otp |-> v.otp] \notin mailbox'
               PROVE  \E d \in Calls :
                        /\ dto'[d] # None /\ Email(d)' = v.email
                        /\ code'[d] = v.otp
                        /\ \/ pc'[d] \in {"mail", "lost"}
                           \/ pc'[d] = "done" /\ reply'[d] = "InternalError"
    BY DEF StoredCodeIsDelivered
  <2>1. CASE v = NewUser(c)
    BY <1>2, <1>3, <1>5, <2>1, OfferType
  <2>2. CASE v \in users
    <3>1. PICK d \in Calls : Answers(d) /\ Email(d) = v.email /\ code[d] = v.otp
      BY <2>2 DEF IInv, StoredCodeIsDelivered, Answers
    <3>2. d # c
      BY <1>2, <3>1 DEF Answers
    <3> QED BY <1>2, <3>1, <3>2 DEF Answers, Local, Still
  <2> QED BY <2>1, <2>2
<1> QED
  BY <1>1, <1>7, <1>9, <1>10, <1>11, <1>12 DEF IInv

LEMMA UpdatedFields ==
    ASSUME NEW c \in Calls, NEW u \in UserRows
    PROVE  /\ Updated(c, u).id = u.id /\ Updated(c, u).email = u.email
           /\ dto[c].kind = "verify" => Updated(c, u).verified
           /\ dto[c].kind # "verify" =>
                Updated(c, u).verified = u.verified /\ Updated(c, u).otp = code[c]
BY DEF Updated, UserRows

LEMMA UpdateUserInv ==
    ASSUME IInv, NEW c \in Calls, UpdateUser(c)
    PROVE  IInv'
<1> USE DEF UpdateUser, Goto, Answer, locals
<1> DEFINE image(u) == IF u.id = found[c].id THEN Updated(c, u) ELSE u
<1>1. TypeOK'
  BY NextType DEF IInv, CallOK, Next, Step
<1>2. /\ pc[c] = "update" /\ dto[c].kind \in {"verify", "resend"}
      /\ dto[c] \in Offers
      /\ found[c] # None
      /\ dto[c].kind = "resend" => code[c] \in Otps
      /\ Local(c)
      /\ dto' = dto /\ found' = found /\ code' = code
      /\ \A d \in Calls : Email(d)' = Email(d)
  BY DEF IInv, TypeOK, Local, Still, CallOK, RequestOK, Email
<1>3. \/ /\ pc'[c] = "done" /\ dto[c].kind = "verify" /\ reply'[c] = "OK"
      \/ /\ pc'[c] = "mail" /\ dto[c].kind = "resend"
      \/ /\ pc'[c] = "done" /\ reply'[c] = "InternalError"
  BY DEF IInv, TypeOK
<1>4. ASSUME NEW u \in users
      PROVE  /\ image(u).id = u.id /\ image(u).email = u.email
             /\ u.verified => image(u).verified
             /\ dto[c].kind = "verify" /\ u.id = found[c].id =>
                  image(u).verified
             /\ ~ image(u).verified /\ image(u).otp # u.otp =>
                  /\ u.id = found[c].id /\ dto[c].kind = "resend"
                  /\ image(u).otp = code[c]
  <2>1. u \in UserRows
    BY DEF IInv, TypeOK
  <2> QED BY <1>2, <2>1, UpdatedFields
<1>5. /\ users' = {image(u) : u \in users}
      /\ wallets' = wallets /\ mailbox' = mailbox /\ tokens' = tokens
  OBVIOUS
<1> HIDE DEF image, UpdateUser
<1>6. Grows({})
  BY <1>4, <1>5 DEF Grows
<1>7. PICK v \in users :
        /\ v.id = found[c].id /\ v.email = Email(c)
  BY <1>2 DEF IInv, CallOK, FoundOK
<1>8. AnswerOK(c)'
  <2>1. dto[c].kind = "verify" => image(v).verified
    BY <1>4, <1>7
  <2>2. image(v) \in users' /\ image(v).email = Email(c)
    BY <1>4, <1>5, <1>7
  <2> QED
    BY <1>2, <1>3, <2>1, <2>2 DEF AnswerOK, RowsOf
<1>9. CallOK(c)'
  <2>1. FoundOK(c)'
    BY <1>2, <1>6 DEF IInv, CallOK, FoundOK, Grows
  <2>2. \A u \in users' : u.id # c
    BY <1>2, <1>6 DEF IInv, CallOK, RowOK, Registered, Grows
  <2> QED
    BY <1>2, <1>3, <1>8, <2>1, <2>2 DEF CallOK, RequestOK, Registering,
       InTransaction, Inserted, AccessOK, RowOK
<1>10. \A d \in Calls : CallOK(d)'
  BY <1>2, <1>6, <1>9, LemmaOthers DEF Grows
<1>11. \A d \in Calls : UniqueOK(d)'
  <2>1. \A w \in users' : \E u \in users : u.email = w.email
    BY <1>6 DEF Grows
  <2>2. pc'[c] \notin Inserted
    BY <1>3 DEF InTransaction, Inserted
  <2> QED BY <1>2, <2>1, <2>2, LemmaUnique
<1>12. TablesOK'
  <2>1. \A u, w \in users' : u.id = w.id \/ u.email = w.email => u = w
    BY <1>4, <1>5 DEF IInv, TablesOK
  <2>2. \A u \in users' : u.email \in Emails
    BY <1>4, <1>5 DEF IInv, TablesOK
  <2>3. \A t \in tokens' : \E u \in users' : u.id = t /\ u.verified
    BY <1>4, <1>5 DEF IInv, TablesOK
  <2> QED BY <2>1, <2>2, <2>3 DEF TablesOK
<1>13. AccountsHaveWallets'
  <2>1. {u.id : u \in users'} = {u.id : u \in users}
    BY <1>6 DEF Grows
  <2> QED BY <1>5, <2>1 DEF IInv, AccountsHaveWallets
<1>14. StoredCodeIsDelivered'
  <2> SUFFICES ASSUME NEW w \in users', ~ w.verified,
                      [email |-> w.email, otp |-> w.otp] \notin mailbox'
               PROVE  \E d \in Calls :
                        /\ dto'[d] # None /\ Email(d)' = w.email
                        /\ code'[d] = w.otp
                        /\ \/ pc'[d] \in {"mail", "lost"}
                           \/ pc'[d] = "done" /\ reply'[d] = "InternalError"
    BY DEF StoredCodeIsDelivered
  <2>1. PICK u \in users : w = image(u)
    BY <1>5
  <2>2. CASE w.otp = u.otp
    <3>1. PICK d \in Calls : Answers(d) /\ Email(d) = u.email /\ code[d] = u.otp
      BY <1>4, <1>5, <2>1, <2>2 DEF IInv, StoredCodeIsDelivered, Answers
    <3>2. d # c
      BY <1>2, <3>1 DEF Answers
    <3> QED BY <1>2, <1>4, <2>1, <2>2, <3>1, <3>2 DEF Answers, Local, Still
  <2>3. CASE w.otp # u.otp
    <3>1. u.id = found[c].id /\ dto[c].kind = "resend" /\ w.otp = code[c]
      BY <1>4, <2>1, <2>3
    <3>2. w.email = Email(c)
      BY <1>4, <1>7, <2>1, <3>1 DEF IInv, TablesOK
    <3> QED BY <1>2, <1>3, <3>1, <3>2, OfferType
  <2> QED BY <2>2, <2>3
<1> QED
  BY <1>1, <1>10, <1>11, <1>12, <1>13, <1>14 DEF IInv

LEMMA CrashInv ==
    ASSUME IInv, NEW S \in SUBSET Calls, Crash(S)
    PROVE  IInv'
<1> USE DEF Crash, tables, locals
<1>1. TypeOK'
  BY NextType DEF IInv, CallOK, Next
<1>2. \A d \in Calls :
        /\ d \in S => pc[d] \notin {"idle"} \cup Ended /\ pc'[d] = "lost"
        /\ d \notin S => Still(d)
        /\ dto'[d] = dto[d] /\ Email(d)' = Email(d)
        /\ code'[d] = code[d] /\ reply'[d] = reply[d] /\ found'[d] = found[d]
  BY DEF IInv, TypeOK, Still, Email
<1>3. ASSUME NEW d \in Calls PROVE CallOK(d)'
  <2>1. CASE d \in S
    <3>1. CallOK(d) /\ pc'[d] = "lost" /\ dto[d] \in Offers
      BY <1>2, <2>1 DEF IInv, CallOK, RequestOK
    <3>2. RequestOK(d)' /\ AccessOK(d)' /\ AnswerOK(d)'
      BY <1>2, <3>1
         DEF RequestOK, Registering, InTransaction, Inserted, AccessOK,
         AnswerOK
    <3>3. FoundOK(d)' /\ RowOK(d)'
      BY <1>2, <3>1 DEF CallOK, FoundOK, RowOK, Registered
    <3> QED BY <3>2, <3>3 DEF CallOK
  <2>2. CASE d \notin S
    BY <1>2, <2>2, LemmaStill DEF Grows
  <2> QED BY <2>1, <2>2
<1>4. ASSUME NEW d \in Calls PROVE UniqueOK(d)'
  <2>1. \A b \in Calls : pc'[b] \in Inserted => pc[b] \in Inserted
    BY <1>2 DEF InTransaction, Inserted, Still
  <2> QED BY <1>2, <2>1 DEF IInv, UniqueOK
<1>5. StoredCodeIsDelivered'
  <2>1. \A d \in Calls : Answers(d) => Answers(d)'
    BY <1>2 DEF Answers, Still
  <2> QED BY <1>2, <2>1 DEF IInv, StoredCodeIsDelivered, Answers
<1> QED
  BY <1>1, <1>3, <1>4, <1>5 DEF IInv, TablesOK, AccountsHaveWallets

LEMMA OtpExpiresInv ==
    ASSUME IInv, NEW u \in users, OtpExpires(u)
    PROVE  IInv'
<1> USE DEF OtpExpires, locals
<1> DEFINE w == [u EXCEPT !.valid = FALSE]
<1>1. TypeOK'
  BY NextType DEF IInv, CallOK, Next
<1>2. /\ w.id = u.id /\ w.email = u.email /\ w.verified = u.verified
      /\ w.otp = u.otp
      /\ users' = (users \ {u}) \cup {w}
  BY DEF IInv, TypeOK, UserRows
<1> HIDE DEF w
<1>3. \A v \in users : \E x \in users' :
        /\ x.id = v.id /\ x.email = v.email /\ x.verified = v.verified
        /\ x.otp = v.otp
  BY <1>2
<1>4. \A x \in users' : \E v \in users :
        /\ x.id = v.id /\ x.email = v.email /\ x.verified = v.verified
        /\ x.otp = v.otp
  BY <1>2
<1>5. Grows({})
  BY <1>3, <1>4 DEF Grows
<1>6. ASSUME NEW d \in Calls PROVE CallOK(d)' /\ UniqueOK(d)'
  <2>1. CallOK(d)'
    BY <1>5, LemmaStill DEF Still
  <2>2. \A c \in Calls : Email(c)' = Email(c)
    BY DEF Email
  <2>3. UniqueOK(d)'
    BY <1>4, <2>2 DEF IInv, UniqueOK
  <2> QED BY <2>1, <2>3
<1>7. TablesOK'
  <2>1. \A x, y \in users' : x.id = y.id \/ x.email = y.email => x = y
    BY <1>2 DEF IInv, TablesOK
  <2> QED BY <1>3, <1>4, <2>1 DEF IInv, TablesOK
<1>8. AccountsHaveWallets'
  BY <1>3, <1>4 DEF IInv, AccountsHaveWallets
<1>9. StoredCodeIsDelivered'
  BY <1>4 DEF IInv, StoredCodeIsDelivered, Email
<1> QED
  BY <1>1, <1>6, <1>7, <1>8, <1>9 DEF IInv

-----------------------------------------------------------------------------
(* The theorems.                                                           *)

LEMMA NextInv == IInv /\ [Next]_vars => IInv'
<1> SUFFICES ASSUME IInv, [Next]_vars PROVE IInv'
  OBVIOUS
<1>1. ASSUME NEW c \in Calls, NEW d \in Offers, Submit(c, d) PROVE IInv'
  BY <1>1, SubmitInv
<1>2. ASSUME NEW c \in Calls, Step(c) PROVE IInv'
  BY <1>2, RegisterLookupInv, BeginInv, InsertUserInv, InsertWalletInv,
     CommitInv, SendMailInv, VerifyLookupInv, ResendLookupInv, UpdateUserInv,
     LoginLookupInv, ComparePasswordInv, ValidateTokenInv DEF Step
<1>3. ASSUME NEW c \in Calls, Abort(c) PROVE IInv'
  BY <1>3, AbortInv
<1>4. ASSUME NEW S \in SUBSET Calls, Crash(S) PROVE IInv'
  BY <1>4, CrashInv
<1>5. ASSUME NEW u \in users, OtpExpires(u) PROVE IInv'
  BY <1>5, OtpExpiresInv
<1>6. CASE UNCHANGED vars
  BY <1>6 DEF vars, tables, locals, IInv, TypeOK, CallOK, RequestOK, FoundOK,
     AccessOK, RowOK, AnswerOK, UniqueOK, TablesOK, RowsOf, Email,
     AccountsHaveWallets, StoredCodeIsDelivered
<1> QED
  BY <1>1, <1>2, <1>3, <1>4, <1>5, <1>6 DEF Next, Terminating

LEMMA Inductive == Spec => []IInv
BY InitInv, NextInv, PTL DEF Spec

(* An account is for ever, and so is its verification. *)
LEMMA AccountsStay ==
    ASSUME IInv, [Next]_vars
    PROVE  \A u \in users : \E v \in users' :
              v.id = u.id /\ v.email = u.email /\ (u.verified => v.verified)
<1> DEFINE Kept == \A u \in users : \E v \in users' :
                     v.id = u.id /\ v.email = u.email /\ (u.verified => v.verified)
<1>1. CASE UNCHANGED users
  BY <1>1
<1>2. ASSUME NEW c \in Calls, UpdateUser(c) PROVE Kept
  <2> DEFINE image(u) == IF u.id = found[c].id THEN Updated(c, u) ELSE u
  <2>1. users' = {image(u) : u \in users}
    BY <1>2 DEF UpdateUser
  <2>2. dto[c].kind \in {"verify", "resend"} /\ users \subseteq UserRows
    BY <1>2 DEF UpdateUser, IInv, TypeOK, CallOK, RequestOK
  <2>3. \A u \in users : /\ image(u).id = u.id /\ image(u).email = u.email
                         /\ u.verified => image(u).verified
    BY <2>2, UpdatedFields
  <2>4. \A u \in users : image(u) \in users'
    BY <2>1
  <2> HIDE DEF image
  <2> QED BY <2>1, <2>3, <2>4
<1>3. ASSUME NEW u \in users, OtpExpires(u) PROVE Kept
  <2> DEFINE w == [u EXCEPT !.valid = FALSE]
  <2>1. u \in UserRows
    BY DEF IInv, TypeOK
  <2>2. w.id = u.id /\ w.email = u.email /\ w.verified = u.verified
    BY <2>1 DEF UserRows
  <2>3. users' = (users \ {u}) \cup {w}
    BY <1>3 DEF OtpExpires
  <2> HIDE DEF w
  <2> QED BY <2>2, <2>3
<1>4. ASSUME NEW c \in Calls, Commit(c) PROVE Kept
  BY <1>4 DEF Commit
<1>5. ASSUME NEW c \in Calls, Step(c), ~ UpdateUser(c), ~ Commit(c)
      PROVE  UNCHANGED users
  BY <1>5 DEF Step, RegisterLookup, Begin, InsertUser, InsertWallet, SendMail,
     VerifyLookup, ResendLookup, LoginLookup, ComparePassword, ValidateToken,
     tables
<1>6. ASSUME ~ \E c \in Calls : Step(c), ~ \E u \in users : OtpExpires(u)
      PROVE  UNCHANGED users
  BY <1>6 DEF Next, Submit, Abort, Crash, Terminating, vars, tables
<1> QED BY <1>1, <1>2, <1>3, <1>4, <1>5, <1>6

(* The variables of the auth service always have their types. *)
THEOREM TypeCorrect == Spec => []TypeOK
<1>1. IInv => TypeOK
  BY DEF IInv
<1> QED BY <1>1, Inductive, PTL

(* However registrations of one address race, fail and are retried, and     *)
(* however it is spelled, it has one account: between the lookup of         *)
(* register and its commit stands the unique index.                        *)
THEOREM OneAccount == Spec => []OneAccountPerAddress
<1>1. IInv => OneAccountPerAddress
  <2> SUFFICES ASSUME IInv, NEW u \in users, NEW v \in users,
                      Normalised[u.email] = Normalised[v.email]
               PROVE  u = v
    BY DEF OneAccountPerAddress
  <2>1. u.email \in Emails /\ v.email \in Emails
    BY DEF IInv, TablesOK
  <2>2. u.email = v.email
    BY <2>1, ConstantsOK
  <2> QED BY <2>2 DEF IInv, TablesOK
<1> QED BY <1>1, Inductive, PTL

(* No failure of registration leaves an account without a wallet, or a      *)
(* wallet without an account.                                              *)
THEOREM WalletForEveryAccount == Spec => []AccountsHaveWallets
<1>1. IInv => AccountsHaveWallets
  BY DEF IInv
<1> QED BY <1>1, Inductive, PTL

(* What register, verifyOtp, resendOtp, login and a protected endpoint      *)
(* answered is true, and stays true.                                       *)
THEOREM TrueAnswers == Spec => []AnswersAreTrue
<1>1. IInv => AnswersAreTrue
  BY DEF IInv, CallOK, AnswerOK, AnswersAreTrue
<1> QED BY <1>1, Inductive, PTL

(* The code an unverified account waits for was mailed, is about to be, or  *)
(* the call that stored it failed visibly.                                 *)
THEOREM CodesDelivered == Spec => []StoredCodeIsDelivered
<1>1. IInv => StoredCodeIsDelivered
  BY DEF IInv
<1> QED BY <1>1, Inductive, PTL

(* JwtStrategy.validate finds a verified user behind every token issued.   *)
THEOREM HonouredTokens == Spec => []TokensAreHonoured
<1>1. IInv => TokensAreHonoured
  BY DEF IInv, TablesOK, TokensAreHonoured
<1> QED BY <1>1, Inductive, PTL

-----------------------------------------------------------------------------
(* AuthService implements AccountLifecycle.                                *)

Accounts == [e \in Emails |-> StatusIn(users, e)]
Admitted == {u.email : u \in {v \in users : v.id \in tokens}}

LEMMA StatusFacts ==
    ASSUME NEW rows, NEW e
    PROVE  /\ StatusIn(rows, e) = "absent" <=> \A u \in rows : u.email # e
           /\ StatusIn(rows, e) = "verified" <=>
                \E u \in rows : u.email = e /\ u.verified
           /\ StatusIn(rows, e) \in {"absent", "unverified", "verified"}
<1> DEFINE mine == {u \in rows : u.email = e}
<1>1. CASE mine = {}
  BY <1>1 DEF StatusIn
<1>2. CASE mine # {} /\ \E u \in mine : u.verified
  BY <1>2 DEF StatusIn
<1>3. CASE mine # {} /\ ~ \E u \in mine : u.verified
  BY <1>3 DEF StatusIn
<1> QED BY <1>1, <1>2, <1>3

(* Two tables give an address one status when they agree on these two       *)
(* questions about it.                                                     *)
LEMMA SameStatus ==
    ASSUME NEW R, NEW S, NEW e,
           (\E u \in R : u.email = e) <=> (\E u \in S : u.email = e),
           (\E u \in R : u.email = e /\ u.verified)
             <=> (\E u \in S : u.email = e /\ u.verified)
    PROVE  StatusIn(R, e) = StatusIn(S, e)
BY StatusFacts

LEMMA RefineInit == Init => Lifecycle!Init
<1> SUFFICES ASSUME Init PROVE Lifecycle!Init
  OBVIOUS
<1>1. Accounts \in {[e \in Emails |-> StatusIn(S, e)] : S \in Openings}
  BY DEF Init, Accounts
<1>2. Admitted = {e \in Emails : Accounts[e] = "verified"}
  <2>1. \A u, v \in users : u.id = v.id => u = v
    BY OpeningsOK DEF Init
  <2>2. \A u \in users : u.id \in tokens <=> u.verified
    BY <2>1 DEF Init
  <2>3. \A u \in users : u.email \in Emails
    BY OpeningsOK DEF Init
  <2>4. \A e \in Emails :
          Accounts[e] = "verified" <=> \E u \in users : u.email = e /\ u.verified
    BY StatusFacts DEF Accounts
  <2> QED BY <2>2, <2>3, <2>4 DEF Admitted
<1> QED
  BY <1>1, <1>2 DEF Lifecycle!Init, Lifecycle!Verified, Accounts, Admitted

(* A step that leaves the tables' rows as they were is a stutter. *)
LEMMA RefineStutter ==
    ASSUME tokens' = tokens,
           \A u \in users : \E v \in users' :
             v.id = u.id /\ v.email = u.email /\ v.verified = u.verified,
           \A v \in users' : \E u \in users :
             v.id = u.id /\ v.email = u.email /\ v.verified = u.verified
    PROVE  UNCHANGED Lifecycle!vars
<1>1. \A e \in Emails : StatusIn(users', e) = StatusIn(users, e)
  BY SameStatus
<1>2. Admitted' = Admitted
  BY DEF Admitted
<1> QED BY <1>1, <1>2 DEF Lifecycle!vars, Admitted

LEMMA RefineCommit ==
    ASSUME IInv, NEW c \in Calls, Commit(c)
    PROVE  Lifecycle!Open(Email(c)) /\ Email(c) \in Emails
<1>1. /\ Email(c) \in Emails
      /\ \A u \in users : u.email # Email(c) /\ u.id # c
  BY EmailType DEF Commit, IInv, CallOK, RequestOK, RowOK, UniqueOK,
     InTransaction, Inserted, Registered
<1>2. /\ users' = users \cup {NewUser(c)} /\ tokens' = tokens
      /\ NewUser(c).id = c /\ NewUser(c).email = Email(c)
      /\ ~ NewUser(c).verified
  BY DEF Commit, NewUser
<1>3. StatusIn(users, Email(c)) = "absent"
  BY <1>1, StatusFacts
<1>4. StatusIn(users', Email(c)) = "unverified"
  <2>1. ~ \A u \in users' : u.email # Email(c)
    BY <1>2
  <2>2. ~ \E u \in users' : u.email = Email(c) /\ u.verified
    BY <1>1, <1>2
  <2> QED BY <2>1, <2>2, StatusFacts
<1>5. \A e \in Emails \ {Email(c)} : StatusIn(users', e) = StatusIn(users, e)
  BY <1>2, SameStatus
<1>6. Accounts' = [Accounts EXCEPT ![Email(c)] = "unverified"]
  BY <1>1, <1>4, <1>5 DEF Accounts
<1>7. Admitted' = Admitted
  <2>1. c \notin tokens
    BY <1>1 DEF IInv, TablesOK
  <2> QED BY <1>2, <2>1 DEF Admitted
<1> QED
  BY <1>1, <1>3, <1>6, <1>7 DEF Lifecycle!Open, Accounts, Admitted

LEMMA RefineUpdate ==
    ASSUME IInv, NEW c \in Calls, UpdateUser(c)
    PROVE  \/ Lifecycle!Verify(Email(c)) /\ Email(c) \in Emails
           \/ UNCHANGED Lifecycle!vars
<1> DEFINE image(u) == IF u.id = found[c].id THEN Updated(c, u) ELSE u
<1>1. /\ dto[c] \in Offers /\ found[c] # None
      /\ dto[c].kind \in {"verify", "resend"}
  BY DEF UpdateUser, IInv, CallOK, RequestOK
<1>2. PICK w \in users : w.id = found[c].id /\ w.email = Email(c)
  BY <1>1 DEF IInv, CallOK, FoundOK
<1>3. ASSUME NEW u \in users
      PROVE  /\ image(u).id = u.id /\ image(u).email = u.email
             /\ u.id # found[c].id => image(u) = u
             /\ dto[c].kind = "verify" /\ u.id = found[c].id =>
                  image(u).verified
             /\ dto[c].kind # "verify" => image(u).verified = u.verified
  <2>1. u \in UserRows
    BY DEF IInv, TypeOK
  <2> QED BY <2>1, UpdatedFields
<1>4. users' = {image(u) : u \in users} /\ tokens' = tokens
  BY DEF UpdateUser
<1>5. \A u \in users : u.verified \in BOOLEAN /\ image(u).verified \in BOOLEAN
  <2>1. \A u \in users : image(u) \in users' /\ users \subseteq UserRows
    BY <1>4 DEF IInv, TypeOK
  <2>2. users' \subseteq UserRows
    BY NextType DEF IInv, CallOK, TypeOK, Next, Step
  <2> QED BY <2>1, <2>2 DEF UserRows
<1> HIDE DEF image
<1>6. \A u \in users : u.id = found[c].id \/ u.email = Email(c) => u = w
  BY <1>2 DEF IInv, TablesOK
<1>7. CASE dto[c].kind = "resend" \/ w.verified
  <2>1. \A u \in users : image(u).verified = u.verified
    BY <1>1, <1>2, <1>3, <1>5, <1>6, <1>7
  <2> QED BY <1>3, <1>4, <2>1, RefineStutter
<1>8. CASE dto[c].kind = "verify" /\ ~ w.verified
  <2>1. Email(c) \in Emails
    BY <1>1, EmailType
  <2>2. StatusIn(users, Email(c)) = "unverified"
    BY <1>2, <1>6, <1>8, StatusFacts
  <2>3. image(w) \in users' /\ image(w).email = Email(c) /\ image(w).verified
    BY <1>2, <1>3, <1>4, <1>8
  <2>4. StatusIn(users', Email(c)) = "verified"
    BY <2>3, StatusFacts
  <2>5. ASSUME NEW e \in Emails \ {Email(c)}
        PROVE  StatusIn(users', e) = StatusIn(users, e)
    <3>1. \A u \in users : u.email = e => image(u) = u
      BY <1>2, <1>3, <1>6
    <3>2. \A u \in users : image(u).email = u.email
      BY <1>3
    <3> QED BY <1>4, <3>1, <3>2, SameStatus
  <2>6. Accounts' = [Accounts EXCEPT ![Email(c)] = "verified"]
    BY <2>1, <2>4, <2>5 DEF Accounts
  <2>7. Admitted' = Admitted
    BY <1>3, <1>4 DEF Admitted
  <2> QED
    BY <2>1, <2>2, <2>6, <2>7 DEF Lifecycle!Verify, Accounts, Admitted
<1> QED BY <1>1, <1>7, <1>8

LEMMA RefineCompare ==
    ASSUME IInv, NEW c \in Calls, ComparePassword(c)
    PROVE  \/ Lifecycle!Admit(Email(c)) /\ Email(c) \in Emails
           \/ UNCHANGED Lifecycle!vars
<1>1. dto[c] \in Offers /\ found[c] # None /\ users' = users
  BY DEF ComparePassword, IInv, CallOK, RequestOK, tables
<1>2. PICK w \in users :
        /\ w.id = found[c].id /\ w.email = Email(c)
        /\ found[c].verified => w.verified
  BY <1>1 DEF IInv, CallOK, FoundOK
<1>3. CASE tokens' = tokens
  BY <1>1, <1>3, RefineStutter
<1>4. CASE tokens' = tokens \cup {w.id} /\ w.verified
  <2>1. Email(c) \in Emails
    BY <1>1, EmailType
  <2>2. StatusIn(users, Email(c)) = "verified"
    BY <1>2, <1>4, StatusFacts
  <2>3. Admitted' = Admitted \cup {Email(c)}
    <3>1. \A u \in users : u.id = w.id => u = w
      BY DEF IInv, TablesOK
    <3> QED BY <1>1, <1>2, <1>4, <3>1 DEF Admitted
  <2> QED
    BY <1>1, <2>1, <2>2, <2>3 DEF Lifecycle!Admit, Lifecycle!Verified, Admitted
<1> QED BY <1>2, <1>3, <1>4 DEF ComparePassword

LEMMA RefineNext == IInv /\ [Next]_vars => [Lifecycle!Next]_Lifecycle!vars
<1> SUFFICES ASSUME IInv, [Next]_vars PROVE [Lifecycle!Next]_Lifecycle!vars
  OBVIOUS
<1>1. ASSUME NEW c \in Calls, Commit(c) PROVE Lifecycle!Next
  BY <1>1, RefineCommit DEF Lifecycle!Next
<1>2. ASSUME NEW c \in Calls, UpdateUser(c)
      PROVE  [Lifecycle!Next]_Lifecycle!vars
  BY <1>2, RefineUpdate DEF Lifecycle!Next
<1>3. ASSUME NEW c \in Calls, ComparePassword(c)
      PROVE  [Lifecycle!Next]_Lifecycle!vars
  <2>1. \/ Lifecycle!Admit(Email(c)) /\ Email(c) \in Emails
        \/ UNCHANGED Lifecycle!vars
    BY <1>3, RefineCompare
  <2>2. Lifecycle!Admit(Email(c)) /\ Email(c) \in Emails => Lifecycle!Next
    BY DEF Lifecycle!Next, Lifecycle!Admit
  <2> QED BY <2>1, <2>2
<1>4. ASSUME NEW u \in users, OtpExpires(u)
      PROVE  UNCHANGED Lifecycle!vars
  <2>1. u \in UserRows
    BY DEF IInv, TypeOK
  <2>2. LET w == [u EXCEPT !.valid = FALSE]
        IN w.id = u.id /\ w.email = u.email /\ w.verified = u.verified
    BY <2>1 DEF UserRows
  <2> QED BY <1>4, <2>2, RefineStutter DEF OtpExpires
<1>5. ASSUME users' = users, tokens' = tokens PROVE UNCHANGED Lifecycle!vars
  BY <1>5, RefineStutter
<1>6. CASE \/ \E c \in Calls, d \in Offers : Submit(c, d)
           \/ \E c \in Calls :
                \/ RegisterLookup(c) \/ Begin(c) \/ InsertUser(c)
                \/ InsertWallet(c) \/ SendMail(c) \/ VerifyLookup(c) \/ ResendLookup(c)
                \/ LoginLookup(c) \/ ValidateToken(c) \/ Abort(c)
           \/ \E S \in SUBSET Calls : Crash(S)
           \/ UNCHANGED vars
  <2>1. users' = users /\ tokens' = tokens
    BY <1>6 DEF Submit, RegisterLookup, Begin, InsertUser, InsertWallet, SendMail,
       VerifyLookup, ResendLookup, LoginLookup, ValidateToken, Abort, Crash,
       vars, tables
  <2> QED BY <1>5, <2>1
<1> QED
  BY <1>1, <1>2, <1>3, <1>4, <1>6 DEF Next, Step, Terminating

(* register, verifyOtp, resendOtp and login, interleaved statement by       *)
(* statement, failing and crashing, implement the life cycle of accounts:   *)
(* the commit of register opens one, the update of verifyOtp verifies it    *)
(* unless another call just did, and the token of login admits its owner.   *)
THEOREM Refinement == Spec => ImplementsAccountLifecycle
<1>1. Init => Lifecycle!Init
  BY RefineInit
<1>2. IInv /\ [Next]_vars => [Lifecycle!Next]_Lifecycle!vars
  BY RefineNext
<1> QED
  BY <1>1, <1>2, Inductive, PTL DEF Spec, ImplementsAccountLifecycle, Lifecycle!Spec
=============================================================================
