---------------------------- MODULE AuthService ----------------------------
(***************************************************************************)
(* Registration, verification by mailed code, login and the check of a      *)
(* token (src/src/auth/services/auth.service.ts, jwt.strategy.ts), over the *)
(* users and wallets tables and an SMTP server.  A call is one HTTP         *)
(* request; every action is the code between two awaits.                   *)
(*                                                                         *)
(* A user's id is the call that registered it.  A code is valid until       *)
(* OtpExpires says that its minutes have passed.                           *)
(***************************************************************************)
EXTENDS FiniteSets, Naturals

CONSTANTS
    Calls,
    Earlier,        \* the calls that registered the accounts of the start
    Addresses,      \* e-mail addresses as clients write them
    Normalised,     \* trim and toLowerCase: [Addresses -> Addresses]
    Passwords,
    Otps,           \* the codes generateOtp may draw
    Offers,         \* the dtos clients may send
    Openings,       \* the user tables the system may start with
    PoolSize,       \* connections of the TypeORM pool
    None

VARIABLES
    users,          \* committed rows of users
    wallets,        \* ids of the users with a committed row in wallets
    mailbox,        \* mails the SMTP server took: address and code
    tokens,         \* ids of the users to whom a token was issued
    pc,             \* where each call is
    dto,            \* what each call was sent
    found,          \* the users row it has read
    code,           \* the code it generated
    reply           \* what it answered

tables == <<users, wallets>>
locals == <<dto, found, code>>
vars == <<tables, mailbox, tokens, pc, locals, reply>>

-----------------------------------------------------------------------------
(* Records.                                                                *)

Ids == Calls \cup Earlier

Emails == {Normalised[a] : a \in Addresses}

UserRows ==
    [id: Ids, email: Addresses, password: Passwords, verified: BOOLEAN,
     otp: Otps \cup {None}, valid: BOOLEAN]

RegisterDtos ==
    [kind: {"register"}, email: Addresses, password: Passwords]
LoginDtos == [kind: {"login"}, email: Addresses, password: Passwords]
VerifyDtos == [kind: {"verify"}, email: Addresses, otp: Otps]
ResendDtos == [kind: {"resend"}, email: Addresses]
(* A request to a protected endpoint, with the token of a user. *)
AccessDtos == [kind: {"access"}, email: Addresses]

Dtos ==
    RegisterDtos \cup LoginDtos \cup VerifyDtos \cup ResendDtos
      \cup AccessDtos

Mails == [email: Addresses, otp: Otps]

Codes == {"OK", "BadRequest", "Unauthorized", "Forbidden", "Conflict",
          "InternalError"}

(* The labels at which register has an uncommitted row, and at which it      *)
(* holds a connection for its transaction.                                 *)
Inserted == {"wallet", "commit"}
InTransaction == {"insert"} \cup Inserted
Ended == {"done", "lost"}
Labels == {"idle", "lookup", "begin", "update", "mail", "compare"}
            \cup InTransaction \cup Ended

ASSUME ConstantsOK ==
    /\ Normalised \in [Addresses -> Addresses]
    /\ \A e \in Emails : Normalised[e] = e
    /\ Offers \subseteq Dtos
    /\ PoolSize \in Nat \ {0}
    /\ Earlier \cap Calls = {}
    /\ None \notin Otps \cup Codes \cup Offers \cup UserRows

(* A table that earlier calls may have left: a primary key, a unique index  *)
(* on normalised addresses, and a code for everyone who is not verified.   *)
ASSUME OpeningsOK ==
    \A S \in Openings :
        /\ S \subseteq UserRows
        /\ \A u \in S :
             /\ u.id \in Earlier /\ u.email \in Emails
             /\ ~ u.verified => u.otp # None
        /\ \A u, v \in S : u.id = v.id \/ u.email = v.email => u = v

-----------------------------------------------------------------------------
(* State formulae.                                                         *)

(* Mutant: the address is used as the client wrote it. *)
MutantEmail(c) == dto[c].email
Email(c) == Normalised[dto[c].email]

RowsOf(e) == {u \in users : u.email = e}

ConnectionFree ==
    Cardinality({c \in Calls : pc[c] \in InTransaction}) < PoolSize

(* The row that register inserts. *)
NewUser(c) ==
    [id |-> c, email |-> Email(c), password |-> dto[c].password,
     verified |-> FALSE, otp |-> code[c], valid |-> TRUE]

(* PostgreSQL makes an insert wait for an uncommitted one of the same       *)
(* address.                                                                *)
Blocks(d, c) ==
    /\ d # c
    /\ pc[d] \in Inserted
    /\ Email(d) = Email(c)

-----------------------------------------------------------------------------
(* Steps shared by the handlers.                                           *)

Goto(c, label) == pc' = [pc EXCEPT ![c] = label]

Answer(c, status) ==
    /\ Goto(c, "done")
    /\ reply' = [reply EXCEPT ![c] = status]

(* Mutant: randomInt starts at zero, and toString drops leading zeros.      *)
MutantDraw(c) == code' = [code EXCEPT ![c] = "12345"]

(* generateOtp: six digits. *)
Draw(c) == \E o \in Otps : code' = [code EXCEPT ![c] = o]

-----------------------------------------------------------------------------
Init ==
    /\ users \in Openings
    /\ wallets = {u.id : u \in users}
    /\ mailbox = {[email |-> u.email, otp |-> u.otp] :
                     u \in {v \in users : v.otp # None}}
    /\ tokens = {u.id : u \in {v \in users : v.verified}}
    /\ pc = [c \in Calls |-> "idle"]
    /\ dto = [c \in Calls |-> None]
    /\ found = [c \in Calls |-> None]
    /\ code = [c \in Calls |-> None]
    /\ reply = [c \in Calls |-> None]

(* A client calls an endpoint; a protected one needs a token.              *)
Submit(c, d) ==
    /\ pc[c] = "idle"
    /\ d.kind = "access" =>
         \E u \in RowsOf(Normalised[d.email]) : u.id \in tokens
    /\ dto' = [dto EXCEPT ![c] = d]
    /\ Goto(c, "lookup")
    /\ UNCHANGED <<tables, mailbox, tokens, found, code, reply>>

(* register: an address in use is refused; otherwise the password is hashed *)
(* and the code drawn.                                                     *)
RegisterLookup(c) ==
    /\ pc[c] = "lookup" /\ dto[c].kind = "register"
    /\ ConnectionFree
    /\ \/ /\ RowsOf(Email(c)) # {}
          /\ Answer(c, "Conflict")
          /\ UNCHANGED code
       \/ /\ RowsOf(Email(c)) = {}
          /\ Draw(c)
          /\ Goto(c, "begin")
          /\ UNCHANGED reply
    /\ UNCHANGED <<tables, mailbox, tokens, dto, found>>

(* dataSource.transaction: a connection is taken until the commit, a        *)
(* refusal or a rollback.                                                  *)
Begin(c) ==
    /\ pc[c] = "begin"
    /\ ConnectionFree
    /\ Goto(c, "insert")
    /\ UNCHANGED <<tables, mailbox, tokens, locals, reply>>

(* Mutant: the address has no unique index. *)
MutantInsertUser(c) ==
    /\ pc[c] = "insert"
    /\ Goto(c, "wallet")
    /\ UNCHANGED <<tables, mailbox, tokens, locals, reply>>

(* The user is inserted, still uncommitted, on the transaction's            *)
(* connection; the unique index on the address refuses a second one, and    *)
(* has an insert wait while a rival may still commit.                      *)
InsertUser(c) ==
    /\ pc[c] = "insert"
    /\ \A d \in Calls : ~ Blocks(d, c)
    /\ \/ /\ RowsOf(Email(c)) # {}
          /\ Answer(c, "Conflict")
       \/ /\ RowsOf(Email(c)) = {}
          /\ Goto(c, "wallet")
          /\ UNCHANGED reply
    /\ UNCHANGED <<tables, mailbox, tokens, locals>>

(* Mutant: the user row is saved outside the transaction, which only       *)
(* inserts the wallet.                                                     *)
MutantInsertWallet(c) ==
    /\ pc[c] = "wallet"
    /\ users' = users \cup {NewUser(c)}
    /\ Goto(c, "commit")
    /\ UNCHANGED <<wallets, mailbox, tokens, locals, reply>>

(* Mutant: the wallet is created through a repository that takes another    *)
(* connection (createWalletForUser).                                       *)
MutantOtherConnection(c) ==
    /\ pc[c] = "wallet"
    /\ ConnectionFree
    /\ Goto(c, "commit")
    /\ UNCHANGED <<tables, mailbox, tokens, locals, reply>>

(* createWalletForUserWithManager: on the same connection. *)
InsertWallet(c) ==
    /\ pc[c] = "wallet"
    /\ Goto(c, "commit")
    /\ UNCHANGED <<tables, mailbox, tokens, locals, reply>>

(* User and wallet become visible; then the code is mailed.  When the       *)
(* acknowledgement is lost the call fails, and nothing is mailed.          *)
Commit(c) ==
    /\ pc[c] = "commit"
    /\ users' = users \cup {NewUser(c)}
    /\ wallets' = wallets \cup {c}
    /\ \/ Goto(c, "mail") /\ UNCHANGED reply
       \/ Answer(c, "InternalError")
    /\ UNCHANGED <<mailbox, tokens, locals>>

(* Mutant: the mail is not awaited. *)
MutantMail(c) ==
    /\ pc[c] = "mail"
    /\ mailbox' \in {mailbox,
                     mailbox \cup {[email |-> Email(c), otp |-> code[c]]}}
    /\ Answer(c, "OK")
    /\ UNCHANGED <<tables, tokens, locals>>

(* sendOtp, resendOtp: the server takes the mail; or it does not; or it     *)
(* does and its answer is lost.  The last two are rethrown.                *)
SendMail(c) ==
    /\ pc[c] = "mail"
    /\ \/ /\ mailbox' = mailbox \cup {[email |-> Email(c), otp |-> code[c]]}
          /\ Answer(c, "OK") \/ Answer(c, "InternalError")
       \/ /\ Answer(c, "InternalError")
          /\ UNCHANGED mailbox
    /\ UNCHANGED <<tables, tokens, locals>>

(* What verifyOtp answers for the row it read, if it refuses. *)
Refusal(u, otp) ==
    CASE u.otp # otp -> "Unauthorized"
      [] u.verified  -> "BadRequest"
      [] ~ u.valid   -> "Unauthorized"
      [] OTHER       -> None

(* verifyOtp: the row is read and checked. *)
VerifyLookup(c) ==
    /\ pc[c] = "lookup" /\ dto[c].kind = "verify"
    /\ ConnectionFree
    /\ \/ /\ RowsOf(Email(c)) = {}
          /\ Answer(c, "Unauthorized")
          /\ UNCHANGED found
       \/ \E u \in RowsOf(Email(c)) :
            \/ /\ Refusal(u, dto[c].otp) # None
               /\ Answer(c, Refusal(u, dto[c].otp))
               /\ UNCHANGED found
            \/ /\ Refusal(u, dto[c].otp) = None
               /\ found' = [found EXCEPT ![c] = u]
               /\ Goto(c, "update")
               /\ UNCHANGED reply
    /\ UNCHANGED <<tables, mailbox, tokens, dto, code>>

(* resendOtp: an unknown address is answered like a known one. *)
ResendLookup(c) ==
    /\ pc[c] = "lookup" /\ dto[c].kind = "resend"
    /\ ConnectionFree
    /\ \/ /\ RowsOf(Email(c)) = {}
          /\ Answer(c, "OK")
          /\ UNCHANGED <<found, code>>
       \/ \E u \in RowsOf(Email(c)) :
            \/ /\ u.verified
               /\ Answer(c, "BadRequest")
               /\ UNCHANGED <<found, code>>
            \/ /\ ~ u.verified
               /\ found' = [found EXCEPT ![c] = u]
               /\ Draw(c)
               /\ Goto(c, "update")
               /\ UNCHANGED reply
    /\ UNCHANGED <<tables, mailbox, tokens, dto>>

(* Mutant: the row that was read is saved whole. *)
MutantUpdated(c, u) ==
    IF dto[c].kind = "verify"
    THEN [found[c] EXCEPT !.verified = TRUE, !.otp = None, !.valid = FALSE]
    ELSE [found[c] EXCEPT !.otp = code[c], !.valid = TRUE]

(* usersService.update by id: only the columns named, whatever the others   *)
(* have become since they were read.                                       *)
Updated(c, u) ==
    IF dto[c].kind = "verify"
    THEN [u EXCEPT !.verified = TRUE, !.otp = None, !.valid = FALSE]
    ELSE [u EXCEPT !.otp = code[c], !.valid = TRUE]

(* verifyOtp answers; resendOtp mails the code.  When the acknowledgement   *)
(* is lost the call fails, and nothing is mailed.                          *)
UpdateUser(c) ==
    /\ pc[c] = "update"
    /\ ConnectionFree
    /\ users' = {IF u.id = found[c].id THEN Updated(c, u) ELSE u : u \in users}
    /\ \/ /\ dto[c].kind = "verify"
          /\ Answer(c, "OK")
       \/ /\ dto[c].kind = "resend"
          /\ Goto(c, "mail")
          /\ UNCHANGED reply
       \/ Answer(c, "InternalError")
    /\ UNCHANGED <<wallets, mailbox, tokens, locals>>

(* login: the row is read with its hash. *)
LoginLookup(c) ==
    /\ pc[c] = "lookup" /\ dto[c].kind = "login"
    /\ ConnectionFree
    /\ \/ /\ RowsOf(Email(c)) = {}
          /\ Answer(c, "Unauthorized")
          /\ UNCHANGED found
       \/ \E u \in RowsOf(Email(c)) :
            /\ found' = [found EXCEPT ![c] = u]
            /\ Goto(c, "compare")
            /\ UNCHANGED reply
    /\ UNCHANGED <<tables, mailbox, tokens, dto, code>>

(* bcrypt.compare is awaited; the row may have changed since.              *)
ComparePassword(c) ==
    LET u == found[c]
    IN /\ pc[c] = "compare"
       /\ \/ /\ u.password # dto[c].password
             /\ Answer(c, "Unauthorized")
             /\ UNCHANGED tokens
          \/ /\ u.password = dto[c].password /\ ~ u.verified
             /\ Answer(c, "Forbidden")
             /\ UNCHANGED tokens
          \/ /\ u.password = dto[c].password /\ u.verified
             /\ Answer(c, "OK")
             /\ tokens' = tokens \cup {u.id}
       /\ UNCHANGED <<tables, mailbox, locals>>

(* JwtStrategy.validate: the user of the token must be verified.           *)
ValidateToken(c) ==
    /\ pc[c] = "lookup" /\ dto[c].kind = "access"
    /\ ConnectionFree
    /\ Answer(c, IF \E u \in RowsOf(Email(c)) : u.id \in tokens /\ u.verified
                 THEN "OK" ELSE "Forbidden")
    /\ UNCHANGED <<tables, mailbox, tokens, locals>>

(* The database connection fails before anything is committed: 500. *)
Abort(c) ==
    /\ pc[c] \in {"lookup", "begin", "update"} \cup InTransaction
    /\ Answer(c, "InternalError")
    /\ UNCHANGED <<tables, mailbox, tokens, locals>>

(* The process dies with the calls it was serving. *)
Crash(S) ==
    /\ S # {}
    /\ \A c \in S : pc[c] \notin {"idle"} \cup Ended
    /\ pc' = [c \in Calls |-> IF c \in S THEN "lost" ELSE pc[c]]
    /\ UNCHANGED <<tables, mailbox, tokens, locals, reply>>

(* The minutes of u's code have passed. *)
OtpExpires(u) ==
    /\ u \in users
    /\ u.valid
    /\ users' = (users \ {u}) \cup {[u EXCEPT !.valid = FALSE]}
    /\ UNCHANGED <<wallets, mailbox, tokens, pc, locals, reply>>

Terminating ==
    /\ \A c \in Calls : pc[c] \in Ended
    /\ UNCHANGED vars

Step(c) ==
    \/ RegisterLookup(c)
    \/ Begin(c)
    \/ InsertUser(c)
    \/ InsertWallet(c)
    \/ Commit(c)
    \/ SendMail(c)
    \/ VerifyLookup(c)
    \/ ResendLookup(c)
    \/ UpdateUser(c)
    \/ LoginLookup(c)
    \/ ComparePassword(c)
    \/ ValidateToken(c)

Next ==
    \/ \E c \in Calls, d \in Offers : Submit(c, d)
    \/ \E c \in Calls : Step(c)
    \/ \E c \in Calls : Abort(c)
    \/ \E S \in SUBSET Calls : Crash(S)
    \/ \E u \in users : OtpExpires(u)
    \/ Terminating

Spec == Init /\ [][Next]_vars

-----------------------------------------------------------------------------
(* Properties.                                                             *)

(* The variables have their types. *)
TypeOK ==
    /\ users \subseteq UserRows
    /\ wallets \subseteq Ids
    /\ mailbox \subseteq Mails
    /\ tokens \subseteq Ids
    /\ pc \in [Calls -> Labels]
    /\ dto \in [Calls -> Offers \cup {None}]
    /\ found \in [Calls -> UserRows \cup {None}]
    /\ code \in [Calls -> Otps \cup {None}]
    /\ reply \in [Calls -> Codes \cup {None}]

(* However registrations of one address race, fail and are retried, and     *)
(* however the address is spelled, there is one account.                   *)
OneAccountPerAddress ==
    \A u, v \in users : Normalised[u.email] = Normalised[v.email] => u = v

(* Nobody has an account without a wallet or a wallet without an account,   *)
(* at any moment and whatever registration failed.                         *)
AccountsHaveWallets == wallets = {u.id : u \in users}

(* An answer tells the truth.  A registration that succeeds left an account *)
(* and a mailed code, one that is refused left nothing; whoever was told    *)
(* that the address is verified, or got a token, has a verified account;    *)
(* a resend that succeeds mailed its code, if there was an account.        *)
AnswersAreTrue ==
    \A c \in Calls : pc[c] = "done" =>
        LET mailed == [email |-> Email(c), otp |-> code[c]] \in mailbox
            mine == {u \in users : u.id = c}
            verified == \E u \in RowsOf(Email(c)) : u.verified
        IN CASE dto[c].kind = "register" ->
                  /\ reply[c] = "OK" => mine # {} /\ mailed
                  /\ reply[c] = "Conflict" => mine = {}
             [] dto[c].kind = "resend" ->
                  reply[c] = "OK" => mailed \/ code[c] = None
             [] OTHER -> reply[c] = "OK" => verified

(* Nobody is locked out in silence: the code stored for an unverified       *)
(* account was mailed, is about to be, or the call that stored it failed    *)
(* visibly, however registrations and resends overlap.                     *)
StoredCodeIsDelivered ==
    \A u \in users : ~ u.verified =>
        \/ [email |-> u.email, otp |-> u.otp] \in mailbox
        \/ \E c \in Calls :
             /\ dto[c] # None /\ Email(c) = u.email /\ code[c] = u.otp
             /\ \/ pc[c] \in {"mail", "lost"}
                \/ pc[c] = "done" /\ reply[c] = "InternalError"

(* Every token issued so far would be honoured now, by what validate asks   *)
(* of its user: a login decides on a row that was read before, and no race   *)
(* of verification and resend takes the verification back after it.        *)
TokensAreHonoured ==
    \A t \in tokens : \E u \in users : u.id = t /\ u.verified

(* The account of an address, as AccountLifecycle sees it. *)
StatusIn(rows, e) ==
    LET mine == {u \in rows : u.email = e}
    IN CASE mine = {} -> "absent"
         [] \E u \in mine : u.verified -> "verified"
         [] OTHER -> "unverified"

Lifecycle ==
    INSTANCE AccountLifecycle WITH
        account  <- [e \in Emails |-> StatusIn(users, e)],
        admitted <- {u.email : u \in {v \in users : v.id \in tokens}},
        Opening  <- {[e \in Emails |-> StatusIn(S, e)] : S \in Openings}

(* Calls, codes, failures and crashes together implement the life cycle of  *)
(* accounts: an address is registered once, verified once and for ever, and *)
(* admitted only when verified.                                            *)
ImplementsAccountLifecycle == Lifecycle!Spec

(* Every accepted call ends: answered, or lost with its process.           *)
EveryAuthCallEnds ==
    \A c \in Calls : pc[c] = "lookup" ~> pc[c] \in Ended
=============================================================================
