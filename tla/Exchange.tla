------------------------------ MODULE Exchange ------------------------------
(***************************************************************************)
(* The application: AuthService and WalletsService over one database and    *)
(* one connection pool.  They meet in three places.  The commit of a        *)
(* registration opens the wallet; a request enters the wallet handlers      *)
(* through JwtAuthGuard, with a token of a verified user; and a handler      *)
(* that needs a connection waits for the transactions of both.             *)
(* Users of WalletsService are the normalised addresses of AuthService.    *)
(***************************************************************************)
EXTENDS WalletsService

CONSTANTS AuthCalls, Earlier, Addresses, Normalised, Passwords, Otps,
          AuthOffers, Openings

VARIABLES users, mailbox, tokens, authPc, authDto, found, code, authReply

authVars == <<users, mailbox, tokens, authPc, authDto, found, code, authReply>>

allVars == <<vars, authVars>>

(* The user of a row of users has a row in wallets. *)
WalletOwners == {u.id : u \in {v \in users : HasWallet(v.email)}}

Auth == INSTANCE AuthService WITH
    Calls <- AuthCalls, Offers <- AuthOffers, wallets <- WalletOwners,
    pc <- authPc, dto <- authDto, reply <- authReply

ASSUME AuthConstantsOK ==
    /\ Auth!ConstantsOK /\ Auth!OpeningsOK
    /\ Auth!Emails \subseteq Users

-----------------------------------------------------------------------------
(* The connections held by open transactions. *)
Connections ==
    Cardinality({r \in Requests : pc[r] \in InTransaction})
      + Cardinality({c \in AuthCalls : authPc[c] \in Auth!InTransaction})

(* Where a handler's next step takes a connection from the pool. *)
AuthAsks == {"lookup", "begin", "update"}
WalletAsks == {"check", "wallet"}

PoolServes == Connections < PoolSize

(* The commit of a registration writes users, wallets and wallet_balances  *)
(* together.                                                               *)
CommitRegistration(c) ==
    /\ authPc[c] = "commit"
    /\ CreateWallet(Auth!Email(c))
    /\ Auth!Commit(c)

AuthStep(c) ==
    \/ CommitRegistration(c)
    \/ /\ authPc[c] # "commit"
       /\ authPc[c] \in AuthAsks => PoolServes
       /\ UNCHANGED vars
       /\ Auth!Step(c)

WalletStep(r) ==
    /\ pc[r] \in WalletAsks => PoolServes
    /\ Step(r)
    /\ UNCHANGED authVars

(* Mutant: the guard trusts the address in the token and drops the lookup    *)
(* of the verified flag and the check of who was issued it.                *)
MutantMayEnter(user) == \E u \in users : u.email = user

(* The user may pass JwtAuthGuard: a token, whose user is verified. *)
MayEnter(user) ==
    \E u \in users : u.email = user /\ u.id \in tokens /\ u.verified

Enter(r, d) ==
    /\ MayEnter(d.user)
    /\ Submit(r, d)
    /\ UNCHANGED authVars

(* One process serves everything: a crash takes calls of both kinds.       *)
CrashBoth(S, T) ==
    /\ S \cup T # {}
    /\ S # {} => Crash(S)
    /\ S = {} => UNCHANGED vars
    /\ T # {} => Auth!Crash(T)
    /\ T = {} => UNCHANGED authVars

ExchangeInit == Init /\ Auth!Init

AuthStart(c, d) == UNCHANGED vars /\ Auth!Submit(c, d)

AuthAbort(c) == UNCHANGED vars /\ Auth!Abort(c)

WalletAbort(r) == Abort(r) /\ UNCHANGED authVars

CodeExpires(u) == UNCHANGED vars /\ Auth!OtpExpires(u)

AllEnded ==
    /\ \A r \in Requests : pc[r] \in Ended \cup {"idle"}
    /\ \A c \in AuthCalls : authPc[c] \in Ended
    /\ UNCHANGED allVars

ExchangeNext ==
    \/ \E c \in AuthCalls, d \in AuthOffers : AuthStart(c, d)
    \/ \E c \in AuthCalls : AuthStep(c)
    \/ \E c \in AuthCalls : AuthAbort(c)
    \/ \E u \in users : CodeExpires(u)
    \/ \E r \in Requests, d \in Offers : Enter(r, d)
    \/ \E r \in Requests : WalletStep(r)
    \/ \E r \in Requests : WalletAbort(r)
    \/ \E S \in SUBSET Requests, T \in SUBSET AuthCalls : CrashBoth(S, T)
    \/ AllEnded

ExchangeSpec == ExchangeInit /\ [][ExchangeNext]_allVars

(* Both kinds of calls keep being served. *)
ExchangeFairness ==
    /\ \A r \in Requests : WF_allVars(WalletStep(r))
    /\ \A c \in AuthCalls : WF_allVars(AuthStep(c))

FairExchangeSpec == ExchangeSpec /\ ExchangeFairness

-----------------------------------------------------------------------------
(* Properties.                                                             *)

(* Whoever gets as far as a wallet handler finds a wallet with a row for    *)
(* every supported currency: no crash, failed commit or race between        *)
(* registering and trading leaves an admitted user without one.            *)
WalletsAreReady ==
    \A r \in Requests :
        pc[r] = "done" /\ dto[r].to \in Supported
          => reply[r].code # "NotFound"

(* Money moves only for users whose address was verified, although the      *)
(* check reads a copy of the row and the token outlives it.                *)
OnlyVerifiedUsersTrade ==
    \A e \in ledger : \E u \in users : u.email = e.user /\ u.verified

(* The two parts share one pool and neither starves: every call ends. *)
EveryCallEnds ==
    /\ EveryRequestEnds
    /\ Auth!EveryAuthCallEnds
=============================================================================
