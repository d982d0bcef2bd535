-------------------------- MODULE AccountLifecycle --------------------------
(***************************************************************************)
(* What registration and login promise, without calls, codes, mail or      *)
(* database transactions: one account per e-mail address, which is opened   *)
(* together with its wallet, verified once and for ever, and admitted to    *)
(* the protected endpoints only afterwards.  AuthService implements this    *)
(* specification.                                                          *)
(***************************************************************************)
CONSTANTS
    Emails,         \* normalised e-mail addresses
    Opening         \* the accounts there may be at the start

VARIABLES
    account,        \* [Emails -> {"absent", "unverified", "verified"}]
    admitted        \* the addresses whose owner holds a token

vars == <<account, admitted>>

Verified == {e \in Emails : account[e] = "verified"}

Init ==
    /\ account \in Opening
    /\ admitted = Verified

Open(e) ==
    /\ account[e] = "absent"
    /\ account' = [account EXCEPT ![e] = "unverified"]
    /\ UNCHANGED admitted

Verify(e) ==
    /\ account[e] = "unverified"
    /\ account' = [account EXCEPT ![e] = "verified"]
    /\ UNCHANGED admitted

Admit(e) ==
    /\ e \in Verified
    /\ admitted' = admitted \cup {e}
    /\ UNCHANGED account

Next == \E e \in Emails : Open(e) \/ Verify(e) \/ Admit(e)

Spec == Init /\ [][Next]_vars
=============================================================================
