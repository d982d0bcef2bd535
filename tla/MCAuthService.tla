--------------------------- MODULE MCAuthService ---------------------------
(***************************************************************************)
(* Small instances of AuthService for TLC.                                 *)
(***************************************************************************)
EXTENDS AuthService, TLC

CONSTANTS c1, c2, c3, e1

Symmetry == Permutations(Calls)

(* One address in two spellings. *)
MCAddresses == {"ada", "Ada"}
MCNormalised == [a \in MCAddresses |-> "ada"]

MCOffers ==
    [kind: {"register"}, email: MCAddresses, password: {"p1"}]
    \cup [kind: {"login"}, email: {"ada"}, password: {"p1", "p2"}]
    \cup [kind: {"verify"}, email: {"ada"}, otp: Otps]
    \cup [kind: {"resend", "access"}, email: {"ada"}]

Account(verified, otp) ==
    [id |-> e1, email |-> "ada", password |-> "p1",
     verified |-> verified, otp |-> otp, valid |-> otp # None]

(* Nobody is registered; ada is; ada is verified. *)
MCOpenings == {{}, {Account(FALSE, "o1")}, {Account(TRUE, None)}}
=============================================================================
