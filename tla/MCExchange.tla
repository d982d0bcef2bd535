----------------------------- MODULE MCExchange -----------------------------
(***************************************************************************)
(* A small instance of Exchange for TLC: ada registers, verifies, logs in   *)
(* and trades.                                                             *)
(***************************************************************************)
EXTENDS Exchange, TLC

MCCurrencies == {"EUR", "NGN", "USD"}
MCRank == [c \in MCCurrencies |-> CASE c = "EUR" -> 1
                                    [] c = "NGN" -> 2
                                    [] c = "USD" -> 3]
MCSupported == {"NGN", "USD"}

MCAddresses == {"ada"}
MCNormalised == [a \in MCAddresses |-> a]

MCAuthOffers ==
    [kind: {"register", "login"}, email: {"ada"}, password: {"p1"}]
    \cup [kind: {"verify"}, email: {"ada"}, otp: {"o1"}]

(* ada funds what is supported, and converts it to what is not. *)
MCOffers == {
    [user |-> "ada", kind |-> "funding", from |-> None, to |-> "NGN",
     amount |-> 2, key |-> "k1", expected |-> None, tolerance |-> None],
    [user |-> "ada", kind |-> "conversion", from |-> "NGN", to |-> "EUR",
     amount |-> 1, key |-> "k2", expected |-> None, tolerance |-> None]}

(* Nobody is registered. *)
MCOpening == [row \in MCAddresses \X MCCurrencies |-> None]
MCOpenings == {{}}
=============================================================================
