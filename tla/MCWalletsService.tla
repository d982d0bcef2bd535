-------------------------- MODULE MCWalletsService --------------------------
(***************************************************************************)
(* Small instances of WalletsService for TLC.                              *)
(***************************************************************************)
EXTENDS WalletsService, TLC

CONSTANTS r1, r2, r3, ada, bob

Symmetry == Permutations(Requests)

MCCurrencies == {"EUR", "NGN", "USD"}
MCRank == [c \in MCCurrencies |-> CASE c = "EUR" -> 1
                                    [] c = "NGN" -> 2
                                    [] c = "USD" -> 3]
MCSupported == {"NGN", "USD"}

Fund(u, to, amount, key) ==
    [user |-> u, kind |-> "funding", from |-> None, to |-> to,
     amount |-> amount, key |-> key, expected |-> None, tolerance |-> None]

Convert(u, from, to, amount, key) ==
    [user |-> u, kind |-> "conversion", from |-> from, to |-> to,
     amount |-> amount, key |-> key, expected |-> None, tolerance |-> None]

Trade(u, from, to, amount, key, expected, tolerance) ==
    [user |-> u, kind |-> "trade", from |-> from, to |-> to,
     amount |-> amount, key |-> key, expected |-> expected,
     tolerance |-> tolerance]

(* ada opens with 3 NGN and 2 EUR and no USD row; bob has no wallet yet. *)
MCOpening ==
    [row \in Users \X MCCurrencies |->
        CASE row = <<ada, "NGN">> -> 3
          [] row = <<ada, "EUR">> -> 2
          [] OTHER -> None]

MCQuotes == {1, 2}

(* Opposite conversions, a destination row nobody has created, a double     *)
(* spend, a guarded trade that only the higher rate passes, duplicates and  *)
(* other uses of one key, and a user without a wallet.                      *)
RaceOffers == {
    Convert(ada, "NGN", "EUR", 2, "k1"),
    Convert(ada, "EUR", "NGN", 2, "k2"),
    Convert(ada, "NGN", "USD", 2, "k1"),
    Trade(ada, "EUR", "USD", 1, "k3", 2, 40),
    Fund(ada, "NGN", 1, "k2"),
    Fund(bob, "NGN", 1, "k1")}

(* All three handlers on one wallet, amounts in half units: a guarded and   *)
(* an unguarded trade, amounts and currencies the handlers refuse, and a    *)
(* key shared across endpoints.                                            *)
HandlerOffers == {
    Trade(ada, "NGN", "USD", 4, "k1", 2, 40),
    Trade(ada, "NGN", "EUR", 4, "k2", None, 40),
    Convert(ada, "NGN", "NGN", 2, "k2"),
    Convert(ada, "EUR", "NGN", 0, "k2"),
    Convert(ada, "EUR", "USD", 2, "k1"),
    Fund(ada, "EUR", 2, "k2"),
    Fund(ada, "NGN", 6, "k1")}

(* One conversion to a row that exists, sent again. *)
DuplicateOffers == {Convert(ada, "NGN", "EUR", 1, "k1")}

(* One trade, sent again. *)
TradeOffers == {Trade(ada, "NGN", "EUR", 4, "k1", 2, 40)}

(* Amounts of half a unit, which the columns cannot hold. *)
HalfUnitOffers == {
    Convert(ada, "NGN", "EUR", 1, "k1"),
    Convert(ada, "NGN", "EUR", 2, "k2"),
    Fund(ada, "NGN", 1, "k3")}
=============================================================================
