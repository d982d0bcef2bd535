-------------------------- MODULE MCFxRatesService --------------------------
(***************************************************************************)
(* Small instances of FxRatesService for TLC.                              *)
(***************************************************************************)
EXTENDS FxRatesService

MCCurrencies == {"NGN", "USD", "EUR"}

(* The list of GET /fx/rates, and a conversion from a currency without      *)
(* snapshots to one the provider may leave out.                            *)
MCQueries == {ListQuery, [kind |-> "rate", base |-> "USD", quote |-> "EUR"]}

MCQuoteSets == {{"NGN", "USD"}, {"NGN", "USD", "EUR"}}
MCOneQuoteSet == {{"NGN", "USD"}}
=============================================================================
