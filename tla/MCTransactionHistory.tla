------------------------ MODULE MCTransactionHistory ------------------------
(***************************************************************************)
(* A small instance of TransactionHistory for TLC.                         *)
(***************************************************************************)
EXTENDS TransactionHistory

Post(user, kind, from, to) ==
    [user |-> user, kind |-> kind, from |-> from, to |-> to]

MCPosts == {
    Post("ada", "conversion", "NGN", "USD"),
    Post("bob", "funding", None, "NGN")}

At(p, t) ==
    [user |-> p.user, kind |-> p.kind, from |-> p.from, to |-> p.to, at |-> t]

MCOpening == {
    At(Post("ada", "funding", None, "NGN"), 1),
    At(Post("bob", "funding", None, "NGN"), 2),
    At(Post("ada", "conversion", "NGN", "EUR"), 3)}

List(kind, currency, from, to, limit) ==
    [table |-> "transactions", user |-> "ada", kind |-> kind,
     currency |-> currency, from |-> from, to |-> to, limit |-> limit,
     id |-> None]

Find(id) ==
    [List(None, None, None, None, 1) EXCEPT !.table = "transaction", !.id = id]

Rates(currency, from, to) ==
    [List(None, currency, from, to, 1) EXCEPT !.table = "snapshots"]

(* Pages of one and two rows, every filter, ada's and bob's ids, and the    *)
(* history of one currency and of all.                                     *)
MCQueries == {
    List(None, None, None, None, 1),
    List(None, None, None, None, 2),
    List("conversion", None, 2, None, 1),
    List(None, "NGN", None, 3, 1),
    Find(1), Find(2),
    Rates("USD", 0, 7), Rates(None, 0, 7)}
=============================================================================
