----------------------------- MODULE MCNewsIntake -----------------------------
(***************************************************************************)
(* NewsIntake on a small instance: Finnhub lists one url under two ids and *)
(* a story without a url, with room for two keys; two Twitter accounts are *)
(* fetched in a thread, one with a post, one with nothing to say.          *)
(***************************************************************************)
EXTENDS NewsIntake

MCFeedsOf == [finnhub |-> <<"f1">>, twitter |-> <<"f2", "f3">>]
MCCarries == [f1 |-> <<"a1", "a2", "a3">>, f2 |-> <<"t1">>, f3 |-> <<>>]
MCKey == [a1 |-> "k1", a2 |-> "k2", a3 |-> "k3", t1 |-> "k4"]
MCUrl == [a1 |-> "u1", a2 |-> "u1", a3 |-> "none", t1 |-> "u4"]
=============================================================================
