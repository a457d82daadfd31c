------------------------------ MODULE MCWsFeeds ------------------------------
(* WsFeeds with one connection. *)
EXTENDS WsFeeds

\* Two logs of a contract, with one topic and with two.
MCLog == {[address |-> "a", topics |-> <<"t">>], [address |-> "a", topics |-> <<"t", "u">>]}

\* The second topic must be "u".
MCFilter == {[addresses |-> {"a"}, topics |-> <<{}, {"u"}, {}, {}>>]}
==============================================================================
