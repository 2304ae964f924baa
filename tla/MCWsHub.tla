------------------------------ MODULE MCWsHub ------------------------------
(* Values of the constants of WsHub for TLC. *)
EXTENDS WsHub, TLC

SameClients == Permutations(Clients)

\* Every socket asks for the same symbol.
OneSymbol == [c \in Clients |-> CHOOSE s \in Symbols : TRUE]

MarketData == {[symbol |-> s, owner |-> Nobody] : s \in Symbols}
Alerts     == {[symbol |-> s, owner |-> u] : s \in Symbols, u \in Users}
AllMessages == MarketData \cup Alerts
=============================================================================
