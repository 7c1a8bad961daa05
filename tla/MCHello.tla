----------------------------- MODULE MCHello -----------------------------
(* Small instances of HelloStats for TLC. *)
EXTENDS HelloStats, TLC

\* No action reads a cost.
MCHelloView ==
  <<[h \in Hosts |-> [this_host[h] EXCEPT !.neighbors = {}]],
    [h \in Hosts |-> [i \in DOMAIN this_host[h].neighbors |->
                       [this_host[h].neighbors[i] EXCEPT !.channel_cost = <<>>]]],
    wire, history, losses, timeouts>>

\* Two hosts that hear each other.
PairHosts == {1, 2}
PairReach == {<<1, 2>>, <<2, 1>>}
PairHellos == 1 :> 5 @@ 2 :> 2

\* One host between two others that do not hear each other.
MiddleHosts == {1, 2, 3}
MiddleReach == {<<1, 2>>, <<2, 1>>, <<1, 3>>, <<3, 1>>}
MiddleHellos == 1 :> 3 @@ 2 :> 2 @@ 3 :> 1

\* The same with node 0 for host 2: it speaks first.
ZeroHosts == {0, 1, 3}
ZeroReach == {<<1, 0>>, <<0, 1>>, <<1, 3>>, <<3, 1>>}
ZeroHellos == 0 :> 1 @@ 1 :> 0 @@ 3 :> 1

\* The lengths of the code, until its 8-bit fields wrap.
WrapHellos == 1 :> 258 @@ 2 :> 1

OneChannel == {0}
=============================================================================
