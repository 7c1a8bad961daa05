---------------------------- MODULE AodvNetwork ----------------------------
(***************************************************************************)
(* Several AODV-UU nodes that exchange the messages of AodvControl over    *)
(* radio links.  A packet in flight is one copy for one receiver on one    *)
(* channel: copies arrive in any order, are lost, and with link-layer      *)
(* feedback the loss of a data packet is reported to its sender            *)
(* (Mac80211 is the MAC that does so).  A link may go for good.            *)
(*                                                                         *)
(* HELLO messages are left to AodvNode: here a node learns of a broken     *)
(* link by feedback or by the expiry of the entry.  The statics of         *)
(* aodv_rerr.c are shared by all nodes.                                    *)
(***************************************************************************)
EXTENDS AodvControl, FiniteSetsExt

CONSTANTS
  Links,              \* <<a, b, channel>>: b hears a on channel
  Breakable,          \* pairs of nodes whose link may go
  Traffic,            \* <<source, destination, tcp>>: packets to be sent
  LinkCost,           \* for each pair of nodes, what getCost may return
  MaxLosses,          \* bound: packets lost other than by a link that has gone
  MaxExpiries         \* bound: routes that expire or are deleted

VARIABLES
  hosts,              \* the state of every node
  net,                \* the packets in flight
  links,              \* the links that are up
  todo,               \* the packets the applications have still to send
  rerr_records,       \* neighbours with a RERR record (shared by all nodes)
  losses, expiries    \* how many so far

vars == <<hosts, net, links, todo, rerr_records, losses, expiries>>

ASSUME NetworkAssumption ==
  /\ Links \subseteq Addr \X Addr \X Channel
  /\ \A l \in Links : l[1] # l[2]
  /\ Breakable \subseteq SUBSET Addr
  /\ Traffic \subseteq Addr \X Addr \X BOOLEAN
  /\ \A t \in Traffic : t[1] # t[2]
  /\ LinkCost \in [{{l[1], l[2]} : l \in Links} -> SUBSET Nat]
  /\ MaxLosses \in Nat /\ MaxExpiries \in Nat

---------------------------------------------------------------------------
(* The air *)

\* The copies of a packet that node n sends: a broadcast goes to whoever is in
\* reach, a unicast packet to its receiver, in reach on its channel or not.
copies(n, p) ==
  IF p.dst # Bcast
  THEN {[from |-> n, to |-> p.dst, ch |-> p.ch, ttl |-> p.ttl, msg |-> p.msg]}
  ELSE {[from |-> n, to |-> l[2], ch |-> l[3], ttl |-> p.ttl, msg |-> p.msg] :
          l \in {k \in links : k[1] = n}}

up(p) == <<p.from, p.to, p.ch>> \in links
costs(p) == IF up(p) THEN LinkCost[{p.from, p.to}] ELSE {}

\* The event that makes node n into h, which consumes the packets `gone`.
Step(n, h, gone) ==
  /\ hosts' = [hosts EXCEPT ![n] = [h EXCEPT !.out = {}]]
  /\ net' = (net \ gone) \cup UNION {copies(n, p) : p \in h.out}

Init ==
  /\ hosts = [n \in Addr |-> InitHost(n, FALSE)]
  /\ net = {}
  /\ links = Links
  /\ todo = Traffic
  /\ rerr_records = {}
  /\ losses = 0 /\ expiries = 0

---------------------------------------------------------------------------
(* Packets *)

\* The packet a full queue loses is of the first destination that has one.
oldest(h) ==
  IF h.pqlen < MAX_QUEUE_LENGTH THEN <<h.ipaddr, "own">>
  ELSE CHOOSE v \in Addr \X Origin : h.queue[v[1]][v[2]] > 0

\* An application hands over a packet.
Send(t) ==
  /\ t \in todo
  /\ todo' = todo \ {t}
  /\ LET h == hosts[t[1]]
     IN  Step(t[1], processPacket(h, t[1], t[2], t[3], oldest(h)[1], oldest(h)[2]), {})
  /\ UNCHANGED <<links, rerr_records, losses, expiries>>

\* A data packet that came back to its source is dropped as a loop.
recv_data(h, m) ==
  IF m.src = h.ipaddr THEN h
  ELSE processPacket(h, m.src, m.dest, FALSE, oldest(h)[1], oldest(h)[2])

recv(h, p, link) ==
  CASE p.msg.type = "DATA" -> recv_data(h, p.msg)
    [] p.msg.type = "RERR" /\ p.from \in rerr_records -> neighbor_add(h, p.from)
    [] OTHER -> aodv_socket_process_packet(h, p.msg, p.from, p.ch, p.ttl, link, 1)

Deliver(p, link) ==
  /\ up(p)
  /\ Step(p.to, recv(hosts[p.to], p, link), {p})
  /\ rerr_records' = rerr_records \cup (IF p.msg.type = "RERR" THEN {p.from} ELSE {})
  /\ UNCHANGED <<links, todo, losses, expiries>>

\* A packet that does not arrive.  Only data packets are reported.
Fail(p) ==
  /\ up(p) => losses < MaxLosses
  /\ losses' = IF up(p) THEN losses + 1 ELSE losses
  /\ LET h == hosts[p.from]
         o == IF p.msg.src = p.from THEN "own" ELSE "transit"
     IN  IF llfeedback /\ p.msg.type = "DATA"
         THEN Step(p.from, packetFailed(h, p.msg.dest, o, p.to, oldest(h)[1], oldest(h)[2]),
                   {p})
         ELSE net' = net \ {p} /\ UNCHANGED hosts
  /\ UNCHANGED <<links, todo, rerr_records, expiries>>

\* Two nodes lose sight of each other.
Break(pair) ==
  /\ links' = {l \in links : {l[1], l[2]} # pair}
  /\ links' # links
  /\ UNCHANGED <<hosts, net, todo, rerr_records, losses, expiries>>

---------------------------------------------------------------------------
(* Timers.  They are untimed as in AodvNode, but for two that are meant to     *)
(* outlast what the network does meanwhile.                                  *)

\* RING_TRAVERSAL_TIME is longer than a message takes to cross the network.
SeekTimeout(n, d) ==
  /\ hosts[n].seek[d].on
  /\ net = {}
  /\ Step(n, route_discovery_timeout(hosts[n], d), {})
  /\ UNCHANGED <<links, todo, rerr_records, losses, expiries>>

\* DELETE_PERIOD is longer than a message takes to cross the network, and than a
\* route through n may stay VALID elsewhere.
RouteTimeout(n, d) ==
  /\ hosts[n].rt[d].armed
  /\ invalid(hosts[n], d) =>
       net = {} /\ \A m \in Addr : ~(valid(hosts[m], d) /\ hosts[m].rt[d].next = n)
  /\ expiries < MaxExpiries
  /\ expiries' = expiries + 1
  /\ Step(n, IF hosts[n].rt[d].handler = "expire" THEN route_expire_timeout(hosts[n], d)
             ELSE route_delete_timeout(hosts[n], d), {})
  /\ UNCHANGED <<links, todo, rerr_records, losses>>

RerrRecordTimeout(a) ==
  /\ rerr_records' = rerr_records \ {a}
  /\ UNCHANGED <<hosts, net, links, todo, losses, expiries>>

Next ==
  \/ \E t \in Traffic : Send(t)
  \/ \E p \in net : \/ \E link \in costs(p) : Deliver(p, link)
                    \/ Fail(p)
  \/ \E pair \in Breakable : Break(pair)
  \/ \E n, d \in Addr : SeekTimeout(n, d) \/ RouteTimeout(n, d)
  \/ \E a \in rerr_records : RerrRecordTimeout(a)

Spec == Init /\ [][Next]_vars

\* A packet in flight arrives or is lost, and a discovery timer fires.
FairSpec ==
  /\ Spec
  /\ WF_vars(\E p \in net : \/ \E link \in costs(p) : Deliver(p, link)
                            \/ Fail(p))
  /\ \A t \in Traffic : WF_vars(SeekTimeout(t[1], t[2]))

---------------------------------------------------------------------------
(* Properties *)

\* The next hops of the VALID routes to a destination never form a cycle: no
\* set of nodes has routes that stay within the set.
LoopFree ==
  \A d \in Addr : \A S \in SUBSET (Addr \ {d}) :
    S # {} => \E n \in S : ~(valid(hosts[n], d) /\ hosts[n].rt[d].next \in S)

\* The cost of the cheapest path from each node to d, of at most k hops.
Inf == 10000
cheapest(d) ==
  LET cost(l) == CHOOSE c \in LinkCost[{l[1], l[2]}] : TRUE
      dist[k \in 0 .. Cardinality(Addr)] ==
        [n \in Addr |->
           IF k = 0 THEN IF n = d THEN 0 ELSE Inf
           ELSE Min({dist[k - 1][n]} \cup
                    {cost(l) + dist[k - 1][l[2]] : l \in {x \in Links : x[1] = n}})]
  IN  dist[Cardinality(Addr)]

\* A discovery that lost no message leaves its node with the cheapest route, in
\* whatever order the copies of the request and the replies arrived and however
\* many times the request was flooded meanwhile.
CheapestRoute ==
  (net = {} /\ losses = 0) =>
    \A t \in Traffic : valid(hosts[t[1]], t[2]) =>
                        hosts[t[1]].rt[t[2]].cost = cheapest(t[2])[t[1]]

\* A discovery for a destination in reach finds a route, although a message of
\* it may be lost: a retry gets past the records and the routes that the first
\* flood left.
RouteFound ==
  \A t \in Traffic : hosts[t[1]].seek[t[2]].on ~> valid(hosts[t[1]], t[2])

\* What AodvNode takes for granted of a control message or data packet that
\* arrives from a neighbour.
AsAssumed(m, from) ==
  /\ m.type = "RREQ" => /\ m.orig # m.dest /\ from # m.dest
                        /\ (m.hcnt = 0) = (from = m.orig)
  /\ m.type = "RREP" => /\ m.orig # m.dest /\ from # m.orig
                        /\ (m.hcnt = 0) = (from = m.dest)
  /\ m.type = "RERR" => /\ \E u \in m.dests : u.addr = m.first
                        /\ \A u \in m.dests : u.addr # from
  /\ m.type = "DATA" => m.src # m.dest /\ from # m.dest

\* The nodes send only what the handlers rely on: nobody forwards a request, a
\* reply or a packet to himself, a hop count is zero only at its originator,
\* and nobody reports himself as lost.  Each handler keeps this up only because
\* the routes it reads, made from earlier messages, have it too.
MessagesAsAssumed == \A p \in net : AsAssumed(p.msg, p.from)
=============================================================================
