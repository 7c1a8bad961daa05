----------------------------- MODULE AodvNode -----------------------------
(***************************************************************************)
(* One AODV-UU node in the most general environment: any control message   *)
(* of the given sets may arrive from any neighbour on any channel at any   *)
(* time, and any armed timer may fire.  A message that is lost is one that *)
(* never arrives, a duplicate is one that arrives twice.                   *)
(*                                                                         *)
(* ns-2 runs every event (Agent::recv, a timer, a link-layer callback) to  *)
(* completion, so each is one action.  The list of RERRs already handled   *)
(* is a static of aodv_rerr.c: the nodes of a simulation share it, and it  *)
(* changes here also when another node handles a RERR.                     *)
(***************************************************************************)
EXTENDS AodvControl

CONSTANTS
  Self,               \* the address of this node
  RREQs,              \* the route requests that may arrive
  RREPs,              \* the route replies that may arrive
  RERRs,              \* the route errors that may arrive
  HelloSeqno,         \* sequence numbers of arriving HELLOs
  LinkCost,           \* what getCost may return for a neighbour and a channel
  MaxSeqno,           \* bound: this node starts no discovery beyond this seqno
  wait_on_reboot      \* the node starts in the waiting phase after a reboot

VARIABLES
  host,               \* the state of this node
  rerr_records        \* neighbours with a RERR record (shared by all nodes)

vars == <<host, rerr_records>>

ASSUME NodeAssumption ==
  /\ Self \in Addr
  /\ RREQs \subseteq {m \in RREQ : m.orig # m.dest}
  /\ RREPs \subseteq {m \in RREP : m.orig # m.dest}
  /\ RERRs \subseteq {m \in RERR : \E u \in m.dests : u.addr = m.first}
  /\ HelloSeqno \subseteq Seqno
  /\ LinkCost \subseteq Int
  /\ MaxSeqno \in Nat
  /\ wait_on_reboot \in BOOLEAN

---------------------------------------------------------------------------
(* Events *)

Neighbor == Addr \ {Self}

\* The host at the start of an event: nothing sent yet.
idle == [host EXCEPT !.out = {}]

Init ==
  /\ host = InitHost(Self, wait_on_reboot)
  /\ rerr_records = {}

\* A request comes from its originator exactly when it made no hop yet, and
\* nobody forwards a request for a route to himself.
RecvRreq(m, src, channel, ttl, link, left) ==
  /\ (m.hcnt = 0) = (src = m.orig)
  /\ src # m.dest
  /\ host' = aodv_socket_process_packet(idle, m, src, channel, ttl, link, left)
  /\ UNCHANGED rerr_records

RecvRrep(m, src, channel, link) ==
  /\ (m.hcnt = 0) = (src = m.dest)
  /\ src # m.orig
  /\ host' = aodv_socket_process_packet(idle, m, src, channel, 1, link, 1)
  /\ UNCHANGED rerr_records

\* Only the first RERR of a neighbour is looked at while its record lives,
\* whichever node of the simulation made the record.
RecvRerr(m, src) ==
  /\ \A u \in m.dests : u.addr # src
  /\ host' = IF src \in rerr_records THEN neighbor_add(idle, src)
             ELSE aodv_socket_process_packet(idle, m, src, 0, 1, 0, 1)
  /\ rerr_records' = rerr_records \cup {src}

RecvAck(src, type) ==
  /\ host' = aodv_socket_process_packet(idle, [type |-> type], src, 0, 1, 0, 1)
  /\ UNCHANGED rerr_records

RecvHello(src, seqno, channel, listed, close) ==
  /\ host' = hello_process(idle, src, seqno, channel, listed, close)
  /\ UNCHANGED rerr_records

\* The packet at the head of a full queue, whichever it is.
Oldest(v, vo) ==
  IF host.pqlen >= MAX_QUEUE_LENGTH THEN host.queue[v][vo] > 0
  ELSE v = Self /\ vo = "own"

\* A data packet from the application (src = Self) or from a neighbour.  One
\* from the application that came back is dropped by recv as a loop.
RecvData(src, dest, tcp, v, vo) ==
  /\ Oldest(v, vo)
  /\ dest # src
  /\ src = Self => host.seqno <= MaxSeqno
  /\ host' = processPacket(idle, src, dest, tcp, v, vo)
  /\ UNCHANGED rerr_records

PacketFailed(dest, o, nh, v, vo) ==
  /\ llfeedback
  /\ Oldest(v, vo)
  /\ host' = packetFailed(idle, dest, o, nh, v, vo)
  /\ UNCHANGED rerr_records

RouteExpire(d) ==
  /\ host.rt[d].armed /\ host.rt[d].handler = "expire"
  /\ host' = route_expire_timeout(idle, d)
  /\ UNCHANGED rerr_records

RouteDelete(d) ==
  /\ host.rt[d].armed /\ host.rt[d].handler = "delete"
  /\ host' = route_delete_timeout(idle, d)
  /\ UNCHANGED rerr_records

HelloTimeout(d) ==
  /\ host.rt[d].hello
  /\ host' = hello_timeout(idle, d)
  /\ UNCHANGED rerr_records

AckTimeout(d) ==
  /\ host.rt[d].ack
  /\ host' = rrep_ack_timeout(idle, d)
  /\ UNCHANGED rerr_records

SeekTimeout(d) ==
  /\ host.seek[d].on
  /\ host' = route_discovery_timeout(idle, d)
  /\ UNCHANGED rerr_records

RecordTimeout(r) ==
  /\ host' = rreq_record_timeout(idle, r)
  /\ UNCHANGED rerr_records

BlacklistTimeout(a) ==
  /\ host' = rreq_blacklist_timeout(idle, a)
  /\ UNCHANGED rerr_records

GarbageCollect(v, vo) ==
  /\ host.queue[v][vo] > 0
  /\ host' = packet_queue_garbage_collect(idle, v, vo)
  /\ UNCHANGED rerr_records

RebootOver ==
  /\ host.wait_on_reboot
  /\ host' = wait_on_reboot_timeout(idle)
  /\ UNCHANGED rerr_records

\* Another node of the simulation handles a RERR sent by a.
RerrElsewhere(a) ==
  /\ \E m \in RERRs : \A u \in m.dests : u.addr # a
  /\ rerr_records' = rerr_records \cup {a}
  /\ UNCHANGED host

RerrRecordTimeout(a) ==
  /\ rerr_records' = rerr_records \ {a}
  /\ UNCHANGED host

Receive ==
  \/ \E m \in RREQs, src \in Neighbor, c \in Channel, ttl \in {1, 2},
        link \in LinkCost, left \in {0, 1} : RecvRreq(m, src, c, ttl, link, left)
  \/ \E m \in RREPs, src \in Neighbor, c \in Channel, link \in LinkCost :
        RecvRrep(m, src, c, link)
  \/ \E m \in RERRs, src \in Neighbor : RecvRerr(m, src)
  \/ \E src \in Neighbor, type \in {"RREP_ACK", "HELLO_ACK"} : RecvAck(src, type)
  \/ \E src \in Neighbor, s \in HelloSeqno, c \in Channel, listed, close \in BOOLEAN :
        RecvHello(src, s, c, listed, close)
  \/ \E src, dest \in Addr, tcp \in BOOLEAN, v \in Addr, vo \in Origin :
        RecvData(src, dest, tcp, v, vo)
  \/ \E dest, nh \in Neighbor, o \in Origin, v \in Addr, vo \in Origin :
        PacketFailed(dest, o, nh, v, vo)

Timeout ==
  \/ \E d \in Addr : \/ RouteExpire(d) \/ RouteDelete(d) \/ HelloTimeout(d)
                     \/ AckTimeout(d) \/ SeekTimeout(d)
  \/ \E r \in host.records : RecordTimeout(r)
  \/ \E a \in host.blacklist : BlacklistTimeout(a)
  \/ \E v \in Addr, vo \in Origin : GarbageCollect(v, vo)
  \/ RebootOver

Elsewhere ==
  \/ \E a \in Neighbor : RerrElsewhere(a)
  \/ \E a \in rerr_records : RerrRecordTimeout(a)

Next == Receive \/ Timeout \/ Elsewhere

Spec == Init /\ [][Next]_vars

\* seek_timer is re-armed by its own handler only, so nothing postpones it.
FairSpec == Spec /\ \A d \in Addr : WF_vars(SeekTimeout(d))

---------------------------------------------------------------------------
(* Properties *)

\* Every variable of the node keeps its type; in particular the unsigned
\* counters and sequence numbers stay within their width.
TypeOK ==
  /\ host \in Host
  /\ host.ipaddr = Self
  /\ rerr_records \subseteq Addr

\* A route discovery (rreq_route_discovery .. seek_list_remove) is under way
\* only for a destination that processPacket cannot route to: every way a
\* usable route may appear, on whatever message, ends the discovery.
SoughtRouteUnusable ==
  \A d \in Addr :
    host.seek[d].on /\ valid(host, d)
      => host.rt[d].hcnt = 1 /\ "UNIDIR" \in host.rt[d].flags

\* A packet is in the queue only while its destination is being sought: when
\* the discovery ends, by a route or by giving up, none is left behind.
BufferedPacketsAwaitDiscovery ==
  \A d \in Addr : buffered(host, d) > 0 => host.seek[d].on

\* PQ.len counts the buffered packets and never exceeds the limit, although
\* packets are added, sent, dropped and collected by different handlers.
QueueWithinLimit ==
  /\ host.pqlen = Cardinality(Queued(host.queue))
  /\ host.pqlen <= MAX_QUEUE_LENGTH

\* An INVALID entry always has a deletion timer running, so that it goes away
\* unless a route comes back, and no timer of a VALID one deletes it.
InvalidRoutesWillGo ==
  \A d \in Addr :
    /\ invalid(host, d) => host.rt[d].armed /\ host.rt[d].handler = "delete"
    /\ valid(host, d) => host.rt[d].handler = "expire"

\* 0 means that a sequence number is unknown, and no number becomes unknown by
\* being counted up: neither the node's own nor that of an entry, through any
\* number of discoveries, breaks and revivals of its route, while the entry stays
\* in the table.  (No message of the runs carries a 0 for it to take over.)
KnownStaysKnown ==
  [][/\ host.seqno # 0 => host'.seqno # 0
     /\ \A d \in Addr :
          /\ present(host, d) /\ host.rt[d].seqno # 0
          /\ present(host', d)
          => host'.rt[d].seqno # 0]_vars

\* The event that led to h named d in a RERR.
reported(h, d) ==
  \E p \in h.out : p.msg.type = "RERR" /\ \E u \in p.msg.dests : u.addr = d

\* When a neighbour's link breaks (its VALID one-hop entry becomes INVALID), no
\* VALID route through it is left, and each destination that is lost with it
\* and had precursors is named in a RERR sent at once.
LinkBreakReported ==
  [][\A n \in Addr :
       valid(host, n) /\ host.rt[n].hcnt = 1 /\ invalid(host', n) =>
         /\ \A d \in Addr : valid(host', d) => host'.rt[d].next # n
         /\ \A d \in Addr :
              /\ valid(host, d) /\ host.rt[d].next = n /\ host.rt[d].prec # {}
              /\ invalid(host', d)
              => reported(host', d)
    ]_vars

\* Every route discovery ends: after at most RREQ_RETRIES retries the node
\* gives up if no route has come.
DiscoveryEnds == \A d \in Addr : host.seek[d].on ~> ~host.seek[d].on

---------------------------------------------------------------------------
(* What comments and documents say of the code, and the code does not do *)

\* routing_table.h calls num_active the number of active (VALID) entries.
NumActiveCountsValid == host.num_active = Cardinality(Valid(host)) % CounterMod

\* rrep_send_with_channel: the node starts to wait for a RREP-ACK when it has
\* decided to request one, which a RREP does by its a flag.
AckRequested ==
  [][\A d \in Addr : ~host.rt[d].ack /\ host'.rt[d].ack =>
       \E p \in host'.out : p.dst = d /\ p.msg.type = "RREP" /\ p.msg.a]_vars

\* rrep_send_with_channel: the message it sends along the reverse route is the
\* RREP it was given; a RERR goes one hop only.
RerrGoesOneHop ==
  [][\A p \in host'.out : p.msg.type = "RERR" => p.ttl = 1]_vars

\* aodv-uu.md on rerr_process: each of the destinations listed in a RERR whose
\* route is valid and goes through the sender is invalidated.  Here for the
\* first RERR of its sender.
ListedDestsInvalidated ==
  [][\A m \in RERRs, src \in Neighbor \ rerr_records :
       RecvRerr(m, src) =>
         \A u \in m.dests : valid(host, u.addr) /\ host.rt[u.addr].next = src
                              => invalid(host', u.addr)]_vars

\* The same for a RERR with one destination, whatever other nodes have handled.
RerrInvalidates ==
  [][\A m \in RERRs, src \in Neighbor :
       RecvRerr(m, src) /\ valid(host, m.first) /\ host.rt[m.first].next = src
         => invalid(host', m.first)]_vars

\* rt_table_update: the routes that use a neighbour as next hop are invalidated
\* with it, so that the next hop of a VALID route is a VALID neighbour.
NextHopIsNeighbor ==
  \A d \in Addr : valid(host, d) =>
    valid(host, host.rt[d].next) /\ host.rt[host.rt[d].next].hcnt = 1

\* rreq_process: the destination of a request raises its own number "to the
\* maximum of the current seqno and the one in the RREQ", so that it goes back
\* only where it wraps.
OwnSeqnoIsMaximum ==
  [][host'.seqno >= host.seqno \/ host.seqno = SeqnoMod - 1]_vars

\* rerr_process explains why a RERR with an older number than the entry's is
\* ignored: no RERR makes a route look less fresh than it was.
RerrKeepsFreshness ==
  [][\A m \in RERRs, src \in Neighbor : RecvRerr(m, src) =>
       \A d \in Addr : present(host, d) => ~newer(host.rt[d].seqno, host'.rt[d].seqno)]_vars

\* processPacket reports a data packet as sent on the channel of its route.
DataOnRouteChannel ==
  \A p \in host.out : p.msg.type = "DATA" => p.ch = host.rt[p.msg.dest].channel

\* The channels are those of the scenario, one interface each.
UnicastOnRealChannel ==
  \A p \in host.out : p.dst # Bcast => p.ch \in Channel

\* rreq_process gives a reverse route a minimal lifetime, and the timer of an
\* entry takes care of its expiry.
ValidRoutesExpire == \A d \in Addr : valid(host, d) => host.rt[d].armed
=============================================================================
