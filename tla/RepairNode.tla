---------------------------- MODULE RepairNode ----------------------------
(***************************************************************************)
(* One AODV-UU node with the option local_repair, in the environment of    *)
(* AodvNode: the handlers of LocalRepair take the place of those of        *)
(* AodvControl, and the requests, replies and errors of a repair arrive    *)
(* besides the plain messages.  The node starts with the table it has      *)
(* after it handled the messages of History.  rerr_records holds the       *)
(* <<origin, id, sender>> of the RERRs handled.                            *)
(***************************************************************************)
EXTENDS AodvNode, LocalRepair

CONSTANTS
  History,            \* the arrivals handled before: a sequence
  Arrivals,           \* the control messages that may arrive, with their sender
  HelloFrom,          \* the neighbours whose HELLOs are heard
  Traffic             \* <<source, destination>> of the data packets of the network

Arrival(m, src, ttl) == [msg |-> m, src |-> src, ttl |-> ttl]

\* The destinations a repair names, in the order of the message, none of them twice.
UdestList ==
  {l \in Seq(Udest) : \A i, j \in DOMAIN l : l[i].addr = l[j].addr => i = j}

RREQ_LR ==
  [type : {"RREQ_LR"}, id : 0 .. CounterMod - 1, dest : Addr, dest_seqno : Seqno,
   orig : Addr, orig_seqno : Seqno, hcnt : Nat, udests : UdestList]

RREP_LR ==
  [type : {"RREP_LR"}, hcnt : Nat, dest : Addr, seqno : Seqno, orig : Addr,
   udests : UdestList]

RERR_LR ==
  [type : {"RERR_LR"}, first : Addr, n : BOOLEAN, dests : SUBSET Udest,
   id : 0 .. CounterMod - 1, origin : Addr]

ARRIVAL ==
  [msg : RREQ \cup RREP \cup RERR \cup RREQ_LR \cup RREP_LR \cup RERR_LR,
   src : Addr, ttl : Nat]

ASSUME RepairAssumption ==
  /\ History \in Seq(ARRIVAL)
  /\ Arrivals \subseteq ARRIVAL
  /\ HelloFrom \subseteq Addr
  /\ Traffic \subseteq Addr \X Addr
\* No node hears itself, and a reply comes from the destination it is about only
\* when that has just made it (rrep_create): a destination passes no reply of its
\* own on.
ASSUME ArrivalAssumption ==
  \A a \in Arrivals :
    /\ a.src # Self
    /\ a.msg.type = "RREP_LR" /\ a.src = a.msg.dest => a.msg.hcnt = 0

Junk == Addr \cup {Bcast}

link0 == least(LinkCost)
channel0 == least(Channel)

\* junk: what the uninitialised rerr_unicast_dest happens to hold.
Handled(h, a, junk) ==
  aodv_socket_process_packet_lr(h, a.msg, a.src, channel0, a.ttl, link0, 1, junk)

RepairInit ==
  /\ host = FoldLeft(LAMBDA h, a : [Handled(h, a, Bcast) EXCEPT !.out = {}],
                     RepairHost(InitHost(Self, FALSE)), History)
  /\ rerr_records = {}

---------------------------------------------------------------------------
(* Events *)

\* The bound on what this node starts by itself; a repair counts as one.
MayStart == host.seqno <= MaxSeqno

\* A RERR that was handled before, by this node or by another one, is ignored.
RerrKey(a) ==
  IF a.msg.type = "RERR_LR" THEN <<a.msg.origin, a.msg.id, a.src>> ELSE <<0, 0, a.src>>
IsRerr(a) == a.msg.type \in {"RERR", "RERR_LR"}

RecvControl(a, junk) ==
  /\ a.msg.type = "RERR_LR" => MayStart
  /\ junk # Bcast => \E d \in Addr : Cardinality(host.rt[d].prec) > 1
  /\ host' = IF IsRerr(a) /\ RerrKey(a) \in rerr_records THEN settled(neighbor_add(idle, a.src))
             ELSE Handled(idle, a, junk)
  /\ rerr_records' = IF IsRerr(a) THEN rerr_records \cup {RerrKey(a)} ELSE rerr_records

RepairHello(src, seqno) ==
  /\ host' = settled(hello_process(idle, src, seqno, channel0, TRUE, TRUE))
  /\ UNCHANGED rerr_records

origin(src) == IF src = Self THEN "own" ELSE "transit"

RepairData(src, dest, v, vo) ==
  /\ Oldest(v, vo)
  /\ MayStart
  /\ host' = processPacket_lr(idle, src, dest, FALSE, v, vo)
  /\ UNCHANGED rerr_records

\* A packet that waits in the interface queue for the neighbour nh: its
\* destination was routed through nh when it was sent.
Pending(nh) ==
  {<<>>} \cup {<<t[2], origin(t[1])>> :
                 t \in {x \in Traffic : present(host, x[2]) /\ host.rt[x[2]].next = nh}}

\* The oldest packet of the queue q, when it is full.
OldestOf(q, v, vo) ==
  IF q.pqlen >= MAX_QUEUE_LENGTH THEN q.queue[v][vo] > 0 ELSE v = Self /\ vo = "own"

RepairFailed(src, dest, nh, q, v, vo, w, wo) ==
  /\ llfeedback
  /\ MayStart
  /\ Oldest(v, vo)
  /\ OldestOf(packet_queue_add(idle, dest, origin(src), v, vo), w, wo)
  /\ host' = packetFailed_lr(idle, dest, origin(src), nh, q, v, vo, w, wo)
  /\ UNCHANGED rerr_records

RepairHelloTimeout(d, q, v, vo) ==
  /\ host.rt[d].hello
  /\ Oldest(v, vo)
  /\ host' = hello_timeout_lr(idle, d, q, v, vo)
  /\ UNCHANGED rerr_records

\* seek_timer of the i-th entry for d, the newest first.
RepairSeekTimeout(d, i) ==
  /\ host' = route_discovery_timeout_lr(idle, d, i)
  /\ UNCHANGED rerr_records

\* rt_timer with the handler local_repair_timeout
RepairTimeout(d) ==
  /\ host.rt[d].armed /\ host.rt[d].handler = "repair"
  /\ host' = local_repair_timeout(idle, d)
  /\ UNCHANGED rerr_records

RepairNext ==
  \/ \E a \in Arrivals, junk \in Junk : RecvControl(a, junk)
  \/ \E src \in HelloFrom, s \in HelloSeqno : RepairHello(src, s)
  \/ \E t \in Traffic, v \in Addr, vo \in Origin : RepairData(t[1], t[2], v, vo)
  \/ \E t \in Traffic, nh \in Neighbor : \E q \in Pending(nh), v, w \in Addr,
        vo, wo \in Origin : RepairFailed(t[1], t[2], nh, q, v, vo, w, wo)
  \/ \E d \in Addr : \E q \in Pending(d), v \in Addr, vo \in Origin :
        RepairHelloTimeout(d, q, v, vo)
  \/ \E d \in Addr : \E i \in DOMAIN seeks(host, d) : RepairSeekTimeout(d, i)
  \/ \E d \in Addr : RepairTimeout(d)
  \/ \E d \in Addr : RouteExpire(d) \/ RouteDelete(d)
  \/ \E k \in rerr_records : RerrRecordTimeout(k)

RepairSpec == RepairInit /\ [][RepairNext]_vars

\* A seek timer is re-armed by its own handler only.
RepairFairSpec ==
  RepairSpec /\ \A d \in Addr :
    WF_vars(\E i \in DOMAIN seeks(host, d) : RepairSeekTimeout(d, i))

---------------------------------------------------------------------------
(* Properties *)

LRSeek ==
  Seek \cup [on : {TRUE}, seqno : Seqno, reqs : 0 .. RREQ_RETRIES, g : {TRUE},
             ttl : LOCAL_ADD_TTL .. TTL_THRESHOLD + TTL_INCREMENT + 2 * NET_DIAMETER]

\* The entries of the table and of the seek list keep their types, and an
\* address without a newest seek entry has no older one.
RepairTypeOK ==
  /\ \A d \in Addr :
       /\ host.rt[d] \in Entry
       /\ host.seek[d] \in LRSeek
       /\ \A i \in DOMAIN host.dup[d] : host.dup[d][i] \in LRSeek
       /\ host.dup[d] # <<>> => host.seek[d].on
  /\ host.seqno \in Seqno
  /\ host.rerr_id \in 0 .. CounterMod - 1

\* A route that is lost for good, INVALID and not under repair, has its deletion
\* timer running, although link breaks, repairs, failed repairs and replies all
\* write the state, the flags and the handler of the timer separately.
LostRoutesWillGo ==
  \A d \in Addr : invalid(host, d) /\ "REPAIR" \notin host.rt[d].flags
                    => host.rt[d].armed /\ host.rt[d].handler = "delete"

\* The entry of n is one for a neighbour.
neighbor(h, n) == h.rt[n].hcnt = 1 /\ h.rt[n].next = n

\* When the link to a neighbour breaks, no VALID route through it is left, and
\* each lost one that has precursors is either reported in a RERR at once or
\* kept for repair together with its precursors.  (Another route of one hop, which
\* a reply of the next hop gives to every destination it names, is no link, and a
\* neighbour that becomes another route in the same event has not lost its link.)
LinkBreakReportedOrKept ==
  [][\A n \in Addr :
       /\ valid(host, n) /\ neighbor(host, n)
       /\ invalid(host', n) /\ neighbor(host', n)
       => \A d \in {x \in Addr : valid(host, x) /\ host.rt[x].next = n} :
           /\ invalid(host', d)
           /\ host.rt[d].prec # {} =>
                \/ reported(host', d)
                \/ "REPAIR" \in host'.rt[d].flags /\ host'.rt[d].prec = host.rt[d].prec
    ]_vars

\* The reply to a repair mends every route that waited for it: the ones to or
\* through the address found become VALID through the sender of the reply,
\* in whatever order the table is walked and whatever links break meanwhile.
ReplyMendsAll ==
  [][\A a \in Arrivals :
       LET waiting == {d \in Addr : /\ invalid(host, d) /\ "REPAIR" \in host.rt[d].flags
                                    /\ d = a.msg.dest \/ host.rt[d].next = a.msg.dest}
       IN  /\ a.msg.type = "RREP_LR" /\ a.msg.orig = Self /\ a.msg.dest # Self
           /\ waiting # {}
           /\ \E junk \in Junk : RecvControl(a, junk)
           => \A d \in waiting : /\ valid(host', d) /\ host'.rt[d].next = a.src
                                  /\ "REPAIR" \notin host'.rt[d].flags
    ]_vars

\* A relay passes the reply to a repair on only with routes of its own through
\* the sender, to the destination found and to the others the reply names, although
\* each of these updates may break a link that another of them uses.  The sender n
\* may be named itself: it is then a longer route, and those the message names
\* before it are lost with its link.
RelayCanDeliver ==
  [][\A p \in host'.out : p.msg.type = "RREP_LR" /\ p.msg.dest # Self =>
       LET n     == host'.rt[p.msg.dest].next
           named == p.msg.udests
           kept  == {named[j].addr : j \in {k \in DOMAIN named :
                       \A i \in DOMAIN named : named[i].addr = n => k >= i}} \ {Self}
       IN  \A d \in kept \cup {p.msg.dest} : valid(host', d) /\ host'.rt[d].next = n]_vars

\* Every entry of the seek list goes away, the duplicates that repairs leave in
\* it too: each ends in a route or in giving up.
RepairDiscoveryEnds == \A d \in Addr : host.seek[d].on ~> ~host.seek[d].on

---------------------------------------------------------------------------
(* What comments and documents say of the code, and the code does not do *)

\* aodv-uu.md on route_discovery_timeout: a repair that fails is reported in a
\* RERR; a route under repair does not lose its precursors silently.
FailedRepairReported ==
  [][\A d \in Addr :
       /\ invalid(host, d) /\ "REPAIR" \in host.rt[d].flags /\ host.rt[d].prec # {}
       /\ invalid(host', d) /\ host'.rt[d].prec = {}
       => \E p \in host'.out : p.msg.type = "RERR" /\ \E u \in p.msg.dests : u.addr = d]_vars

\* rt_table_update: "In case there are buffered packets for this destination, we
\* send them on the new route."
NoPacketLeftBehind == \A d \in Addr : valid(host, d) => buffered(host, d) = 0

\* local_repair_timeout: "Route should already be invalidated."
RepairTimeoutInvalidated ==
  [][\A d \in Addr :
       /\ "REPAIR" \in host.rt[d].flags
       /\ present(host', d) /\ "REPAIR" \notin host'.rt[d].flags
       /\ host'.rt[d].handler = "delete"
       => invalid(host, d)]_vars

\* rrep_process_lr: "Ignore messages which aim to a create a route to one self".
NoRouteToSelf == ~present(host, Self)
=============================================================================
