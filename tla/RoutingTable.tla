--------------------------- MODULE RoutingTable ---------------------------
(***************************************************************************)
(* The routing table of one AODV-UU node (routing_table.c) together with   *)
(* what its operations drive: the list of destinations being sought, the   *)
(* queue of packets that wait for a route, and the neighbour module.       *)
(*                                                                         *)
(* Every operation is an operator from a host record to a host record, in  *)
(* the order of the C statements, so that a message handler is a chain of  *)
(* them.  The timers are untimed: an armed timer may fire at any moment,   *)
(* and a lifetime matters only through being zero or not.                  *)
(***************************************************************************)
EXTENDS Integers, FiniteSets

CONSTANTS
  Addr,               \* addresses of the nodes (ns-2 node ids)
  Channel_Count,      \* number of radio channels (interfaces) of a node
  SeqnoMod,           \* number of sequence numbers, 2^32 in the code
  CounterMod,         \* number of values of an unsigned counter, 2^32 as well
  RREQ_RETRIES,       \* retries of a route discovery (params.h)
  NET_DIAMETER,       \* maximal hop count of the network (params.h)
  MAX_QUEUE_LENGTH    \* capacity of the packet queue (packet_queue.h)

ASSUME AddrAssumption == Addr \subseteq Nat /\ IsFiniteSet(Addr)
ASSUME ChannelAssumption == Channel_Count \in Nat \ {0}
ASSUME WidthAssumption ==
  SeqnoMod \in Nat /\ SeqnoMod > 2 /\ CounterMod \in Nat /\ CounterMod > 2
ASSUME LimitAssumption ==
  /\ RREQ_RETRIES \in Nat
  /\ NET_DIAMETER \in Nat \ {0}
  /\ MAX_QUEUE_LENGTH \in Nat \ {0}

---------------------------------------------------------------------------
(* Sequence numbers *)

Seqno == 0 .. SeqnoMod - 1

\* Mutant: the largest value wraps as any unsigned number does, to "unknown".
seqno_incr_to_zero(s) == IF s = 0 THEN 0 ELSE (s + 1) % SeqnoMod

\* 0 stands for "unknown" and stays; the largest value wraps to 1.
seqno_incr(s) ==
  IF s = 0 THEN 0 ELSE IF s = SeqnoMod - 1 THEN 1 ELSE s + 1

\* The (int32_t) cast in every comparison of sequence numbers.
Signed(s) == IF 2 * s >= SeqnoMod THEN s - SeqnoMod ELSE s

---------------------------------------------------------------------------
(* Table entries *)

Channel == 0 .. Channel_Count - 1
NoChannel == -1
DefaultCost == 100000
NoExtCost == 41         \* log(MAX_NUM), used when no cost extension is present

Flag == {"UNIDIR", "REPAIR"}
Handler == {"expire", "delete", "repair"}

Entry ==
  [state   : {"none", "invalid", "valid"},
   next    : Addr \cup {0},
   hcnt    : Nat,
   seqno   : Seqno,
   channel : Channel \cup {NoChannel},
   cost    : Int,
   flags   : SUBSET Flag,
   handler : Handler,            \* rt_timer.handler
   armed   : BOOLEAN,            \* rt_timer.used
   ack     : BOOLEAN,            \* ack_timer.used
   hello   : BOOLEAN,            \* hello_timer.used
   hello_cnt : Nat,
   prec    : SUBSET Addr]

\* The value of a bucket that holds no entry for the address.
NoEntry ==
  [state |-> "none", next |-> 0, hcnt |-> 0, seqno |-> 0, channel |-> NoChannel,
   cost |-> 0, flags |-> {}, handler |-> "expire", armed |-> FALSE,
   ack |-> FALSE, hello |-> FALSE, hello_cnt |-> 0, prec |-> {}]

NewEntry(next, hops, seqno, flags, channel, cost) ==
  [state |-> "valid", next |-> next, hcnt |-> hops, seqno |-> seqno,
   channel |-> channel, cost |-> cost, flags |-> flags, handler |-> "expire",
   armed |-> FALSE, ack |-> FALSE, hello |-> FALSE, hello_cnt |-> 0,
   prec |-> {}]

\* An entry of the seek list; seek_timer runs as long as the entry exists.
Seek == [on : BOOLEAN, seqno : Seqno, reqs : 0 .. RREQ_RETRIES, g : BOOLEAN]
NoSeek == [on |-> FALSE, seqno |-> 0, reqs |-> 0, g |-> FALSE]

present(h, d) == d \in Addr /\ h.rt[d].state # "none"
valid(h, d) == d \in Addr /\ h.rt[d].state = "valid"
invalid(h, d) == d \in Addr /\ h.rt[d].state = "invalid"

Valid(h) == {d \in Addr : h.rt[d].state = "valid"}

\* rt_tbl.num_active is unsigned: it wraps at both ends.
plus(c, k) == (c + k) % CounterMod

---------------------------------------------------------------------------
(* Messages that leave the node *)

Bcast == -1            \* AODV_BROADCAST
AllChannels == -2      \* a broadcast leaves on every interface

\* h.out collects the packets of the current event.  A unicast packet leaves
\* on channelNum, the channel the node used last, whatever its route says.
sendPacket(h, dst, ttl, m) ==
  [h EXCEPT !.out = @ \cup
     {[dst |-> dst, ttl |-> ttl, msg |-> m,
       ch |-> IF dst = Bcast THEN AllChannels ELSE h.channelNum]}]

\* No RREP leaves the node while it waits after a reboot.
aodv_socket_send(h, dst, ttl, m) ==
  IF h.wait_on_reboot /\ m.type = "RREP" THEN h ELSE sendPacket(h, dst, ttl, m)

\* A RERR carries its unreachable destinations in the order they were added;
\* only the first one and the set of all of them matter to a receiver.
Rerr(h, first, dests, n) ==
  [type |-> "RERR", first |-> first, n |-> n,
   dests |-> {[addr |-> u, seqno |-> h.rt[u].seqno] : u \in dests}]

\* The destination of a RERR: the only precursor of its only destination when
\* that precursor has a table entry and a nonzero address, otherwise everyone.
RerrDst(h, dests, prec) ==
  IF \E p \in Addr \ {0} : /\ present(h, p)
                           /\ \E u \in dests : dests = {u} /\ prec[u] = {p}
  THEN CHOOSE p \in Addr \ {0} : \E u \in dests : prec[u] = {p}
  ELSE Bcast

sendRerr(h, first, dests, prec, n) ==
  IF dests = {} THEN h
  ELSE aodv_socket_send(h, RerrDst(h, dests, prec), 1, Rerr(h, first, dests, n))

---------------------------------------------------------------------------
(* Timeouts, invalidation, deletion *)

\* rt_timer ends up armed in every case: a VALID entry keeps the later of the
\* two timeouts, any other one takes the new one.
rt_table_update_timeout(h, d) ==
  IF present(h, d) THEN [h EXCEPT !.rt[d].armed = TRUE] ELSE h

\* Mutant: an invalidated route keeps its sequence number.
invalidated_same_seqno(e) ==
  [e EXCEPT !.state = "invalid", !.hello = FALSE, !.ack = FALSE,
            !.hello_cnt = 0, !.armed = TRUE,
            !.handler = IF "REPAIR" \in e.flags THEN "repair" ELSE "delete"]

invalidated(e) ==
  [e EXCEPT !.state = "invalid", !.hello = FALSE, !.ack = FALSE,
            !.hello_cnt = 0, !.seqno = seqno_incr(@), !.armed = TRUE,
            !.handler = IF "REPAIR" \in e.flags THEN "repair" ELSE "delete"]

rt_table_invalidate(h, d) ==
  IF ~valid(h, d) THEN h
  ELSE [h EXCEPT !.rt[d] = invalidated(@), !.num_active = plus(@, -1)]

rt_table_delete(h, d) ==
  IF ~present(h, d) THEN h
  ELSE [h EXCEPT !.rt[d] = NoEntry, !.num_entries = plus(@, -1),
                 !.num_active = IF valid(h, d) THEN plus(@, -1) ELSE @]

precursor_add(h, d, a) ==
  IF present(h, d) /\ a \in Addr THEN [h EXCEPT !.rt[d].prec = @ \cup {a}] ELSE h

precursor_list_destroy(h, d) ==
  IF present(h, d) THEN [h EXCEPT !.rt[d].prec = {}] ELSE h

MAXTTL == 255
MAX_REPAIR_TTL == (3 * NET_DIAMETER) \div 10

least(S) == CHOOSE x \in S : \A y \in S : x <= y

(***************************************************************************)
(* neighbor_link_break: the neighbour entry is invalidated, and with it    *)
(* every VALID route that goes through it.  Destinations with precursors   *)
(* are reported in a RERR, the neighbour first and the others in the order *)
(* of the hash buckets, which is that of the addresses below RT_TABLESIZE. *)
(* Routes marked for repair keep their precursors and are not reported.    *)
(***************************************************************************)
neighbor_link_break(h, d) ==
  IF ~present(h, d) \/ h.rt[d].hcnt # 1 THEN h
  ELSE
    LET rep   == "REPAIR" \in h.rt[d].flags
        users == {u \in Addr \ {d} : valid(h, u) /\ h.rt[u].next = d}
        kept  == {u \in users : rep /\ h.rt[u].hcnt <= MAX_REPAIR_TTL}
        lost  == (users \ kept) \cup (IF rep THEN {} ELSE {d})
        told  == {u \in lost : h.rt[u].prec # {}}
        prec  == [u \in Addr |-> h.rt[u].prec]
        broken(u) ==
          LET e == h.rt[u]
              m == IF u \in kept THEN [e EXCEPT !.flags = @ \cup {"REPAIR"}] ELSE e
              i == IF e.state = "valid" THEN invalidated(m) ELSE m
          IN  IF u \in lost THEN [i EXCEPT !.prec = {}] ELSE i
        h1 == [h EXCEPT
                 !.rt = [u \in Addr |->
                           IF u \in users \cup {d} THEN broken(u) ELSE h.rt[u]],
                 !.num_active =
                   plus(@, -Cardinality({u \in users \cup {d} : valid(h, u)}))]
    IN  sendRerr(h1, IF d \in told THEN d ELSE least(told), told, prec, FALSE)

---------------------------------------------------------------------------
(* Packets that wait for a route *)

\* The buffered packets of a destination: those of this host, and those in
\* transit that the link layer gave back.
Origin == {"own", "transit"}
buffered(h, d) == h.queue[d]["own"] + h.queue[d]["transit"]
cleared(h, d) ==
  [h EXCEPT !.queue[d] = [o \in Origin |-> 0], !.pqlen = @ - buffered(h, d)]

\* packet_queue_set_verdict(PQ_SEND): the packets buffered for d leave for the
\* next hop (sendPacket refuses those of other hosts), and the timeouts of the
\* route and of its next hop are renewed.
pq_send(h, d) ==
  LET nh == h.rt[d].next
      h1 == cleared(h, d)
      h2 == IF h.queue[d]["own"] = 0 THEN h1
            ELSE sendPacket(h1, nh, MAXTTL, [type |-> "DATA", src |-> h.ipaddr, dest |-> d])
      h3 == IF valid(h2, d) THEN rt_table_update_timeout(h2, d) ELSE h2
  IN  IF valid(h3, d) /\ valid(h3, nh) /\ nh # d
      THEN rt_table_update_timeout(h3, nh) ELSE h3

\* packet_queue_set_verdict(PQ_DROP)
pq_drop(h, d) == cleared(h, d)

\* Mutant: the limit is tested one packet too late.
packet_queue_add_late(h, d, o, v, vo) ==
  LET h1 == IF h.pqlen > MAX_QUEUE_LENGTH /\ h.queue[v][vo] > 0
            THEN [h EXCEPT !.queue[v][vo] = @ - 1, !.pqlen = @ - 1] ELSE h
  IN  [h1 EXCEPT !.queue[d][o] = @ + 1, !.pqlen = @ + 1]

\* packet_queue_add; at the limit the oldest packet goes, which is one buffered
\* for some destination v of some origin vo.
packet_queue_add(h, d, o, v, vo) ==
  LET h1 == IF h.pqlen >= MAX_QUEUE_LENGTH /\ h.queue[v][vo] > 0
            THEN [h EXCEPT !.queue[v][vo] = @ - 1, !.pqlen = @ - 1] ELSE h
  IN  [h1 EXCEPT !.queue[d][o] = @ + 1, !.pqlen = @ + 1]

\* packet_queue_garbage_collect: a packet that waited too long is dropped.
packet_queue_garbage_collect(h, v, vo) ==
  [h EXCEPT !.queue[v][vo] = @ - 1, !.pqlen = @ - 1]

\* Mutant: the packets leave but the seek-list entry stays.
seek_found_kept(h, d) == IF h.seek[d].on THEN pq_send(h, d) ELSE h

\* seek_list_remove and the verdict that follows it in insert and update.
seek_found(h, d) ==
  IF h.seek[d].on THEN pq_send([h EXCEPT !.seek[d] = NoSeek], d) ELSE h

---------------------------------------------------------------------------
(* Insertion and update *)

\* The common part of the two insertions; a second entry for the address is
\* refused.  life = 0 leaves the timer of a VALID entry unarmed; an INVALID one
\* is always given its own lifetime.
insert_entry(h, d, next, hops, seqno, life, state, flags, channel, cost) ==
  IF present(h, d) THEN h
  ELSE
    LET new == NewEntry(next, hops, seqno, flags, channel, cost)
        e   == IF state = "valid" THEN [new EXCEPT !.armed = (life # 0)]
               ELSE [new EXCEPT !.state = "invalid", !.armed = TRUE,
                       !.handler = IF "REPAIR" \in flags THEN "repair" ELSE "delete"]
        h1  == [h EXCEPT !.rt[d] = e, !.num_entries = plus(@, 1),
                         !.num_active = IF state = "valid" THEN plus(@, 1) ELSE @]
    IN  IF state = "valid" THEN seek_found(h1, d) ELSE h1

\* Only this one refuses an entry for the host itself.
rt_table_insert_with_channel(h, d, next, hops, seqno, life, state, flags, channel, cost) ==
  IF d = h.ipaddr THEN h
  ELSE insert_entry(h, d, next, hops, seqno, life, state, flags, channel, cost)

rt_table_insert(h, d, next, hops, seqno, life, state, flags) ==
  insert_entry(h, d, next, hops, seqno, life, state, flags, NoChannel, DefaultCost)

\* A neighbour that becomes more than one hop away is a broken link for the
\* routes through it.
no_longer_neighbor(h, d, hops) ==
  IF hops > 1 /\ h.rt[d].hcnt = 1
  THEN neighbor_link_break(
         [h EXCEPT !.rt[d].hello_cnt = 0, !.rt[d].hello = FALSE], d)
  ELSE h

\* Mutant: the timer of a revived route keeps its deletion handler.
rt_table_update_old_handler(h, d, next, hops, seqno, flags, channel, cost) ==
  LET h1 == IF invalid(h, d) THEN [h EXCEPT !.num_active = plus(@, 1)] ELSE h
      h2 == no_longer_neighbor(h1, d, hops)
      h3 == [h2 EXCEPT !.rt[d] =
               [@ EXCEPT !.flags = flags, !.seqno = seqno, !.next = next, !.hcnt = hops,
                         !.channel = channel, !.cost = cost, !.armed = TRUE,
                         !.state = "valid"]]
  IN  seek_found(h3, d)

\* rt_table_update_with_channel; every caller asks for state VALID.
rt_table_update_with_channel(h, d, next, hops, seqno, flags, channel, cost) ==
  LET revived == invalid(h, d)
      f  == IF revived /\ "REPAIR" \in h.rt[d].flags THEN flags \ {"REPAIR"} ELSE flags
      h1 == IF revived THEN [h EXCEPT !.num_active = plus(@, 1)] ELSE h
      h2 == no_longer_neighbor(h1, d, hops)
      h3 == [h2 EXCEPT !.rt[d] =
               [@ EXCEPT !.flags = f, !.seqno = seqno, !.next = next, !.hcnt = hops,
                         !.channel = channel, !.cost = cost, !.handler = "expire",
                         !.armed = TRUE, !.state = "valid"]]
  IN  seek_found(h3, d)

\* rt_table_update keeps the channel and the cost the entry already has.
rt_table_update(h, d, next, hops, seqno, flags) ==
  rt_table_update_with_channel(h, d, next, hops, seqno, flags,
                               h.rt[d].channel, h.rt[d].cost)

\* neighbor_add: any control message but a HELLO shows that its sender is a
\* neighbour.
neighbor_add(h, src) ==
  IF ~present(h, src)
  THEN rt_table_insert(h, src, src, 1, 0, 1, "valid", {})
  ELSE IF "UNIDIR" \in h.rt[src].flags THEN h
  ELSE rt_table_update(h, src, src, 1, h.rt[src].seqno, h.rt[src].flags)

\* rt_table_update_route_timeouts for the routes of a data packet.
RenewRoute(h, d, llfeedback) ==
  IF ~valid(h, d) THEN h
  ELSE
    LET e  == h.rt[d]
        h1 == IF llfeedback \/ e.hcnt # 1 \/ e.hello
              THEN rt_table_update_timeout(h, d) ELSE h
    IN  IF valid(h1, e.next) /\ e.next # d /\ (llfeedback \/ e.hello)
        THEN rt_table_update_timeout(h1, e.next) ELSE h1

rt_table_update_route_timeouts(h, dest, src, llfeedback) ==
  RenewRoute(RenewRoute(h, dest, llfeedback), src, llfeedback)

---------------------------------------------------------------------------
(* The host *)

\* constructor, rt_table_init, packet_queue_init
InitHost(a, reboot) ==
  [ipaddr |-> a, rt |-> [d \in Addr |-> NoEntry], num_entries |-> 0,
   num_active |-> 0, seek |-> [d \in Addr |-> NoSeek],
   queue |-> [d \in Addr |-> [o \in Origin |-> 0]], pqlen |-> 0, seqno |-> 1, rreq_id |-> 0,
   records |-> {}, blacklist |-> {}, channelNum |-> 0,
   wait_on_reboot |-> reboot, out |-> {}]
=============================================================================
