---------------------------- MODULE AodvControl ----------------------------
(***************************************************************************)
(* The message handlers of an AODV-UU node: route requests (aodv_rreq.c),  *)
(* route replies and their acknowledgements (aodv_rrep.c), route errors    *)
(* (aodv_rerr.c), HELLO messages (aodv_hello.c), the timeouts              *)
(* (aodv_timeout.c) and the data path (packet_input.cc, packetFailed).     *)
(* Each is an operator on the host record of RoutingTable.                 *)
(*                                                                         *)
(* The configuration modelled is the one the ns-2 agent starts with:       *)
(* local_repair = 0 (set by the constructor) and optimized_hellos = 0.     *)
(***************************************************************************)
EXTENDS RoutingTable

CONSTANTS
  unidir_hack,        \* detect unidirectional links
  llfeedback,         \* link-layer feedback instead of HELLO timeouts
  receive_n_hellos,   \* HELLOs to hear before a neighbour counts (0: one)
  rreq_gratuitous,    \* ask for a gratuitous RREP in every RREQ
  expanding_ring_search

ASSUME OptionAssumption ==
  /\ {unidir_hack, llfeedback, rreq_gratuitous, expanding_ring_search} \subseteq BOOLEAN
  /\ receive_n_hellos \in Nat

RREQ_TTL == 32
\* With expanding_ring_search a retry goes on to the whole network at once,
\* since the first ttl is beyond TTL_THRESHOLD; otherwise it repeats the ttl.
RETRY_TTL == IF expanding_ring_search THEN NET_DIAMETER ELSE RREQ_TTL
NODE_TRAVERSAL_TIME == 35
PATH_DISCOVERY_TIME == 2 * NODE_TRAVERSAL_TIME * NET_DIAMETER

\* The freshness test on a sequence number, and on the rest of the route when
\* the numbers are equal.
newer(s, t) == Signed(s) > Signed(t)

---------------------------------------------------------------------------
(* Route discovery *)

\* rreq_send_with_channel for every channel.  The RREQs of one flood have
\* consecutive ids and all carry seqno + 1, and every one of them leaves on
\* every interface.
rreq_flood(h, d, dest_seqno, ttl, g) ==
  LET rreq(i) == [type |-> "RREQ", id |-> i, dest |-> d, dest_seqno |-> dest_seqno,
                  orig |-> h.ipaddr, orig_seqno |-> (h.seqno + 1) % SeqnoMod,
                  hcnt |-> 0, g |-> g \/ rreq_gratuitous, cost |-> 0]
  IN  [h EXCEPT !.rreq_id = plus(@, Channel_Count),
                !.channelNum = Channel_Count - 1,
                !.out = @ \cup {[dst |-> Bcast, ttl |-> ttl, ch |-> AllChannels,
                                 msg |-> rreq(plus(h.rreq_id, c))] : c \in Channel}]

rreq_route_discovery(h, d, g) ==
  IF h.seek[d].on THEN h
  ELSE
    LET s  == IF present(h, d) THEN h.rt[d].seqno ELSE 0
        h1 == rreq_flood(rt_table_update_timeout(h, d), d, s, RREQ_TTL, g)
    IN  [h1 EXCEPT !.seqno = seqno_incr(@),
                   !.seek[d] = [on |-> TRUE, seqno |-> s, reqs |-> 0, g |-> g]]

\* Mutant: the node gives up without dropping the buffered packets.
route_discovery_timeout_no_drop(h, d) ==
  IF h.seek[d].reqs < RREQ_RETRIES
  THEN rreq_flood([h EXCEPT !.seek[d].reqs = @ + 1],
                  d, h.seek[d].seqno, RETRY_TTL, h.seek[d].g)
  ELSE [h EXCEPT !.seek[d] = NoSeek]

\* Mutant: one retry too many.
route_discovery_timeout_late(h, d) ==
  IF h.seek[d].reqs <= RREQ_RETRIES
  THEN rreq_flood(rt_table_update_timeout([h EXCEPT !.seek[d].reqs = @ + 1], d),
                  d, h.seek[d].seqno, RETRY_TTL, h.seek[d].g)
  ELSE [pq_drop(h, d) EXCEPT !.seek[d] = NoSeek]

\* Mutant: the retries are not counted.
route_discovery_timeout_uncounted(h, d) ==
  IF h.seek[d].reqs < RREQ_RETRIES
  THEN rreq_flood(h, d, h.seek[d].seqno, RETRY_TTL, h.seek[d].g)
  ELSE [pq_drop(h, d) EXCEPT !.seek[d] = NoSeek]

\* seek_timer.  A retry repeats the flood without incrementing the sequence
\* number; after the last one the buffered packets are dropped.
route_discovery_timeout(h, d) ==
  IF h.seek[d].reqs < RREQ_RETRIES
  THEN rreq_flood(rt_table_update_timeout([h EXCEPT !.seek[d].reqs = @ + 1], d),
                  d, h.seek[d].seqno, RETRY_TTL, h.seek[d].g)
  ELSE [pq_drop(h, d) EXCEPT !.seek[d] = NoSeek]

---------------------------------------------------------------------------
(* RREP *)

\* life: 0 or not; ext: the cost extension is sent along.  The a flag, which
\* asks for a RREP-ACK, is never set: rrep_send computes it and drops it.
Rrep(hcnt, dest, seqno, orig, life, ext, cost) ==
  [type |-> "RREP", a |-> FALSE, hcnt |-> hcnt, dest |-> dest, seqno |-> seqno,
   orig |-> orig, life |-> life, ext |-> ext, cost |-> cost]

\* The RREP-ACK test of rrep_send: the neighbour that leads to rev is marked
\* unidirectional, its link is broken and its acknowledgement timer started.
request_ack(h, rev) ==
  LET n == h.rt[rev].next
      h1 == [h EXCEPT !.rt[n].flags = @ \cup {"UNIDIR"}, !.rt[n].hello = FALSE]
  IN  IF /\ \/ valid(h, rev) /\ "UNIDIR" \in h.rt[rev].flags
            \/ h.rt[rev].hcnt = 1 /\ unidir_hack
         /\ valid(h, n) /\ ~h.rt[n].ack
      THEN [neighbor_link_break(h1, n) EXCEPT !.rt[n].ack = TRUE]
      ELSE h

\* rrep_send_with_channel.  The RREP was built in the one send buffer, so the
\* RERR that request_ack may build there replaces it.  Precursors are exchanged
\* between the two routes when there is a forward one.
rrep_send_with_channel(h, rrep, rev, fwd, channel) ==
  LET h1    == request_ack(h, rev)
      nh    == h.rt[rev].next
      fresh == {p.msg : p \in h1.out \ h.out}
      buf   == IF fresh = {} THEN rrep ELSE CHOOSE m \in fresh : TRUE
      h2    == aodv_socket_send([h1 EXCEPT !.channelNum = channel], nh, MAXTTL, buf)
  IN  IF fwd \in Addr
      THEN precursor_add(precursor_add(h2, fwd, nh), rev, h.rt[fwd].next)
      ELSE h2

\* Mutant: the hop count is passed on as it came.
rrep_forward_as_received(h, rrep, rev, fwd) ==
  LET nh == h.rt[rev].next
      h1 == aodv_socket_send(h, nh, MAXTTL, rrep)
  IN  rt_table_update_timeout(
        precursor_add(precursor_add(h1, fwd, nh), rev, h.rt[fwd].next), rev)

rrep_forward(h, rrep, rev, fwd) ==
  LET nh == h.rt[rev].next
      h1 == aodv_socket_send(h, nh, MAXTTL, [rrep EXCEPT !.hcnt = h.rt[fwd].hcnt])
  IN  rt_table_update_timeout(
        precursor_add(precursor_add(h1, fwd, nh), rev, h.rt[fwd].next), rev)

\* Does the RREP give a better route than the entry?
rrep_better(e, seqno, cost) ==
  \/ e.seqno = 0
  \/ newer(seqno, e.seqno)
  \/ /\ seqno = e.seqno
     /\ e.state = "invalid" \/ "UNIDIR" \in e.flags \/ cost < e.cost

\* The forward route a RREP from src, received on channel, creates or updates.
rrep_forward_route(h, m, src, channel, cost) ==
  IF ~present(h, m.dest)
  THEN rt_table_insert_with_channel(h, m.dest, src, m.hcnt + 1, m.seqno, m.life,
                                    "valid", {}, channel, cost)
  ELSE rt_table_update_with_channel(h, m.dest, src, m.hcnt + 1, m.seqno,
                                    h.rt[m.dest].flags, channel, cost)

rrep_process(h, m, src, channel, link) ==
  LET cost == IF m.ext THEN m.cost + link ELSE NoExtCost
      h1   == rrep_forward_route(h, m, src, channel, cost)
      h2   == IF m.a THEN aodv_socket_send(h1, h1.rt[m.dest].next, MAXTTL,
                                           [type |-> "RREP_ACK"]) ELSE h1
  IN  IF m.dest = h.ipaddr THEN h
      ELSE IF present(h, m.dest) /\ ~rrep_better(h.rt[m.dest], m.seqno, cost) THEN h
      ELSE IF m.orig = h.ipaddr \/ ~valid(h2, m.orig) THEN h2
      ELSE rrep_forward([h2 EXCEPT !.channelNum = h2.rt[m.orig].channel],
                        [m EXCEPT !.a = FALSE, !.cost = IF m.ext THEN cost ELSE @],
                        m.orig, m.dest)

\* The acknowledgement of a RREP stops the timer; that of a HELLO only feeds
\* the channel statistics.
rrep_ack_process(h, src, is_hello_ack) ==
  IF is_hello_ack \/ ~present(h, src) THEN h
  ELSE [h EXCEPT !.rt[src].ack = FALSE]

\* An unacknowledged neighbour is blacklisted.
rrep_ack_timeout(h, d) ==
  [h EXCEPT !.rt[d].ack = FALSE, !.blacklist = @ \cup {d}]

---------------------------------------------------------------------------
(* RREQ *)

\* Mutant: every further copy of a request is dropped.
rreq_record_find_any(h, m, cost) ==
  \E r \in h.records : r.orig = m.orig /\ r.id = m.id

\* A copy of the request that was no dearer has been processed already.
rreq_record_find_less_cost(h, m, cost) ==
  \E r \in h.records : r.orig = m.orig /\ r.id = m.id /\ r.cost < cost

\* The record keeps the cost of the first copy.
rreq_record_insert_with_cost(h, m, cost) ==
  IF \E r \in h.records : r.orig = m.orig /\ r.id = m.id THEN h
  ELSE [h EXCEPT !.records = @ \cup {[orig |-> m.orig, id |-> m.id, cost |-> cost]}]

rreq_record_timeout(h, r) == [h EXCEPT !.records = @ \ {r}]

rreq_blacklist_timeout(h, a) == [h EXCEPT !.blacklist = @ \ {a}]

\* Mutant: a known originator's route is replaced by a cheaper one only.
rreq_better_cost_only(e, m, cost) ==
  e.seqno = 0 \/ e.state = "invalid" \/ cost < e.cost

rreq_better(e, m, cost) ==
  \/ e.seqno = 0
  \/ newer(m.orig_seqno, e.seqno)
  \/ /\ m.orig_seqno = e.seqno
     /\ e.state = "invalid" \/ cost < e.cost

\* The reverse route to the originator.
rreq_reverse_route(h, m, src, channel, cost) ==
  LET hops == m.hcnt + 1
      life == PATH_DISCOVERY_TIME - 2 * hops * NODE_TRAVERSAL_TIME
  IN  IF ~present(h, m.orig)
      THEN rt_table_insert_with_channel(h, m.orig, src, hops, m.orig_seqno, life,
                                        "valid", {}, channel, cost)
      ELSE rt_table_update_with_channel(h, m.orig, src, hops, m.orig_seqno,
                                        h.rt[m.orig].flags, channel, cost)

\* The destination's own sequence number is raised before it answers.
rreq_own_seqno(s, requested) ==
  IF requested # 0 /\ newer(requested, s) THEN requested
  ELSE IF requested # 0 /\ requested = s THEN seqno_incr(s)
  ELSE s

rreq_answer_as_dest(h, m, channel) ==
  LET h1 == [h EXCEPT !.seqno = rreq_own_seqno(@, m.dest_seqno)]
  IN  rrep_send_with_channel(h1, Rrep(0, h.ipaddr, h1.seqno, m.orig, 1, TRUE, 0),
                             m.orig, Bcast, channel)

\* An intermediate node answers from its table; the gratuitous RREP to the
\* destination is sent without its cost extension.
rreq_answer_from_table(h, m, left) ==
  LET f  == h.rt[m.dest]
      h1 == rrep_send_with_channel(
              h, Rrep(f.hcnt, m.dest, f.seqno, m.orig, left, TRUE, f.cost),
              m.orig, m.dest, f.channel)
      r  == h1.rt[m.orig]
  IN  IF ~m.g THEN h1
      ELSE rrep_send_with_channel(
             h1, Rrep(r.hcnt, m.orig, r.seqno, m.dest, left, FALSE, 0),
             m.dest, m.orig, f.channel)

rreq_forward_with_channel(h, m, cost, ttl) ==
  LET s == IF present(h, m.dest) /\ newer(h.rt[m.dest].seqno, m.dest_seqno)
           THEN h.rt[m.dest].seqno ELSE m.dest_seqno
  IN  IF ttl <= 1 THEN h
      ELSE aodv_socket_send([h EXCEPT !.channelNum = Channel_Count - 1], Bcast, ttl - 1,
             [m EXCEPT !.hcnt = @ + 1, !.dest_seqno = s, !.cost = cost])

\* A route whose channel is unknown is deleted before it is looked at.
rreq_as_intermediate(h, m, cost, ttl, left) ==
  LET h1 == IF present(h, m.dest) /\ h.rt[m.dest].channel = NoChannel
            THEN rt_table_delete(h, m.dest) ELSE h
  IN  IF /\ valid(h1, m.dest)
         /\ h1.rt[m.dest].seqno # 0
         /\ ~newer(m.dest_seqno, h1.rt[m.dest].seqno)
      THEN rreq_answer_from_table(h1, m, left)
      ELSE rreq_forward_with_channel(h1, m, cost, ttl)

rreq_process(h, m, src, channel, ttl, link, left) ==
  LET cost == m.cost + link
      h1   == rreq_record_insert_with_cost(h, m, cost)
      h2   == rreq_reverse_route(h1, m, src, channel, cost)
  IN  IF m.orig = h.ipaddr \/ src \in h.blacklist THEN h
      ELSE IF rreq_record_find_less_cost(h, m, cost) THEN h
      ELSE IF present(h1, m.orig) /\ ~rreq_better(h1.rt[m.orig], m, cost) THEN h1
      ELSE IF m.dest = h.ipaddr THEN rreq_answer_as_dest(h2, m, channel)
      ELSE rreq_as_intermediate(h2, m, cost, ttl, left)

---------------------------------------------------------------------------
(* RERR *)

\* A receiver walks the destinations in steps of one RERR_udest from dest_addr,
\* but rerr_add_udest puts the second one behind rerr_id and rerr_origin_addr,
\* which are zero: with several destinations it reads <0, 0> as the second and
\* never reaches the last.
greatest(S) == CHOOSE x \in S : \A y \in S : y <= x

rerr_read(m) ==
  LET rest == {u.addr : u \in m.dests} \ {m.first}
  IN  IF rest = {} THEN m.dests
      ELSE {u \in m.dests : u.addr = m.first}
           \cup (IF m.first = 0 THEN {} ELSE {[addr |-> 0, seqno |-> 0]})
           \cup {u \in m.dests : u.addr \in rest \ {0, greatest(rest)}}

rerr_process(h, m, src) ==
  LET read == {u \in rerr_read(m) : valid(h, u.addr) /\ h.rt[u.addr].next = src}
      hit  == {u.addr : u \in read}
      seq(d) == (CHOOSE u \in read : u.addr = d).seqno
      told == {d \in hit : h.rt[d].prec # {} /\ "REPAIR" \notin h.rt[d].flags}
      prec == [d \in Addr |-> h.rt[d].prec]
      gone(e, s) == IF m.n THEN [e EXCEPT !.seqno = s]
                    ELSE [invalidated(e) EXCEPT !.seqno = s, !.prec = {}]
      h1 == [h EXCEPT
               !.rt = [d \in Addr |-> IF d \in hit THEN gone(h.rt[d], seq(d)) ELSE h.rt[d]],
               !.num_active = IF m.n THEN @ ELSE plus(@, -Cardinality(hit))]
  IN  sendRerr(h1, IF m.first \in told THEN m.first ELSE least(told), told, prec, m.n)

---------------------------------------------------------------------------
(* HELLO *)

\* The neighbour's HELLO is acknowledged on its channel, then the entry is
\* created or refreshed.  `listed`: its neighbour-set extension names this
\* host; `close`: it came within 1.5 intervals of the previous one.
hello_flags(h, d, listed) ==
  LET f == (IF present(h, d) THEN h.rt[d].flags ELSE {})
           \cup (IF unidir_hack THEN {"UNIDIR"} ELSE {})
  IN  IF listed THEN f \ {"UNIDIR"} ELSE f

hello_ack(h, d, channel) ==
  aodv_socket_send([h EXCEPT !.channelNum = channel], d, MAXTTL, [type |-> "HELLO_ACK"])

hello_process(h, d, seqno, channel, listed, close) ==
  LET h1  == hello_ack(h, d, channel)
      f   == hello_flags(h, d, listed)
      e   == h.rt[d]
      on(x) == [x EXCEPT !.rt[d].hello = TRUE]
      st  == IF receive_n_hellos > 0 THEN "invalid" ELSE "valid"
  IN  IF ~present(h, d)
      THEN on([rt_table_insert(h1, d, d, 1, seqno, 1, st, f) EXCEPT !.rt[d].hello_cnt = 1])
      ELSE IF "UNIDIR" \in f /\ e.state = "valid" /\ e.hcnt > 1 THEN on(h1)
      ELSE IF e.hello_cnt + 1 < receive_n_hellos
      THEN [h1 EXCEPT !.rt[d].hello_cnt = IF close THEN @ + 1 ELSE 1]
      ELSE on(rt_table_update(h1, d, d, 1, seqno, f))

\* Mutant: only the neighbour's own entry is invalidated.
hello_timeout_entry_only(h, d) ==
  LET h1 == [h EXCEPT !.rt[d].hello = FALSE]
  IN  IF valid(h, d) /\ "UNIDIR" \notin h.rt[d].flags
      THEN rt_table_invalidate(h1, d) ELSE h1

\* hello_timer of an entry
hello_timeout(h, d) ==
  LET h1 == [h EXCEPT !.rt[d].hello = FALSE]
  IN  IF valid(h, d) /\ "UNIDIR" \notin h.rt[d].flags
      THEN neighbor_link_break(h1, d) ELSE h1

---------------------------------------------------------------------------
(* Route timeouts *)

route_expire_timeout(h, d) ==
  LET h1 == [h EXCEPT !.rt[d].armed = FALSE]
  IN  IF h.rt[d].hcnt = 1 THEN neighbor_link_break(h1, d)
      ELSE precursor_list_destroy(rt_table_invalidate(h1, d), d)

route_delete_timeout(h, d) == rt_table_delete(h, d)

wait_on_reboot_timeout(h) == [h EXCEPT !.wait_on_reboot = FALSE]

---------------------------------------------------------------------------
(* Data packets *)

\* A packet without a usable route, received from another node: its source is
\* told.
no_route_rerr(h, src, dest) ==
  LET s   == IF present(h, dest) THEN h.rt[dest].seqno ELSE 0
      dst == IF valid(h, src) THEN h.rt[src].next ELSE Bcast
  IN  aodv_socket_send(rt_table_update_timeout(h, dest), dst, 1,
        [type |-> "RERR", first |-> dest, n |-> FALSE,
         dests |-> {[addr |-> dest, seqno |-> s]}])

\* processPacket; src = ipaddr for a packet that originates here.
processPacket(h, src, dest, tcp, v, vo) ==
  LET h1 == rt_table_update_route_timeouts(h, dest, src, llfeedback)
      usable == valid(h1, dest)
                /\ ~(h1.rt[dest].hcnt = 1 /\ "UNIDIR" \in h1.rt[dest].flags)
  IN  IF dest = h.ipaddr THEN h1
      ELSE IF usable
      THEN sendPacket(h1, h1.rt[dest].next, MAXTTL,
                      [type |-> "DATA", src |-> src, dest |-> dest])
      ELSE IF src # h.ipaddr THEN no_route_rerr(h1, src, dest)
      ELSE rreq_route_discovery(packet_queue_add(h1, dest, "own", v, vo), dest, tcp)

\* packetFailed, the link-layer callback for a data packet to dest sent to nh.
packetFailed(h, dest, o, nh, v, vo) ==
  IF h.seek[dest].on THEN packet_queue_add(h, dest, o, v, vo)
  ELSE IF ~valid(h, nh) \/ ~valid(h, dest) \/ h.rt[dest].next # nh THEN h
  ELSE neighbor_link_break(h, nh)

---------------------------------------------------------------------------
(* Entry point for control messages *)

\* aodv_socket_process_packet for everything but a HELLO.  RERRs are handled
\* by the caller, which holds the record list all nodes share.
aodv_socket_process_packet(h, m, src, channel, ttl, link, left) ==
  LET h1 == neighbor_add(h, src)
  IN  CASE m.type = "RREQ" -> rreq_process(h1, m, src, channel, ttl, link, left)
        [] m.type = "RREP" -> rrep_process(h1, m, src, channel, link)
        [] m.type = "RERR" -> rerr_process(h1, m, src)
        [] m.type = "HELLO_ACK" -> rrep_ack_process(h1, src, TRUE)
        [] m.type = "RREP_ACK" -> rrep_ack_process(h1, src, FALSE)

---------------------------------------------------------------------------
(* Types *)

Udest == [addr : Addr, seqno : Seqno]

RREQ ==
  [type : {"RREQ"}, id : 0 .. CounterMod - 1, dest : Addr, dest_seqno : Seqno,
   orig : Addr, orig_seqno : Seqno, hcnt : Nat, g : BOOLEAN, cost : Int]

RREP ==
  [type : {"RREP"}, a : BOOLEAN, hcnt : Nat, dest : Addr, seqno : Seqno,
   orig : Addr, life : {0, 1}, ext : BOOLEAN, cost : Int]

RERR ==
  [type : {"RERR"}, first : Addr, n : BOOLEAN, dests : SUBSET Udest]

DATA == [type : {"DATA"}, src : Addr, dest : Addr]

ACK == [type : {"RREP_ACK", "HELLO_ACK"}]

Message == RREQ \cup RREP \cup RERR \cup DATA \cup ACK

Packet ==
  [dst : Addr \cup {0, Bcast}, ttl : Nat,
   ch : Channel \cup {NoChannel, AllChannels}, msg : Message]

Record == [orig : Addr, id : 0 .. CounterMod - 1, cost : Int]

Host ==
  [ipaddr : Addr, rt : [Addr -> Entry], num_entries : 0 .. CounterMod - 1,
   num_active : 0 .. CounterMod - 1, seek : [Addr -> Seek],
   queue : [Addr -> [Origin -> Nat]], pqlen : Int, seqno : Seqno,
   rreq_id : 0 .. CounterMod - 1, records : SUBSET Record,
   blacklist : SUBSET Addr, channelNum : Channel \cup {NoChannel},
   wait_on_reboot : BOOLEAN, out : SUBSET Packet]

\* The packets in the queue, one for each destination, origin and position.
Queued(q) == UNION {{<<d, o, i>> : i \in 1 .. q[d][o]} : d \in Addr, o \in Origin}
=============================================================================
