---------------------------- MODULE LocalRepair ----------------------------
(***************************************************************************)
(* Local repair (the Tcl option local_repair): a node that loses a link    *)
(* seeks the lost next hop itself, in one RREQ_LR that also names the      *)
(* destinations behind it, instead of reporting them.  The RREP_LR of any  *)
(* of them mends the routes, and a RERR_LR tells the precursors.           *)
(*                                                                         *)
(* The host record of RoutingTable gets two more fields.  A repair enters  *)
(* the next hop in the seek list without looking for it there, so an       *)
(* address may have several entries: `seek` is the newest, the one         *)
(* seek_list_find returns, and `dup` holds the older ones.  `rerr_id` is   *)
(* the number of the next RERR_LR.                                         *)
(***************************************************************************)
EXTENDS AodvControl, SequencesExt

LOCAL_ADD_TTL == 2
TTL_THRESHOLD == 7
TTL_INCREMENT == 2

RepairHost(h) ==
  [x \in DOMAIN h \cup {"dup", "rerr_id"} |->
     CASE x = "dup" -> [d \in Addr |-> <<>>] [] x = "rerr_id" -> 0 [] OTHER -> h[x]]

---------------------------------------------------------------------------
(* The seek list with duplicates *)

seeks(h, d) == IF h.seek[d].on THEN <<h.seek[d]>> \o h.dup[d] ELSE h.dup[d]
newest(list) == IF list = <<>> THEN NoSeek ELSE Head(list)
older(list) == IF list = <<>> THEN <<>> ELSE Tail(list)

with_seeks(h, d, list) ==
  [h EXCEPT !.seek[d] = newest(list), !.dup[d] = older(list)]

\* After a table operation removed the entry that was found, the next older
\* one is the one to be found.
settled(h) ==
  [h EXCEPT !.seek = [d \in Addr |-> newest(seeks(h, d))],
            !.dup = [d \in Addr |-> older(seeks(h, d))]]

\* Only the entry of a repair has a first ttl of its own.
ttl_of(s) == IF "ttl" \in DOMAIN s THEN s.ttl ELSE RREQ_TTL

---------------------------------------------------------------------------
(* The repair of a route *)

\* The order of the hash buckets (see neighbor_link_break): the i-th address is
\* the one with i - 1 smaller ones.
ordered(S) ==
  [i \in 1 .. Cardinality(S) |-> CHOOSE x \in S : Cardinality({y \in S : y < x}) = i - 1]

\* The destinations a repair names, in the order they have in the message.
udest_list(h, list) ==
  [i \in DOMAIN list |-> [addr |-> list[i], seqno |-> h.rt[list[i]].seqno]]

\* Behind the lost next hop n: first d, whose route is repaired, unless it is n
\* itself; then the others as the table has them.
behind(d, n, group) == (IF d = n THEN <<>> ELSE <<d>>) \o ordered(group \ {d, n})

\* Every entry through the next hop of d, whatever its state, is marked, and its
\* timer is given the expiry handler.  The sought address is the next hop; its
\* sequence number is known unless it is d itself.
rreq_local_repair(h, d) ==
  LET n     == h.rt[d].next
      group == {u \in Addr : present(h, u) /\ h.rt[u].next = n} \cup {d}
      far   == greatest({h.rt[u].hcnt : u \in group})
      s     == IF n \in group \ {d} THEN h.rt[n].seqno ELSE 0
      h1    == [h EXCEPT
                  !.rt = [u \in Addr |-> IF u \notin group THEN h.rt[u]
                            ELSE [h.rt[u] EXCEPT !.flags = @ \cup {"REPAIR"},
                                                 !.handler = "expire", !.armed = TRUE]],
                  !.seqno = seqno_incr(@), !.rreq_id = plus(@, 1)]
      rreq  == [type |-> "RREQ_LR", id |-> h.rreq_id, dest |-> n, dest_seqno |-> s,
                orig |-> h.ipaddr, orig_seqno |-> h1.seqno, hcnt |-> 0,
                udests |-> udest_list(h, behind(d, n, group))]
      entry == [on |-> TRUE, seqno |-> s, reqs |-> 0, g |-> TRUE,
                ttl |-> far + LOCAL_ADD_TTL]
  IN  IF "REPAIR" \notin h.rt[d].flags THEN h
      ELSE with_seeks(aodv_socket_send(h1, Bcast, far + 1, rreq), n,
                      <<entry>> \o seeks(h, n))

\* Mutant: the timer is left as it is.
local_repair_timeout_no_timer(h, d) ==
  [h EXCEPT !.rt[d].flags = @ \ {"REPAIR"}, !.rt[d].prec = {}]

\* The repair failed: the precursors are told, the entry is to be deleted.
local_repair_timeout(h, d) ==
  LET prec == h.rt[d].prec
      dst  == IF Cardinality(prec) = 1 THEN CHOOSE p \in prec : TRUE ELSE Bcast
      h1   == [h EXCEPT !.rt[d].flags = @ \ {"REPAIR"}]
      h2   == IF prec = {} THEN h1
              ELSE aodv_socket_send(h1, dst, 1, Rerr(h1, d, {d}, FALSE))
  IN  [h2 EXCEPT !.rt[d] = [@ EXCEPT !.prec = {}, !.handler = "delete", !.armed = TRUE]]

\* Mutant: one retry too many.
route_discovery_timeout_lr_late(h, d, i) ==
  LET s == seeks(h, d)[i]
      more == IF ttl_of(s) < TTL_THRESHOLD THEN [s EXCEPT !.ttl = @ + TTL_INCREMENT]
              ELSE [s EXCEPT !.reqs = @ + 1]
  IN  IF s.reqs <= RREQ_RETRIES
      THEN with_seeks(h, d, ReplaceAt(seeks(h, d), i, more))
      ELSE local_repair_timeout(with_seeks(h, d, RemoveAt(seeks(h, d), i)), d)

\* Mutant: the ring starts again instead of counting a retry.
route_discovery_timeout_lr_uncounted(h, d, i) ==
  LET s == seeks(h, d)[i]
      more == IF ttl_of(s) < TTL_THRESHOLD THEN [s EXCEPT !.ttl = @ + TTL_INCREMENT]
              ELSE [s EXCEPT !.ttl = LOCAL_ADD_TTL]
  IN  with_seeks(h, d, ReplaceAt(seeks(h, d), i, more))

\* seek_timer of the i-th entry for d.  The ring of a repair grows to
\* TTL_THRESHOLD before its retries are counted.
route_discovery_timeout_lr(h, d, i) ==
  LET s    == seeks(h, d)[i]
      ring == expanding_ring_search /\ ttl_of(s) < TTL_THRESHOLD
      more == IF ring THEN [s EXCEPT !.ttl = @ + TTL_INCREMENT]
              ELSE [s EXCEPT !.reqs = @ + 1]
      ttl  == IF ring THEN more.ttl
              ELSE IF expanding_ring_search THEN NET_DIAMETER ELSE ttl_of(s)
      h1   == with_seeks(h, d, ReplaceAt(seeks(h, d), i, more))
      h2   == with_seeks(pq_drop(h, d), d, RemoveAt(seeks(h, d), i))
  IN  IF s.reqs < RREQ_RETRIES
      THEN rreq_flood(rt_table_update_timeout(h1, d), d, s.seqno, ttl, s.g)
      ELSE IF "REPAIR" \in h2.rt[d].flags THEN local_repair_timeout(h2, d)
      ELSE h2

---------------------------------------------------------------------------
(* The events that start a repair *)

mark_repair(h, d) == [h EXCEPT !.rt[d].flags = @ \cup {"REPAIR"}]

\* interfaceQueue(IFQ_BUFFER): a packet <<dest, origin>> that waits in the
\* interface queue for the lost next hop is buffered; q = <<>>: there is none.
interfaceQueue(h, q, v, vo) ==
  IF q = <<>> THEN h ELSE packet_queue_add(h, q[1], q[2], v, vo)

\* Mutant: the next hop is invalidated, the routes through it are not.
packetFailed_lr_entry_only(h, dest, o, nh, q, v, vo, w, wo) ==
  IF ~valid(h, nh) \/ ~valid(h, dest) \/ h.rt[dest].next # nh THEN h
  ELSE rreq_local_repair(rt_table_invalidate(mark_repair(h, nh), nh), nh)

\* packetFailed, the link-layer callback.
packetFailed_lr(h, dest, o, nh, q, v, vo, w, wo) ==
  LET h1 == packet_queue_add(h, dest, o, v, vo)
      h2 == interfaceQueue(h1, q, w, wo)
  IN  IF h.seek[dest].on THEN h1
      ELSE IF ~valid(h, nh) \/ ~valid(h, dest) \/ h.rt[dest].next # nh THEN h
      ELSE IF h.rt[dest].hcnt > MAX_REPAIR_TTL THEN neighbor_link_break(h, nh)
      ELSE rreq_local_repair(neighbor_link_break(mark_repair(h2, nh), nh), dest)

\* Mutant: the neighbour is marked and invalidated, the routes through it stay.
hello_timeout_lr_entry_only(h, d, q, v, vo) ==
  LET h1 == [h EXCEPT !.rt[d].hello = FALSE]
  IN  IF ~valid(h, d) \/ "UNIDIR" \in h.rt[d].flags THEN h1
      ELSE rt_table_invalidate(mark_repair(h1, d), d)

\* hello_timer: the neighbour's routes are marked; the repair itself starts with
\* the next packet for one of them.
hello_timeout_lr(h, d, q, v, vo) ==
  LET h1 == [h EXCEPT !.rt[d].hello = FALSE]
      h2 == interfaceQueue(h1, q, v, vo)
  IN  IF ~valid(h, d) \/ "UNIDIR" \in h.rt[d].flags THEN h1
      ELSE IF h.rt[d].hcnt > MAX_REPAIR_TTL THEN neighbor_link_break(h1, d)
      ELSE neighbor_link_break(mark_repair(h2, d), d)

\* processPacket: a packet for a marked route is buffered, one in transit too,
\* and starts another repair.
processPacket_lr(h, src, dest, tcp, v, vo) ==
  LET h1 == rt_table_update_route_timeouts(h, dest, src, llfeedback)
      o  == IF src = h.ipaddr THEN "own" ELSE "transit"
      usable == valid(h1, dest)
                /\ ~(h1.rt[dest].hcnt = 1 /\ "UNIDIR" \in h1.rt[dest].flags)
  IN  IF dest # h.ipaddr /\ ~usable /\ "REPAIR" \in h1.rt[dest].flags
      THEN rreq_local_repair(packet_queue_add(h1, dest, o, v, vo), dest)
      ELSE processPacket(h, src, dest, tcp, v, vo)

---------------------------------------------------------------------------
(* RREQ_LR *)

\* The reverse route has no channel or cost of its own; a request that does not
\* improve it is processed all the same.
rreq_reverse_route_lr(h, m, src) ==
  LET hops == m.hcnt + 1
      life == PATH_DISCOVERY_TIME - 2 * hops * NODE_TRAVERSAL_TIME
      e    == h.rt[m.orig]
  IN  IF ~present(h, m.orig)
      THEN rt_table_insert(h, m.orig, src, hops, m.orig_seqno, life, "valid", {})
      ELSE IF \/ e.seqno = 0
              \/ newer(m.orig_seqno, e.seqno)
              \/ m.orig_seqno = e.seqno /\ (e.state = "invalid" \/ hops < e.hcnt)
      THEN rt_table_update(h, m.orig, src, hops, m.orig_seqno, e.flags)
      ELSE h

\* rrep_create(RREP_LOCAL_REPAIR), rrep_add_udest and rrep_send: the reply leaves
\* on the channel used last.
rrep_send_lr(h, m, U) ==
  rrep_send_with_channel(h, [type |-> "RREP_LR", hcnt |-> 0, dest |-> h.ipaddr,
                             seqno |-> h.seqno, orig |-> m.orig, udests |-> U],
                         m.orig, Bcast, h.channelNum)

\* This node is one of the destinations behind the lost next hop: it answers,
\* and the request goes on.
rreq_answer_as_udest(h, m) ==
  LET own == {u \in ToSet(m.udests) : u.addr = h.ipaddr}
      h1  == [h EXCEPT !.seqno = rreq_own_seqno(@, (CHOOSE u \in own : TRUE).seqno)]
  IN  IF own = {} THEN h
      ELSE rrep_send_lr(h1, m, <<[addr |-> h.ipaddr, seqno |-> h1.seqno]>>)

rreq_forward_lr(h, m, ttl) ==
  LET s == IF present(h, m.dest) /\ newer(h.rt[m.dest].seqno, m.dest_seqno)
           THEN h.rt[m.dest].seqno ELSE m.dest_seqno
  IN  IF ttl <= 1 THEN h
      ELSE aodv_socket_send([h EXCEPT !.channelNum = Channel_Count - 1], Bcast,
                            ttl - 1, [m EXCEPT !.hcnt = @ + 1, !.dest_seqno = s])

\* A request already seen is ignored whatever it costs.  The number of the
\* request is not that of a plain one, so the cost its record lacks is not read.
rreq_process_lr(h, m, src, ttl) ==
  LET seen == \E r \in h.records : r.orig = m.orig /\ r.id = m.id
      h1   == [h EXCEPT !.records = @ \cup {[orig |-> m.orig, id |-> m.id, cost |-> 0]}]
      h2   == rreq_answer_as_udest(settled(rreq_reverse_route_lr(h1, m, src)), m)
  IN  IF m.orig = h.ipaddr \/ src \in h.blacklist \/ seen THEN h
      ELSE IF m.dest = h.ipaddr
      THEN rrep_send_lr([h2 EXCEPT !.seqno = rreq_own_seqno(@, m.dest_seqno)], m, m.udests)
      ELSE rreq_forward_lr(h2, m, ttl)

---------------------------------------------------------------------------
(* RREP_LR *)

\* Mutant: a VALID entry is taken to be good enough.
lr_route_keeps_valid(h, m, src, d) ==
  IF valid(h, d) THEN h
  ELSE IF present(h, d)
  THEN settled(rt_table_update(h, d, src, m.hcnt + 1, m.seqno, h.rt[d].flags))
  ELSE settled(rt_table_insert(h, d, src, m.hcnt + 1, m.seqno, 1, "valid", {}))

\* On the way back every destination the reply names gets a route through its
\* sender, however fresh the entry was, and with it the flags the entry had.
lr_route(h, m, src, d) ==
  IF present(h, d)
  THEN settled(rt_table_update(h, d, src, m.hcnt + 1, m.seqno, h.rt[d].flags))
  ELSE LET h1 == settled(rt_table_insert(h, d, src, m.hcnt + 1, m.seqno, 1, "valid", {}))
       IN  settled(rt_table_update(h1, d, src, m.hcnt + 1, m.seqno, {}))

\* The destinations named are walked as the message has them; the one found comes
\* last.
rrep_relay_lr(h, m, src) ==
  LET named == [i \in DOMAIN m.udests |-> m.udests[i].addr] \o <<m.dest>>
      on(x) == IF valid(x, m.orig) THEN rrep_forward(x, m, m.orig, m.dest) ELSE x
  IN  on(FoldLeft(LAMBDA x, d : lr_route(x, m, src, d), h, named))

\* At the originator: the destination found, or one that was behind it.
mended(h, u, m, src) ==
  LET hops  == IF u = m.dest THEN m.hcnt + 1 ELSE m.hcnt + h.rt[u].hcnt
      seqno == IF u = m.dest THEN m.seqno ELSE h.rt[u].seqno
  IN  settled(rt_table_update(h, u, src, hops, seqno, {}))

\* The mended entry is named in the RERR t.rerr of the send buffer, if it has
\* precursors; a RERR that a link break sent on the way, h being the host before
\* and x after it, has replaced the one in the buffer.
tell_mended(t, x, u) ==
  LET fresh == {p.msg : p \in {q \in x.out \ t.h.out : q.msg.type = "RERR"}}
      buf   == IF t.rerr = {} \/ fresh = {} THEN t.rerr ELSE fresh
      named == [addr |-> u, seqno |-> x.rt[u].seqno]
      new   == [type |-> "RERR_LR", first |-> u, n |-> TRUE, dests |-> {named},
                id |-> x.rerr_id, origin |-> x.ipaddr]
  IN  IF x.rt[u].prec = {} THEN [t EXCEPT !.h = x, !.rerr = buf]
      ELSE IF buf = {}
      THEN [h |-> [x EXCEPT !.rerr_id = plus(@, 1)], rerr |-> {new}, prec |-> x.rt[u].prec]
      ELSE [t EXCEPT !.h = x, !.rerr = {[r EXCEPT !.dests = @ \cup {named}] : r \in buf}]

\* Mutant: only the route to the address found is mended.
mend_found_only(t, u, m, src) ==
  IF "REPAIR" \in t.h.rt[u].flags /\ u = m.dest
  THEN tell_mended(t, mended(t.h, u, m, src), u) ELSE t

mend(t, u, m, src) ==
  LET e == t.h.rt[u]
  IN  IF "REPAIR" \in e.flags /\ (u = m.dest \/ e.next = m.dest)
      THEN tell_mended(t, mended(t.h, u, m, src), u) ELSE t

\* The RERR goes to the only precursor of its only destination.  With several
\* precursors the address is never initialised: it may be any address, and the
\* RERR goes there when the table has an entry for it.
send_mended(t, junk) ==
  LET r   == CHOOSE x \in t.rerr : TRUE
      one == IF Cardinality(t.prec) = 1 THEN CHOOSE p \in t.prec : TRUE ELSE junk
      dst == IF Cardinality(r.dests) = 1 /\ present(t.h, one) /\ one # 0
             THEN one ELSE Bcast
  IN  IF t.rerr = {} THEN t.h ELSE aodv_socket_send(t.h, dst, 1, r)

rrep_origin_lr(h, m, src, junk) ==
  send_mended(FoldLeft(LAMBDA x, u : mend(x, u, m, src),
                       [h |-> h, rerr |-> {}, prec |-> {}], ordered(Addr)), junk)

rrep_process_lr(h, m, src, junk) ==
  IF m.dest = h.ipaddr THEN h
  ELSE IF m.orig = h.ipaddr THEN rrep_origin_lr(h, m, src, junk)
  ELSE rrep_relay_lr(h, m, src)

\* A plain RREP that ends a repair on a longer route: its precursors are told
\* to look for a better one, without deleting theirs.
tell_longer(h, d, hops) ==
  IF h.rt[d].hcnt > hops /\ h.rt[d].prec # {}
  THEN aodv_socket_send(h, Bcast, 1, Rerr(h, d, {d}, TRUE)) ELSE h

rrep_process_in_repair(h, m, src, channel, link) ==
  LET e    == h.rt[m.dest]
      cost == IF m.ext THEN m.cost + link ELSE NoExtCost
      h1   == rrep_process(h, m, src, channel, link)
  IN  IF /\ m.orig = h.ipaddr
         /\ present(h, m.dest) /\ "REPAIR" \in e.flags
         /\ rrep_better(e, m.seqno, cost)
      THEN tell_longer(h1, m.dest, e.hcnt) ELSE h1

---------------------------------------------------------------------------
(* RERR_LR *)

\* The destinations as the receiver reads them (see rerr_read); here the second
\* pair is the id and the origin of the RERR.
rerr_read_lr(m) ==
  LET rest == {u.addr : u \in m.dests} \ {m.first}
      seq(d) == (CHOOSE u \in m.dests : u.addr = d).seqno
      as(D) == [i \in 1 .. Cardinality(D) |->
                  [addr |-> ordered(D)[i], seqno |-> seq(ordered(D)[i])]]
  IN  IF rest = {} THEN as({m.first})
      ELSE as({m.first}) \o <<[addr |-> m.id, seqno |-> m.origin]>>
           \o as(rest \ {greatest(rest)})

\* One destination: it is sought again although its route is kept.  The RREQs
\* are built in the send buffer, over the RERR that is being put together.
lose_lr(t, u, src) ==
  LET d  == u.addr
      h1 == [rreq_route_discovery(t.h, d, FALSE) EXCEPT !.rt[d].seqno = u.seqno]
      tell == t.h.rt[d].prec # {} /\ "REPAIR" \notin t.h.rt[d].flags
  IN  IF ~valid(t.h, d) \/ t.h.rt[d].next # src THEN t
      ELSE [h |-> h1, told |-> IF tell THEN Append(t.told, d) ELSE t.told,
            spoilt |-> t.spoilt \/ (t.told # <<>> /\ ~t.h.seek[d].on)]

udests(h, D) == {[addr |-> u, seqno |-> h.rt[u].seqno] : u \in D}

\* The RERR is passed on with the id and the origin it came with.
pass_on_lr(t, m) ==
  LET D    == ToSet(t.told)
      prec == [u \in Addr |-> t.h.rt[u].prec]
      new  == [m EXCEPT !.first = Head(t.told), !.dests = udests(t.h, D)]
  IN  IF t.told = <<>> THEN t.h
      ELSE aodv_socket_send(t.h, RerrDst(t.h, D, prec), 1,
                            IF t.spoilt THEN [type |-> "OVERWRITTEN"] ELSE new)

rerr_process_lr(h, m, src) ==
  pass_on_lr(FoldLeft(LAMBDA x, u : lose_lr(x, u, src),
                      [h |-> h, told |-> <<>>, spoilt |-> FALSE], rerr_read_lr(m)), m)

---------------------------------------------------------------------------
(* Entry point for control messages *)

process_lr(h, m, src, channel, ttl, link, left, junk) ==
  CASE m.type = "RREQ_LR" -> rreq_process_lr(h, m, src, ttl)
    [] m.type = "RREP_LR" -> rrep_process_lr(h, m, src, junk)
    [] m.type = "RERR_LR" -> rerr_process_lr(h, m, src)
    [] m.type = "RREQ" -> rreq_process(h, m, src, channel, ttl, link, left)
    [] m.type = "RREP" -> rrep_process_in_repair(h, m, src, channel, link)
    [] m.type = "RERR" -> rerr_process(h, m, src)

aodv_socket_process_packet_lr(h, m, src, channel, ttl, link, left, junk) ==
  settled(process_lr(settled(neighbor_add(h, src)), m, src, channel, ttl, link, left, junk))
=============================================================================
