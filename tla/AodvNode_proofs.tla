-------------------------- MODULE AodvNode_proofs --------------------------
(***************************************************************************)
(* Proofs about AodvNode, for every set of addresses, messages and options.*)
(*                                                                         *)
(* One inductive invariant carries the four state invariants: IInv, which  *)
(* is Good of AodvControl_proofs for the host of the node.                 *)
(*                                                                         *)
(* The second half follows a link break through the handlers: Traced       *)
(* relates the host at the start of an event to the host after each step   *)
(* of the handler, Done to the host at its end.                            *)
(***************************************************************************)
EXTENDS AodvNode, AodvControl_proofs

---------------------------------------------------------------------------
(* The inductive invariant *)

\* The invariant: Good, and the type of the shared RERR records.
IInv == Good(host, Self) /\ rerr_records \subseteq Addr

\* A node that has just started satisfies the invariant.
LEMMA InitIInv == Init => IInv
BY InitHostGood, NodeAssumption DEF Init, IInv

\* The host at the start of every event.
LEMMA IdleGood ==
  ASSUME IInv
  PROVE  /\ Good(idle, Self) /\ idle.rt = host.rt
         /\ idle.queue = host.queue /\ idle.pqlen = host.pqlen
<1>1. Good(host, Self) /\ host \in Host
  BY DEF IInv, Good
<1>2. Good(idle, Self)
  BY <1>1, SetOut DEF idle
<1> QED BY <1>1, <1>2 DEF idle, Host

\* Every arriving message, data packet or link failure preserves the invariant.
LEMMA ReceiveIInv == IInv /\ Receive => IInv'
<1> SUFFICES ASSUME IInv, Receive PROVE IInv'
  OBVIOUS
<1>1. Good(idle, Self)
  BY IdleGood
<1>2. 0 \in Channel /\ Neighbor \subseteq Addr /\ rerr_records \subseteq Addr
  BY ChannelAssumption DEF Channel, Neighbor, IInv
<1>10. \A v \in Addr, vo \in Origin : Oldest(v, vo) => Room(idle, v, vo)
  BY IdleGood DEF Oldest, Room
<1>3. CASE \E m \in RREQs, src \in Neighbor, c \in Channel, ttl \in {1, 2},
              link \in LinkCost, left \in {0, 1} : RecvRreq(m, src, c, ttl, link, left)
  BY <1>1, <1>2, <1>3, ProcessGood, NodeAssumption DEF RecvRreq, IInv
<1>4. CASE \E m \in RREPs, src \in Neighbor, c \in Channel, link \in LinkCost :
              RecvRrep(m, src, c, link)
  BY <1>1, <1>2, <1>4, ProcessGood, NodeAssumption DEF RecvRrep, IInv
<1>5. CASE \E m \in RERRs, src \in Neighbor : RecvRerr(m, src)
  <2>1. PICK m \in RERRs, src \in Neighbor : RecvRerr(m, src)
    BY <1>5
  <2>2. m \in RERR /\ src \in Addr
    BY <1>2, NodeAssumption
  <2>3. /\ Good(neighbor_add(idle, src), Self)
        /\ Good(aodv_socket_process_packet(idle, m, src, 0, 1, 0, 1), Self)
    BY <1>1, <1>2, <2>2, NeighborAddGood, ProcessGood
  <2> QED BY <1>2, <2>1, <2>2, <2>3 DEF RecvRerr, IInv
<1>6. CASE \E src \in Neighbor, type \in {"RREP_ACK", "HELLO_ACK"} : RecvAck(src, type)
  <2>1. PICK src \in Neighbor, type \in {"RREP_ACK", "HELLO_ACK"} : RecvAck(src, type)
    BY <1>6
  <2>2. [type |-> type] \in ACK
    BY DEF ACK
  <2>3. Good(aodv_socket_process_packet(idle, [type |-> type], src, 0, 1, 0, 1), Self)
    BY <1>1, <1>2, <2>2, ProcessGood
  <2> QED BY <1>2, <2>1, <2>3 DEF RecvAck, IInv
<1>7. CASE \E src \in Neighbor, s \in HelloSeqno, c \in Channel, listed, close \in BOOLEAN :
              RecvHello(src, s, c, listed, close)
  BY <1>1, <1>2, <1>7, HelloGood, NodeAssumption DEF RecvHello, IInv
<1>8. CASE \E src, dest \in Addr, tcp \in BOOLEAN, v \in Addr, vo \in Origin :
              RecvData(src, dest, tcp, v, vo)
  BY <1>1, <1>2, <1>8, <1>10, ProcessPacketGood DEF RecvData, IInv
<1>9. CASE \E dest, nh \in Neighbor, o \in Origin, v \in Addr, vo \in Origin :
              PacketFailed(dest, o, nh, v, vo)
  BY <1>1, <1>2, <1>9, <1>10, PacketFailedGood DEF PacketFailed, IInv
<1> QED BY <1>3, <1>4, <1>5, <1>6, <1>7, <1>8, <1>9 DEF Receive

\* Every timer preserves the invariant.
LEMMA TimeoutIInv == IInv /\ Timeout => IInv'
<1> SUFFICES ASSUME IInv, Timeout PROVE IInv'
  OBVIOUS
<1>1. Good(idle, Self) /\ idle.rt = host.rt /\ idle.queue = host.queue
  BY IdleGood
<1>2. rerr_records \subseteq Addr
  BY DEF IInv
<1>3. ASSUME NEW d \in Addr, RouteExpire(d) PROVE IInv'
  BY <1>1, <1>2, <1>3, RouteExpireGood DEF RouteExpire, IInv
<1>4. ASSUME NEW d \in Addr, RouteDelete(d) PROVE IInv'
  BY <1>1, <1>2, <1>4, DeleteGood DEF RouteDelete, route_delete_timeout, IInv
<1>5. ASSUME NEW d \in Addr, HelloTimeout(d) PROVE IInv'
  BY <1>1, <1>2, <1>5, HelloTimeoutGood DEF HelloTimeout, IInv
<1>6. ASSUME NEW d \in Addr, AckTimeout(d) PROVE IInv'
  BY <1>1, <1>2, <1>6, AckTimeoutGood DEF AckTimeout, IInv
<1>7. ASSUME NEW d \in Addr, SeekTimeout(d) PROVE IInv'
  BY <1>1, <1>2, <1>7, SeekTimeoutGood DEF SeekTimeout, IInv
<1>8. ASSUME NEW r, RecordTimeout(r) PROVE IInv'
  <2>1. idle.records \ {r} \in SUBSET Record
    BY <1>1, HostFields
  <2> QED BY <1>1, <1>2, <1>8, <2>1, SetRecords DEF RecordTimeout, rreq_record_timeout, IInv
<1>9. ASSUME NEW a, BlacklistTimeout(a) PROVE IInv'
  <2>1. Good([idle EXCEPT !.blacklist = idle.blacklist \ {a}], Self)
    BY <1>1 DEF Good, Host
  <2> QED BY <1>2, <1>9, <2>1 DEF BlacklistTimeout, rreq_blacklist_timeout, IInv
<1>10. ASSUME NEW v \in Addr, NEW vo \in Origin, GarbageCollect(v, vo) PROVE IInv'
  BY <1>1, <1>2, <1>10, GarbageCollectGood DEF GarbageCollect, IInv
<1>11. ASSUME RebootOver PROVE IInv'
  <2>1. Good([idle EXCEPT !.wait_on_reboot = FALSE], Self)
    BY <1>1 DEF Good, Host
  <2> QED BY <1>2, <1>11, <2>1 DEF RebootOver, wait_on_reboot_timeout, IInv
<1> QED BY <1>3, <1>4, <1>5, <1>6, <1>7, <1>8, <1>9, <1>10, <1>11 DEF Timeout

\* The invariant is inductive.
LEMMA NextIInv == IInv /\ [Next]_vars => IInv'
<1>1. IInv /\ Elsewhere => IInv'
  BY DEF Elsewhere, RerrElsewhere, RerrRecordTimeout, Neighbor, IInv
<1>2. IInv /\ UNCHANGED vars => IInv'
  BY DEF vars, IInv
<1> QED BY <1>1, <1>2, ReceiveIInv, TimeoutIInv DEF Next

\* Every operation of the code keeps the routing table, the seek list and the
\* packet queue consistent, whatever messages arrive and timers fire.
THEOREM Invariance == Spec => []IInv
BY InitIInv, NextIInv, PTL DEF Spec

\* The counter of the packet queue (packet_queue.c, PQ.len) is the number of the
\* packets in it, through buffering, sending, dropping and garbage collection,
\* and the queue never grows past MAX_QUEUE_LENGTH.
THEOREM QueueBounded == Spec => []QueueWithinLimit
<1>1. IInv => QueueWithinLimit
  BY DEF IInv, Good, Counted, QueueWithinLimit
<1> QED BY <1>1, Invariance, PTL

\* The node's state keeps its type: no counter, sequence number or message
\* leaves its range.
THEOREM TypeCorrect == Spec => []TypeOK
<1>1. IInv => TypeOK
  BY DEF IInv, Good, TypeOK
<1> QED BY <1>1, Invariance, PTL

\* No discovery runs for a destination processPacket could route to.
THEOREM SoughtUnusable == Spec => []SoughtRouteUnusable
<1>1. IInv => SoughtRouteUnusable
  BY DEF IInv, Good, Unsought, SoughtRouteUnusable, valid
<1> QED BY <1>1, Invariance, PTL

\* No packet is left in the queue when the discovery for it has ended.
THEOREM BufferedAwait == Spec => []BufferedPacketsAwaitDiscovery
<1>1. IInv => BufferedPacketsAwaitDiscovery
  BY DEF IInv, Good, Awaited, BufferedPacketsAwaitDiscovery, buffered
<1> QED BY <1>1, Invariance, PTL

\* Every INVALID entry has its deletion timer running, no VALID one has.
THEOREM InvalidGo == Spec => []InvalidRoutesWillGo
<1>1. IInv => InvalidRoutesWillGo
  BY DEF IInv, Good, RouteOK, InvalidRoutesWillGo, valid, invalid
<1> QED BY <1>1, Invariance, PTL

---------------------------------------------------------------------------
(* Broken links: what an event may do to the routes it started with *)

\* An entry of a neighbour, and one that was a neighbour when the event began.
NeighborOf(h, n) == n \in Addr /\ h.rt[n].state = "valid" /\ h.rt[n].hcnt = 1
Former(h0, h, n) == NeighborOf(h0, n) /\ ~NeighborOf(h, n)

NoneThrough(h, n) == \A d \in Addr : h.rt[d].state = "valid" => h.rt[d].next # n

\* A host one hop away is its own next hop.
Direct(h) ==
  \A d \in Addr : h.rt[d].state # "none" /\ h.rt[d].hcnt = 1 => h.rt[d].next = d

\* No VALID route goes through a host that was a neighbour and is none now.
Cut(h0, h) == \A n \in Addr : Former(h0, h, n) => NoneThrough(h, n)

\* A VALID route with precursors stays one, or a RERR names it.
Told(h0, h) ==
  \A d \in Addr : h0.rt[d].state = "valid" /\ h0.rt[d].prec # {} =>
    reported(h, d) \/ (h.rt[d].state = "valid" /\ h.rt[d].prec # {})

\* What holds between the host at the start of an event and after every step
\* of its handler.
Traced(h0, h) == Direct(h) /\ Cut(h0, h) /\ Told(h0, h)

\* What remains of it at the end: the property of the event.
LinksReported(h0, h) ==
  \A n \in Addr : NeighborOf(h0, n) /\ h.rt[n].state = "invalid" =>
    /\ NoneThrough(h, n)
    /\ \A d \in Addr :
         /\ h0.rt[d].state = "valid" /\ h0.rt[d].next = n /\ h0.rt[d].prec # {}
         /\ h.rt[d].state = "invalid"
         => reported(h, d)

Done(h0, h) == Direct(h) /\ LinksReported(h0, h)

\* Entry f leads the same way as e and has its precursors.
KeepsRoute(f, e) ==
  f.state = e.state /\ f.next = e.next /\ f.hcnt = e.hcnt /\ e.prec \subseteq f.prec

\* The host g has the routes of h and has sent at least what h has.
Same(h, g) == (\A d \in Addr : KeepsRoute(g.rt[d], h.rt[d])) /\ h.out \subseteq g.out

\* A host with the same table, which may have sent more.
LEMMA SameTable ==
  ASSUME NEW h, NEW g, g.rt = h.rt, h.out \subseteq g.out PROVE Same(h, g)
BY DEF Same, KeepsRoute

\* Same is transitive.
LEMMA SameTrans ==
  ASSUME NEW h, NEW g, NEW k, Same(h, g), Same(g, k) PROVE Same(h, k)
BY DEF Same, KeepsRoute

\* What was reported stays reported.
LEMMA ReportedStays ==
  ASSUME NEW h, NEW g, NEW d, h.out \subseteq g.out, reported(h, d) PROVE reported(g, d)
BY DEF reported

\* A step that keeps the routes keeps the trace of the event.
LEMMA TracedSame ==
  ASSUME NEW h0, NEW h, NEW g, Traced(h0, h), Same(h, g) PROVE Traced(h0, g)
<1>1. Direct(g)
  BY DEF Traced, Direct, Same, KeepsRoute
<1>2. \A n \in Addr : NeighborOf(g, n) <=> NeighborOf(h, n)
  BY DEF NeighborOf, Same, KeepsRoute
<1>3. Cut(h0, g)
  BY <1>2 DEF Traced, Cut, Former, NoneThrough, Same, KeepsRoute
<1>4. Told(h0, g)
  <2> SUFFICES ASSUME NEW d \in Addr, h0.rt[d].state = "valid", h0.rt[d].prec # {}
               PROVE  reported(g, d) \/ (g.rt[d].state = "valid" /\ g.rt[d].prec # {})
    BY DEF Told
  <2>1. CASE reported(h, d)
    BY <2>1, ReportedStays DEF Same
  <2>2. CASE h.rt[d].state = "valid" /\ h.rt[d].prec # {}
    BY <2>2 DEF Same, KeepsRoute
  <2> QED BY <2>1, <2>2 DEF Traced, Told
<1> QED BY <1>1, <1>3, <1>4 DEF Traced

\* And so does it keep the property of the event.
LEMMA DoneSame ==
  ASSUME NEW h0, NEW h, NEW g, Done(h0, h), Same(h, g) PROVE Done(h0, g)
<1>1. Direct(g)
  BY DEF Done, Direct, Same, KeepsRoute
<1>2. LinksReported(h0, g)
  <2> SUFFICES ASSUME NEW n \in Addr, NeighborOf(h0, n), g.rt[n].state = "invalid"
               PROVE  /\ NoneThrough(g, n)
                      /\ \A d \in Addr :
                           /\ h0.rt[d].state = "valid" /\ h0.rt[d].next = n
                           /\ h0.rt[d].prec # {} /\ g.rt[d].state = "invalid"
                           => reported(g, d)
    BY DEF LinksReported
  <2>1. h.rt[n].state = "invalid"
    BY DEF Same, KeepsRoute
  <2>2. NoneThrough(g, n)
    BY <2>1 DEF Done, LinksReported, NoneThrough, Same, KeepsRoute
  <2>3. ASSUME NEW d \in Addr, h0.rt[d].state = "valid", h0.rt[d].next = n,
               h0.rt[d].prec # {}, g.rt[d].state = "invalid"
        PROVE  reported(g, d)
    <3>1. reported(h, d)
      BY <2>1, <2>3 DEF Done, LinksReported, Same, KeepsRoute
    <3> QED BY <3>1, ReportedStays DEF Same
  <2> QED BY <2>2, <2>3
<1> QED BY <1>1, <1>2 DEF Done

\* The trace implies the property.
LEMMA TracedDone ==
  ASSUME NEW h0, NEW h, Traced(h0, h) PROVE Done(h0, h)
BY DEF Traced, Done, LinksReported, Cut, Told, Former, NeighborOf

\* An event starts with its own trace.
LEMMA TracedStart ==
  ASSUME NEW h, Direct(h) PROVE Traced(h, h)
BY DEF Traced, Cut, Told, Former

\* Deleting an entry reports nothing and breaks no link.
LEMMA DeleteDone ==
  ASSUME NEW h0, NEW h, Good(h, Self), Done(h0, h), NEW d PROVE Done(h0, rt_table_delete(h, d))
<1>1. CASE present(h, d)
  <2> DEFINE g == rt_table_delete(h, d)
  <2>1. g.rt = [h.rt EXCEPT ![d] = NoEntry] /\ g.out = h.out /\ h.rt \in [Addr -> Entry]
    BY <1>1 DEF rt_table_delete, Good, Host
  <2>2. NoEntry.state = "none"
    BY DEF NoEntry
  <2> HIDE DEF g
  <2>3. \A u \in Addr : g.rt[u] = IF u = d THEN NoEntry ELSE h.rt[u]
    BY <2>1
  <2>4. \A u : reported(g, u) <=> reported(h, u)
    BY <2>1 DEF reported
  <2>5. Direct(g)
    BY <2>2, <2>3 DEF Done, Direct
  <2>6. LinksReported(h0, g)
    BY <2>2, <2>3, <2>4 DEF Done, LinksReported, NoneThrough
  <2>7. Done(h0, g)
    BY <2>5, <2>6 DEF Done
  <2> QED BY <2>7 DEF g
<1> QED BY <1>1 DEF rt_table_delete

---------------------------------------------------------------------------
(* Operations that keep the routes *)

\* A field of an entry that is no part of the route.
LEMMA SetEntrySame ==
  ASSUME NEW h \in Host, NEW d \in Addr, NEW e, KeepsRoute(e, h.rt[d])
  PROVE  Same(h, [h EXCEPT !.rt[d] = e])
<1> DEFINE g == [h EXCEPT !.rt[d] = e]
<1>1. g.rt = [h.rt EXCEPT ![d] = e] /\ g.out = h.out /\ h.rt \in [Addr -> Entry]
  BY DEF Host
<1> HIDE DEF g
<1>2. Same(h, g)
  BY <1>1 DEF Same, KeepsRoute
<1> QED BY <1>2 DEF g

\* The timers, the flags and the precursors of an entry.
LEMMA SetFieldSame ==
  ASSUME NEW h \in Host, NEW d \in Addr, NEW x, NEW P, h.rt[d].prec \subseteq P
  PROVE  /\ Same(h, [h EXCEPT !.rt[d].armed = x])
         /\ Same(h, [h EXCEPT !.rt[d].hello = x])
         /\ Same(h, [h EXCEPT !.rt[d].ack = x])
         /\ Same(h, [h EXCEPT !.rt[d].hello_cnt = x])
         /\ Same(h, [h EXCEPT !.rt[d].flags = x])
         /\ Same(h, [h EXCEPT !.rt[d].prec = P])
<1> DEFINE e == h.rt[d]
<1>1. e \in Entry
  BY DEF Host
<1>2. /\ KeepsRoute([e EXCEPT !.armed = x], e)
      /\ KeepsRoute([e EXCEPT !.hello = x], e)
      /\ KeepsRoute([e EXCEPT !.ack = x], e)
      /\ KeepsRoute([e EXCEPT !.hello_cnt = x], e)
      /\ KeepsRoute([e EXCEPT !.flags = x], e)
  BY <1>1 DEF KeepsRoute, Entry
<1>3. KeepsRoute([e EXCEPT !.prec = P], e)
  BY <1>1 DEF KeepsRoute, Entry
<1>4. Same(h, [h EXCEPT !.rt[d] = [e EXCEPT !.armed = x]])
  BY <1>2, SetEntrySame
<1>5. Same(h, [h EXCEPT !.rt[d] = [e EXCEPT !.hello = x]])
  BY <1>2, SetEntrySame
<1>6. Same(h, [h EXCEPT !.rt[d] = [e EXCEPT !.ack = x]])
  BY <1>2, SetEntrySame
<1>7. Same(h, [h EXCEPT !.rt[d] = [e EXCEPT !.hello_cnt = x]])
  BY <1>2, SetEntrySame
<1>8. Same(h, [h EXCEPT !.rt[d] = [e EXCEPT !.flags = x]])
  BY <1>2, SetEntrySame
<1>9. Same(h, [h EXCEPT !.rt[d] = [e EXCEPT !.prec = P]])
  BY <1>3, SetEntrySame
<1> QED BY <1>4, <1>5, <1>6, <1>7, <1>8, <1>9 DEF Host

\* sendPacket adds one packet.
LEMMA SendPacketSame ==
  ASSUME NEW h \in Host, NEW dst, NEW ttl, NEW m
  PROVE  Same(h, sendPacket(h, dst, ttl, m))
<1> DEFINE g == sendPacket(h, dst, ttl, m)
<1>1. g.rt = h.rt /\ h.out \subseteq g.out
  BY DEF sendPacket, Host
<1> QED BY <1>1, SameTable

\* aodv_socket_send adds at most one.
LEMMA SocketSendSame ==
  ASSUME NEW h \in Host, NEW dst, NEW ttl, NEW m
  PROVE  Same(h, aodv_socket_send(h, dst, ttl, m))
<1>1. Same(h, h)
  BY SameTable
<1> QED BY <1>1, SendPacketSame DEF aodv_socket_send

\* A RERR names all its destinations.
LEMMA SendRerrReports ==
  ASSUME NEW h \in Host, NEW first, NEW D, NEW prec, NEW n
  PROVE  /\ Same(h, sendRerr(h, first, D, prec, n))
         /\ \A u \in D : reported(sendRerr(h, first, D, prec, n), u)
<1> DEFINE m == Rerr(h, first, D, n)
           dst == RerrDst(h, D, prec)
           p == [dst |-> dst, ttl |-> 1, msg |-> m,
                 ch |-> IF dst = Bcast THEN AllChannels ELSE h.channelNum]
           g == sendRerr(h, first, D, prec, n)
<1>1. Same(h, g)
  <2>1. Same(h, h)
    BY SameTable
  <2> QED BY <2>1, SocketSendSame DEF sendRerr
<1>2. ASSUME NEW u \in D PROVE reported(g, u)
  <2>1. m.type = "RERR" /\ \E v \in m.dests : v.addr = u
    <3>1. [addr |-> u, seqno |-> h.rt[u].seqno] \in m.dests
      BY DEF Rerr
    <3>2. [addr |-> u, seqno |-> h.rt[u].seqno].addr = u
      OBVIOUS
    <3>3. m.type = "RERR"
      BY DEF Rerr
    <3> HIDE DEF m
    <3> QED BY <3>1, <3>2, <3>3
  <2>2. g = [h EXCEPT !.out = h.out \cup {p}]
    <3>1. D # {}
      OBVIOUS
    <3> QED BY <2>1, <3>1 DEF sendRerr, aodv_socket_send, sendPacket
  <2>3. g.out = h.out \cup {p}
    BY <2>2 DEF Host
  <2>4. p \in g.out /\ p.msg = m
    BY <2>3
  <2> HIDE DEF g, p, m
  <2> QED BY <2>1, <2>4 DEF reported
<1> QED BY <1>1, <1>2

\* rt_table_update_timeout and precursor_add keep the routes.
LEMMA UpdateTimeoutSame ==
  ASSUME NEW h \in Host, NEW d PROVE Same(h, rt_table_update_timeout(h, d))
<1>1. Same(h, h)
  BY SameTable
<1> QED BY <1>1, SetFieldSame DEF rt_table_update_timeout, present

\* precursor_add keeps the precursors that were there.
LEMMA PrecursorAddSame ==
  ASSUME NEW h \in Host, NEW d, NEW a PROVE Same(h, precursor_add(h, d, a))
<1>1. Same(h, h)
  BY SameTable
<1>2. CASE present(h, d) /\ a \in Addr
  <2>1. d \in Addr
    BY <1>2 DEF present
  <2>2. Same(h, [h EXCEPT !.rt[d].prec = h.rt[d].prec \cup {a}])
    BY <2>1, SetFieldSame
  <2> QED BY <1>2, <2>2 DEF precursor_add
<1> QED BY <1>1, <1>2 DEF precursor_add

\* The end of a discovery sends packets and arms timers.
LEMMA SeekFoundSame ==
  ASSUME NEW h, NEW d \in Addr, GoodButFor(h, d, Self) PROVE Same(h, seek_found(h, d))
<1>0. h \in Host /\ Same(h, h)
  BY SameTable DEF GoodButFor
<1>1. CASE h.seek[d].on
  <2> DEFINE h0 == [h EXCEPT !.seek[d] = NoSeek]
             nh == h0.rt[d].next
             h1 == cleared(h0, d)
             h2 == IF h0.queue[d]["own"] = 0 THEN h1
                   ELSE sendPacket(h1, nh, MAXTTL,
                          [type |-> "DATA", src |-> h0.ipaddr, dest |-> d])
             h3 == IF valid(h2, d) THEN rt_table_update_timeout(h2, d) ELSE h2
             h4 == IF valid(h3, d) /\ valid(h3, nh) /\ nh # d
                   THEN rt_table_update_timeout(h3, nh) ELSE h3
  <2>1. h1 = [cleared(h, d) EXCEPT !.seek[d] = NoSeek]
    BY <1>0 DEF cleared, buffered, Host
  <2>2. Good(h1, Self) /\ h1.rt = h.rt /\ h1.out = h.out
    <3>1. h1.rt = h.rt /\ h1.out = h.out
      BY <1>0 DEF cleared, Host
    <3> HIDE DEF h1
    <3> QED BY <2>1, <3>1, ClearedGood
  <2>3. nh \in Addr \cup {0, Bcast} /\ h0.ipaddr \in Addr
    <3>1. h0.rt = h.rt /\ h0.ipaddr = h.ipaddr /\ h.rt[d] \in Entry
      BY <1>0 DEF Host
    <3> QED BY <1>0, <3>1, EntryFields DEF Host
  <2>4. Same(h, h1) /\ h1 \in Host /\ Same(h1, h1)
    <3> HIDE DEF h1
    <3> QED BY <2>2, SameTable DEF Good
  <2>5. Good(h2, Self) /\ Same(h1, h2)
    <3> HIDE DEF h0, h1, nh
    <3> QED BY <2>2, <2>3, <2>4, TtlType, SendPacketGood, SendPacketSame, DataType
  <2>6. Good(h3, Self) /\ Same(h2, h3)
    <3> HIDE DEF h2
    <3>1. h2 \in Host /\ Same(h2, h2)
      BY <2>5, SameTable DEF Good
    <3> QED BY <2>5, <3>1, UpdateTimeoutGood, UpdateTimeoutSame
  <2>7. Same(h3, h4)
    <3> HIDE DEF h3, nh
    <3>1. h3 \in Host /\ Same(h3, h3)
      BY <2>6, SameTable DEF Good
    <3> QED BY <3>1, UpdateTimeoutSame
  <2>8. seek_found(h, d) = h4
    BY <1>1 DEF seek_found, pq_send
  <2> HIDE DEF h1, h2, h3, h4
  <2> QED BY <2>4, <2>5, <2>6, <2>7, <2>8, SameTrans
<1> QED BY <1>0, <1>1 DEF seek_found

\* packet_queue_add changes the queue only.
LEMMA QueueAddSame ==
  ASSUME NEW h \in Host, NEW d, NEW o, NEW v, NEW vo
  PROVE  Same(h, packet_queue_add(h, d, o, v, vo))
<1> DEFINE g == packet_queue_add(h, d, o, v, vo)
<1>1. g.rt = h.rt /\ g.out = h.out
  BY DEF packet_queue_add, Host
<1> HIDE DEF g
<1>2. Same(h, g)
  BY <1>1, SameTable
<1> QED BY <1>2 DEF g

\* RenewRoute arms timers.
LEMMA RenewRouteSame ==
  ASSUME NEW h, Good(h, Self), NEW d, NEW ll PROVE Same(h, RenewRoute(h, d, ll))
<1> DEFINE e == h.rt[d]
           h1 == IF ll \/ e.hcnt # 1 \/ e.hello THEN rt_table_update_timeout(h, d) ELSE h
           h2 == IF valid(h1, e.next) /\ e.next # d /\ (ll \/ e.hello)
                 THEN rt_table_update_timeout(h1, e.next) ELSE h1
<1>1. h \in Host /\ Same(h, h)
  BY SameTable DEF Good
<1>2. Good(h1, Self) /\ Same(h, h1)
  BY <1>1, UpdateTimeoutGood, UpdateTimeoutSame
<1>3. Same(h1, h2)
  <2> HIDE DEF h1
  <2>1. h1 \in Host /\ Same(h1, h1)
    BY <1>2, SameTable DEF Good
  <2> QED BY <2>1, UpdateTimeoutSame
<1>4. Same(h, h2)
  <2> HIDE DEF h1, h2
  <2> QED BY <1>2, <1>3, SameTrans
<1> QED BY <1>1, <1>4 DEF RenewRoute

\* A flood sends RREQs.
LEMMA FloodSame ==
  ASSUME NEW h \in Host, NEW d, NEW s, NEW ttl, NEW g
  PROVE  Same(h, rreq_flood(h, d, s, ttl, g))
<1> DEFINE f == rreq_flood(h, d, s, ttl, g)
<1>1. f.rt = h.rt /\ h.out \subseteq f.out
  BY DEF rreq_flood, Host
<1> HIDE DEF f
<1>2. Same(h, f)
  BY <1>1, SameTable
<1> QED BY <1>2 DEF f

\* A packet that is queued and starts a discovery changes no route.
LEMMA DiscoverySame ==
  ASSUME NEW h, Good(h, Self), NEW d \in Addr, NEW v \in Addr, NEW vo \in Origin, NEW tcp
  PROVE  Same(h, rreq_route_discovery(packet_queue_add(h, d, "own", v, vo), d, tcp))
<1> DEFINE g == packet_queue_add(h, d, "own", v, vo)
           q == IF present(g, d) THEN g.rt[d].seqno ELSE 0
           x == rt_table_update_timeout(g, d)
           f == rreq_flood(x, d, q, RREQ_TTL, tcp)
           s == [on |-> TRUE, seqno |-> q, reqs |-> 0, g |-> tcp]
           k == [f EXCEPT !.seqno = seqno_incr(f.seqno), !.seek[d] = s]
<1>1. "own" \in Origin /\ h \in Host
  BY DEF Origin, Good
<1>2. g \in Host /\ g.rt = h.rt
  BY <1>1, QueueAddType
<1>3. Same(h, g)
  BY <1>1, QueueAddSame
<1> HIDE DEF g
<1>4. x \in Host /\ Same(g, x)
  BY <1>2, UpdateTimeoutType, UpdateTimeoutSame DEF Good
<1> HIDE DEF x
<1>5. Same(x, f)
  BY <1>4, FloodSame
<1>6. Same(f, k)
  <2>1. k.rt = f.rt /\ k.out = f.out
    BY <1>4 DEF rreq_flood, Host
  <2> HIDE DEF k, f
  <2> QED BY <2>1, SameTable
<1>7. rreq_route_discovery(g, d, tcp) = IF g.seek[d].on THEN g ELSE k
  BY DEF rreq_route_discovery, x
<1> HIDE DEF f, k
<1>8. Same(h, k)
  BY <1>3, <1>4, <1>5, <1>6, SameTrans
<1> QED BY <1>3, <1>7, <1>8 DEF g

\* The end of a try of a discovery changes no route.
LEMMA SeekTimeoutSame ==
  ASSUME NEW h, Good(h, Self), NEW d \in Addr PROVE Same(h, route_discovery_timeout(h, d))
<1>0. h \in Host
  BY DEF Good
<1> DEFINE g == [h EXCEPT !.seek[d].reqs = @ + 1]
           x == rt_table_update_timeout(g, d)
           f == rreq_flood(x, d, h.seek[d].seqno, RETRY_TTL, h.seek[d].g)
           k == [pq_drop(h, d) EXCEPT !.seek[d] = NoSeek]
<1>1. k.rt = h.rt /\ k.out = h.out
  BY <1>0 DEF pq_drop, cleared, Host
<1>2. Same(h, k)
  <2> HIDE DEF k
  <2> QED BY <1>1, SameTable
<1>3. CASE h.seek[d].reqs < RREQ_RETRIES
  <2>1. g \in Host /\ g.rt = h.rt /\ g.out = h.out
    <3> DEFINE r == h.seek[d].reqs + 1
    <3>1. h.seek[d] \in Seek /\ r \in 0 .. RREQ_RETRIES
      BY <1>0, <1>3, LimitAssumption DEF Host, Seek
    <3>2. [h.seek[d] EXCEPT !.reqs = r] \in Seek
      <4> HIDE DEF r
      <4> QED BY <3>1 DEF Seek
    <3> QED BY <1>0, <3>2 DEF Host
  <2>2. Same(h, g)
    <3> HIDE DEF g
    <3> QED BY <2>1, SameTable
  <2> HIDE DEF g
  <2>3. x \in Host /\ Same(g, x)
    BY <2>1, UpdateTimeoutType, UpdateTimeoutSame DEF Good
  <2> HIDE DEF x
  <2>4. Same(x, f)
    BY <2>3, FloodSame
  <2> HIDE DEF f
  <2>5. Same(h, f)
    BY <2>2, <2>3, <2>4, SameTrans
  <2> QED BY <1>3, <2>5 DEF route_discovery_timeout, f, x, g
<1> HIDE DEF k
<1> QED BY <1>2, <1>3 DEF route_discovery_timeout, k

---------------------------------------------------------------------------
(* Operations that break or make links *)

\* neighbor_link_break cuts every route through d and reports what it cuts.
LEMMA LinkBreakTraced ==
  ASSUME NEW h0, NEW h, Good(h, Self), Traced(h0, h), NEW d
  PROVE  LET g == neighbor_link_break(h, d)
         IN  /\ Traced(h0, g)
             /\ \A n \in Addr \ {d} : NeighborOf(h, n) => NeighborOf(g, n)
             /\ present(h, d) /\ h.rt[d].hcnt = 1 => ~NeighborOf(g, d)
<1>1. CASE present(h, d) /\ h.rt[d].hcnt = 1
  <2> DEFINE rep   == "REPAIR" \in h.rt[d].flags
             users == {u \in Addr \ {d} : valid(h, u) /\ h.rt[u].next = d}
             kept  == {u \in users : rep /\ h.rt[u].hcnt <= MAX_REPAIR_TTL}
             lost  == (users \ kept) \cup (IF rep THEN {} ELSE {d})
             told  == {u \in lost : h.rt[u].prec # {}}
             prec  == [u \in Addr |-> h.rt[u].prec]
             broken(u) ==
               LET e == h.rt[u]
                   m == IF u \in kept THEN [e EXCEPT !.flags = @ \cup {"REPAIR"}] ELSE e
                   i == IF e.state = "valid" THEN invalidated(m) ELSE m
               IN  IF u \in lost THEN [i EXCEPT !.prec = {}] ELSE i
             t == [u \in Addr |-> IF u \in users \cup {d} THEN broken(u) ELSE h.rt[u]]
             n == plus(h.num_active, -Cardinality({u \in users \cup {d} : valid(h, u)}))
             h1 == [h EXCEPT !.rt = t, !.num_active = n]
             first == IF d \in told THEN d ELSE least(told)
             g == sendRerr(h1, first, told, prec, FALSE)
  <2>1. d \in Addr /\ h \in Host
    BY <1>1 DEF present, Good
  <2>2. ~rep /\ kept = {}
    BY <2>1, HostFields DEF RouteOK
  <2>3. lost = users \cup {d}
    BY <2>2
  <2>4. ASSUME NEW u \in Addr
        PROVE  /\ u \notin lost => t[u] = h.rt[u]
               /\ u \in lost => t[u].state # "valid"
               /\ t[u].state # "none" => h.rt[u].state # "none"
               /\ t[u].next = h.rt[u].next /\ t[u].hcnt = h.rt[u].hcnt
               /\ t[u] \in Entry
    <3> DEFINE e == h.rt[u]
               i == IF e.state = "valid" THEN invalidated(e) ELSE e
    <3>1. e \in Entry /\ RouteOK(e)
      BY HostFields
    <3>2. /\ i \in Entry /\ i.state # "valid" /\ i.next = e.next /\ i.hcnt = e.hcnt
          /\ (i.state # "none" => e.state # "none")
      <4>1. invalidated(e).next = e.next /\ invalidated(e).hcnt = e.hcnt
        BY <3>1 DEF invalidated, Entry
      <4> QED BY <3>1, <4>1, InvalidatedType
    <3>3. broken(u) = IF u \in lost THEN [i EXCEPT !.prec = {}] ELSE i
      BY <2>2
    <3>4. t[u] = IF u \in lost THEN [i EXCEPT !.prec = {}] ELSE e
      <4> HIDE DEF i, broken, lost, users
      <4> QED BY <2>3, <3>3
    <3> HIDE DEF i, t, lost
    <3>5. CASE u \in lost
      BY <3>2, <3>4, <3>5 DEF Entry
    <3>6. CASE u \notin lost
      BY <3>1, <3>4, <3>6
    <3> QED BY <3>5, <3>6
  <2>5. h1 \in Host /\ h1.rt = t /\ h1.out = h.out
    <3>1. t \in [Addr -> Entry]
      <4> DEFINE b(u) == IF u \in users \cup {d} THEN broken(u) ELSE h.rt[u]
      <4>1. \A u \in Addr : t[u] \in Entry
        BY <2>4
      <4>2. t = [u \in Addr |-> t[u]]
        OBVIOUS
      <4> HIDE DEF t
      <4> QED BY <4>1, <4>2
    <3>2. n \in 0 .. CounterMod - 1
      <4> DEFINE V == {u \in users \cup {d} : valid(h, u)}
      <4>1. V \subseteq Addr /\ IsFiniteSet(Addr)
        BY <2>1, AddrAssumption
      <4>2. Cardinality(V) \in Nat
        BY <4>1, FS_Subset, FS_CardinalityType
      <4> HIDE DEF V
      <4>3. plus(h.num_active, -Cardinality(V)) \in 0 .. CounterMod - 1
        BY <4>2, HostFields, PlusType
      <4> QED BY <4>3 DEF V
    <3> HIDE DEF t, n
    <3> QED BY <2>1, <3>1, <3>2 DEF Host
  <2>6. Same(h1, g) /\ \A u \in told : reported(g, u)
    <3> HIDE DEF h1, first, told, prec
    <3> QED BY <2>5, SendRerrReports
  <2>7. neighbor_link_break(h, d) = g
    BY <1>1 DEF neighbor_link_break
  <2>8. \A u \in Addr : /\ u \in lost <=> u = d \/ (valid(h, u) /\ h.rt[u].next = d)
                        /\ u \in told <=> u \in lost /\ h.rt[u].prec # {}
    BY <2>1, <2>3
  <2> HIDE DEF lost, told, users, t, h1, g, first
  <2>9. Direct(h1)
    BY <2>4, <2>5 DEF Traced, Direct
  <2>10. \A u \in Addr \ {d} : NeighborOf(h, u) => NeighborOf(h1, u)
    BY <2>4, <2>5, <2>8 DEF NeighborOf, Traced, Direct, valid
  <2>11. ~NeighborOf(h1, d) /\ NoneThrough(h1, d)
    BY <2>1, <2>4, <2>5, <2>8 DEF NeighborOf, NoneThrough, valid
  <2>12. Cut(h0, h1)
    <3> SUFFICES ASSUME NEW u \in Addr, Former(h0, h1, u) PROVE NoneThrough(h1, u)
      BY DEF Cut
    <3>1. CASE u = d
      BY <2>11, <3>1
    <3>2. CASE u # d
      <4>1. Former(h0, h, u)
        BY <2>10, <3>2 DEF Former
      <4>2. NoneThrough(h, u)
        BY <4>1 DEF Traced, Cut
      <4> QED BY <2>4, <2>5, <4>2 DEF NoneThrough
    <3> QED BY <3>1, <3>2
  <2>13. /\ \A u \in Addr : NeighborOf(g, u) <=> NeighborOf(h1, u)
         /\ Direct(g) /\ Cut(h0, g)
    <3>1. \A u \in Addr : NeighborOf(g, u) <=> NeighborOf(h1, u)
      BY <2>6 DEF NeighborOf, Same, KeepsRoute
    <3>2. Direct(g)
      BY <2>6, <2>9 DEF Direct, Same, KeepsRoute
    <3>3. Cut(h0, g)
      BY <2>6, <2>12, <3>1 DEF Cut, Former, NoneThrough, Same, KeepsRoute
    <3> QED BY <3>1, <3>2, <3>3
  <2>14. Told(h0, g)
    <3> SUFFICES ASSUME NEW u \in Addr, h0.rt[u].state = "valid", h0.rt[u].prec # {}
                 PROVE  reported(g, u) \/ (g.rt[u].state = "valid" /\ g.rt[u].prec # {})
      BY DEF Told
    <3>1. CASE reported(h, u)
      BY <2>5, <2>6, <3>1, ReportedStays DEF Same
    <3>2. CASE h.rt[u].state = "valid" /\ h.rt[u].prec # {}
      <4>1. CASE u \in lost
        BY <2>6, <2>8, <3>2, <4>1
      <4>2. CASE u \notin lost
        <5>1. h1.rt[u] = h.rt[u]
          BY <2>4, <2>5, <4>2
        <5> QED BY <2>6, <3>2, <5>1 DEF Same, KeepsRoute
      <4> QED BY <4>1, <4>2
    <3> QED BY <3>1, <3>2 DEF Traced, Told
  <2>15. /\ Traced(h0, g) /\ ~NeighborOf(g, d)
         /\ \A u \in Addr \ {d} : NeighborOf(h, u) => NeighborOf(g, u)
    BY <2>1, <2>10, <2>11, <2>13, <2>14 DEF Traced
  <2> QED BY <2>7, <2>15
<1>2. CASE ~(present(h, d) /\ h.rt[d].hcnt = 1)
  <2>1. neighbor_link_break(h, d) = h
    BY <1>2 DEF neighbor_link_break
  <2> QED BY <1>2, <2>1
<1> QED BY <1>1, <1>2

\* An entry of d that makes a link, or a route by a host that is still a
\* neighbour, and loses no precursors.
LEMMA SetRouteTraced ==
  ASSUME NEW h0, NEW h, Traced(h0, h), NEW d \in Addr, NEW e, NEW g, h.rt \in [Addr -> Entry],
         g.rt = [h.rt EXCEPT ![d] = e], g.out = h.out,
         e.hcnt = 1 => e.next = d,
         e.state = "valid" /\ e.hcnt # 1 => e.next # d /\ ~Former(h0, h, e.next),
         NeighborOf(h, d) => e.state = "valid" /\ e.hcnt = 1,
         h.rt[d].state = "valid" /\ h.rt[d].prec # {} => e.state = "valid" /\ e.prec # {}
  PROVE  Traced(h0, g) /\ \A n \in Addr \ {d} : NeighborOf(h, n) => NeighborOf(g, n)
<1>1. g.rt[d] = e /\ \A u \in Addr \ {d} : g.rt[u] = h.rt[u]
  OBVIOUS
<1>2. Direct(g)
  BY <1>1 DEF Traced, Direct
<1>3. /\ \A n \in Addr \ {d} : NeighborOf(g, n) <=> NeighborOf(h, n)
      /\ NeighborOf(h, d) => NeighborOf(g, d)
  BY <1>1 DEF NeighborOf
<1>4. Cut(h0, g)
  <2> SUFFICES ASSUME NEW n \in Addr, Former(h0, g, n), NEW u \in Addr,
                      g.rt[u].state = "valid"
               PROVE  g.rt[u].next # n
    BY DEF Cut, NoneThrough
  <2>1. Former(h0, h, n)
    BY <1>3 DEF Former
  <2>2. CASE u # d
    BY <1>1, <2>1, <2>2 DEF Traced, Cut, NoneThrough
  <2>3. CASE u = d /\ e.hcnt = 1
    <3>1. NeighborOf(g, d)
      BY <1>1, <2>3 DEF NeighborOf
    <3> QED BY <1>1, <2>3, <3>1 DEF Former
  <2>4. CASE u = d /\ e.hcnt # 1
    BY <1>1, <2>1, <2>4
  <2> QED BY <2>2, <2>3, <2>4
<1>5. Told(h0, g)
  BY <1>1, ReportedStays DEF Traced, Told
<1> QED BY <1>2, <1>3, <1>4, <1>5 DEF Traced

\* A neighbour that moves away is a broken link.
LEMMA NoLongerNeighborTraced ==
  ASSUME NEW h0, NEW h, Good(h, Self), Traced(h0, h), NEW d \in Addr, NEW hops
  PROVE  LET g == no_longer_neighbor(h, d, hops)
         IN  /\ Traced(h0, g)
             /\ \A n \in Addr \ {d} : NeighborOf(h, n) => NeighborOf(g, n)
             /\ hops > 1 => ~NeighborOf(g, d)
<1> DEFINE x == [h EXCEPT !.rt[d].hello_cnt = 0]
           y == [x EXCEPT !.rt[d].hello = FALSE]
           g == neighbor_link_break(y, d)
<1>1. h \in Host
  BY DEF Good
<1>2. Good(x, Self)
  BY SetField
<1>3. Same(h, x)
  BY <1>1, SetFieldSame
<1>4. y = [h EXCEPT !.rt[d].hello_cnt = 0, !.rt[d].hello = FALSE]
  BY <1>1 DEF Host
<1> HIDE DEF x
<1>5. x \in Host
  BY <1>2 DEF Good
<1>6. Good(y, Self) /\ Same(x, y)
  BY <1>2, <1>5, SetField, SetFieldSame
<1> HIDE DEF y
<1>7. Same(h, y)
  BY <1>3, <1>6, SameTrans
<1>8. Traced(h0, y)
  BY <1>7, TracedSame
<1>9. \A n \in Addr : NeighborOf(y, n) <=> NeighborOf(h, n)
  BY <1>7 DEF NeighborOf, Same, KeepsRoute
<1>10. /\ Traced(h0, g)
       /\ \A n \in Addr \ {d} : NeighborOf(y, n) => NeighborOf(g, n)
       /\ present(y, d) /\ y.rt[d].hcnt = 1 => ~NeighborOf(g, d)
  BY <1>6, <1>8, LinkBreakTraced
<1>11. present(y, d) <=> present(h, d)
  BY <1>7 DEF present, Same, KeepsRoute
<1>12. CASE hops > 1 /\ h.rt[d].hcnt = 1
  <2>1. no_longer_neighbor(h, d, hops) = g
    BY <1>4, <1>12 DEF no_longer_neighbor
  <2>2. ~present(y, d) => g = y
    BY DEF neighbor_link_break
  <2>3. ~NeighborOf(g, d)
    <3>1. CASE present(y, d)
      BY <1>7, <1>10, <1>12, <3>1 DEF Same, KeepsRoute
    <3>2. CASE ~present(y, d)
      BY <2>2, <3>2 DEF NeighborOf, present
    <3> QED BY <3>1, <3>2
  <2> HIDE DEF g
  <2> QED BY <1>9, <1>10, <2>1, <2>3
<1>13. CASE ~(hops > 1 /\ h.rt[d].hcnt = 1)
  <2>1. no_longer_neighbor(h, d, hops) = h
    BY <1>13 DEF no_longer_neighbor
  <2> QED BY <1>13, <2>1 DEF NeighborOf
<1> QED BY <1>12, <1>13

\* A new or updated route to d: by d itself exactly when it is one hop long,
\* otherwise by a host that is no former neighbour.
Leads(h0, h, d, next, hops) ==
  /\ hops = 1 => next = d
  /\ hops # 1 => hops > 1 /\ next # d /\ ~Former(h0, h, next)

\* Either insertion makes a link or a route by a neighbour.
LEMMA InsertTraced ==
  ASSUME NEW h0, NEW h, Good(h, Self), Traced(h0, h), NEW d \in Addr, NEW next \in Addr,
         NEW hops \in Nat, NEW seqno \in Seqno, NEW life, NEW state \in {"valid", "invalid"},
         NEW flags \in NoRepair, NEW channel \in Channel \cup {NoChannel}, NEW cost \in Int,
         Leads(h0, h, d, next, hops)
  PROVE  LET g == insert_entry(h, d, next, hops, seqno, life, state, flags, channel, cost)
         IN  /\ Traced(h0, g)
             /\ \A n \in Addr \ {d} : NeighborOf(h, n) => NeighborOf(g, n)
             /\ ~present(h, d) /\ state = "valid" /\ hops = 1 => NeighborOf(g, d)
<1> DEFINE new == NewEntry(next, hops, seqno, flags, channel, cost)
           e   == IF state = "valid" THEN [new EXCEPT !.armed = (life # 0)]
                  ELSE [new EXCEPT !.state = "invalid", !.armed = TRUE,
                          !.handler = IF "REPAIR" \in flags THEN "repair" ELSE "delete"]
           k   == plus(h.num_entries, 1)
           n   == IF state = "valid" THEN plus(h.num_active, 1) ELSE h.num_active
           h1  == [h EXCEPT !.rt[d] = e, !.num_entries = k, !.num_active = n]
           g   == IF state = "valid" THEN seek_found(h1, d) ELSE h1
<1>1. new \in Entry /\ new.state = "valid" /\ new.handler = "expire" /\ "REPAIR" \notin new.flags
      /\ new.next = next /\ new.hcnt = hops
  BY DEF NewEntry, Entry, Handler, NoRepair, Flag
<1>2. e \in Entry /\ RouteOK(e) /\ e.state = state /\ e.next = next /\ e.hcnt = hops
  <2>1. CASE state = "valid"
    <3>1. e = [new EXCEPT !.armed = (life # 0)] /\ (life # 0) \in BOOLEAN
      BY <2>1
    <3> HIDE DEF e, new
    <3> QED BY <1>1, <2>1, <3>1 DEF Entry, RouteOK
  <2>2. CASE state = "invalid"
    <3>1. e = [new EXCEPT !.state = "invalid", !.armed = TRUE, !.handler = "delete"]
      BY <2>2 DEF NoRepair
    <3> HIDE DEF e, new
    <3> QED BY <1>1, <2>2, <3>1 DEF Entry, RouteOK, Handler
  <2> QED BY <2>1, <2>2
<1>3. k \in 0 .. CounterMod - 1 /\ n \in 0 .. CounterMod - 1
  <2>1. plus(h.num_active, 1) \in 0 .. CounterMod - 1
    BY HostFields, PlusType
  <2>2. k \in 0 .. CounterMod - 1
    BY HostFields, PlusType
  <2> QED BY <2>1, <2>2, HostFields
<1>4. h.rt \in [Addr -> Entry] /\ h \in Host
  BY DEF Good, Host
<1>5. h1.rt = [h.rt EXCEPT ![d] = e] /\ h1.out = h.out
  <2> HIDE DEF e, k, n
  <2> QED BY <1>4 DEF Host
<1>6. insert_entry(h, d, next, hops, seqno, life, state, flags, channel, cost)
        = IF present(h, d) THEN h ELSE g
  BY DEF insert_entry
<1> HIDE DEF e, k, n
<1>7. GoodButFor(h1, d, Self)
  BY <1>2, <1>3, SetAnyEntry
<1> HIDE DEF h1
<1>8. CASE ~present(h, d)
  <2>1. h.rt[d].state = "none" /\ ~NeighborOf(h, d)
    BY <1>8 DEF present, NeighborOf
  <2>2. /\ Traced(h0, h1)
        /\ \A u \in Addr \ {d} : NeighborOf(h, u) => NeighborOf(h1, u)
    BY <1>2, <1>4, <1>5, <2>1, SetRouteTraced DEF Leads
  <2>3. state = "valid" /\ hops = 1 => NeighborOf(h1, d)
    BY <1>2, <1>4, <1>5 DEF NeighborOf
  <2>4. Same(h1, g)
    <3>1. Same(h1, h1)
      BY SameTable
    <3> QED BY <1>7, <3>1, SeekFoundSame
  <2> HIDE DEF g
  <2>5. Traced(h0, g) /\ \A u \in Addr : NeighborOf(g, u) <=> NeighborOf(h1, u)
    BY <2>2, <2>4, TracedSame DEF NeighborOf, Same, KeepsRoute
  <2> QED BY <1>6, <1>8, <2>2, <2>3, <2>5
<1> HIDE DEF g
<1> QED BY <1>6, <1>8

\* rt_table_update_with_channel breaks the link of a neighbour that moves away.
LEMMA UpdateTraced ==
  ASSUME NEW h0, NEW h, Good(h, Self), Traced(h0, h), NEW d \in Addr, NEW next \in Addr,
         NEW hops \in Nat, NEW seqno \in Seqno, NEW flags \in NoRepair,
         NEW channel \in Channel \cup {NoChannel}, NEW cost \in Int,
         Leads(h0, h, d, next, hops)
  PROVE  LET g == rt_table_update_with_channel(h, d, next, hops, seqno, flags, channel, cost)
         IN  /\ Traced(h0, g)
             /\ \A n \in Addr \ {d} : NeighborOf(h, n) => NeighborOf(g, n)
             /\ hops = 1 => NeighborOf(g, d)
<1> DEFINE revived == invalid(h, d)
           f  == IF revived /\ "REPAIR" \in h.rt[d].flags THEN flags \ {"REPAIR"} ELSE flags
           h1 == IF revived THEN [h EXCEPT !.num_active = plus(@, 1)] ELSE h
           h2 == no_longer_neighbor(h1, d, hops)
           e  == [h2.rt[d] EXCEPT !.flags = f, !.seqno = seqno, !.next = next, !.hcnt = hops,
                         !.channel = channel, !.cost = cost, !.handler = "expire",
                         !.armed = TRUE, !.state = "valid"]
           h3 == [h2 EXCEPT !.rt[d] = e]
           g  == seek_found(h3, d)
<1>1. Good(h1, Self) /\ Same(h, h1)
  <2>1. plus(h.num_active, 1) \in 0 .. CounterMod - 1 /\ h \in Host
    BY HostFields, PlusType DEF Good
  <2>2. h1.rt = h.rt /\ h1.out = h.out
    BY <2>1 DEF Host
  <2>3. Good(h1, Self)
    BY <2>1, SetCounter
  <2> HIDE DEF h1
  <2> QED BY <2>2, <2>3, SameTable
<1>2. rt_table_update_with_channel(h, d, next, hops, seqno, flags, channel, cost) = g
  BY DEF rt_table_update_with_channel
<1>3. f \in NoRepair
  BY DEF NoRepair
<1> HIDE DEF h1, f
<1>4. Traced(h0, h1) /\ \A n \in Addr : NeighborOf(h1, n) <=> NeighborOf(h, n)
  BY <1>1, TracedSame DEF NeighborOf, Same, KeepsRoute
<1>5. /\ Good(h2, Self) /\ Traced(h0, h2)
      /\ \A n \in Addr \ {d} : NeighborOf(h1, n) => NeighborOf(h2, n)
      /\ hops > 1 => ~NeighborOf(h2, d)
  BY <1>1, <1>4, NoLongerNeighborGood, NoLongerNeighborTraced
<1> HIDE DEF h2
<1>6. h2 \in Host /\ h2.rt \in [Addr -> Entry]
  BY <1>5 DEF Good, Host
<1>7. /\ e \in Entry /\ RouteOK(e)
      /\ e.state = "valid" /\ e.next = next /\ e.hcnt = hops /\ e.prec = h2.rt[d].prec
  <2>1. h2.rt[d] \in Entry
    BY <1>6
  <2>2. e \in Entry /\ RouteOK(e)
    BY <1>3, <2>1 DEF Entry, RouteOK, NoRepair, Flag, Handler
  <2>3. e.state = "valid" /\ e.next = next /\ e.hcnt = hops /\ e.prec = h2.rt[d].prec
    BY <2>1 DEF Entry
  <2> HIDE DEF e
  <2> QED BY <2>2, <2>3
<1> HIDE DEF e
<1>8. h3.rt = [h2.rt EXCEPT ![d] = e] /\ h3.out = h2.out
  BY <1>6 DEF Host
<1>9. GoodButFor(h3, d, Self)
  <2>1. GoodButFor([h2 EXCEPT !.rt[d] = e, !.num_entries = h2.num_entries,
                              !.num_active = h2.num_active], d, Self)
    BY <1>5, <1>7, HostFields, SetAnyEntry
  <2> QED BY <1>6, <2>1 DEF Host
<1> HIDE DEF h3
<1>10. hops # 1 => ~Former(h0, h2, next)
  BY <1>4, <1>5 DEF Leads, Former
<1>11. NeighborOf(h2, d) => hops = 1
  BY <1>5 DEF Leads
<1>12. /\ Traced(h0, h3)
       /\ \A n \in Addr \ {d} : NeighborOf(h2, n) => NeighborOf(h3, n)
  BY <1>5, <1>6, <1>7, <1>8, <1>10, <1>11, SetRouteTraced DEF Leads
<1>13. hops = 1 => NeighborOf(h3, d)
  BY <1>6, <1>7, <1>8 DEF NeighborOf
<1>14. Same(h3, g)
  BY <1>9, SeekFoundSame
<1> HIDE DEF g
<1>15. Traced(h0, g) /\ \A n \in Addr : NeighborOf(g, n) <=> NeighborOf(h3, n)
  BY <1>12, <1>14, TracedSame DEF NeighborOf, Same, KeepsRoute
<1>16. /\ Traced(h0, g)
       /\ \A n \in Addr \ {d} : NeighborOf(h, n) => NeighborOf(g, n)
       /\ hops = 1 => NeighborOf(g, d)
  BY <1>4, <1>5, <1>12, <1>13, <1>15
<1> QED BY <1>2, <1>16

\* The sender of a message is no former neighbour once neighbor_add has run.
LEMMA NeighborAddTraced ==
  ASSUME NEW h0, NEW h, Good(h, Self), Traced(h0, h), NEW src \in Addr, ~Former(h0, h, src)
  PROVE  LET g == neighbor_add(h, src) IN Traced(h0, g) /\ ~Former(h0, g, src)
<1> DEFINE i == rt_table_insert(h, src, src, 1, 0, 1, "valid", {})
           u == rt_table_update(h, src, src, 1, h.rt[src].seqno, h.rt[src].flags)
<1>1. 0 \in Seqno /\ {} \in NoRepair /\ DefaultCost \in Int /\ Leads(h0, h, src, src, 1)
  BY WidthAssumption DEF Seqno, NoRepair, DefaultCost, Leads
<1>2. Traced(h0, i) /\ (~present(h, src) => NeighborOf(i, src))
  BY <1>1, InsertTraced DEF rt_table_insert
<1>3. Traced(h0, u) /\ NeighborOf(u, src)
  <2>1. h.rt[src] \in Entry /\ RouteOK(h.rt[src])
    BY HostFields
  <2> QED BY <1>1, <2>1, EntryFields, NoRepairFlags, UpdateTraced DEF rt_table_update
<1> HIDE DEF i, u
<1> QED BY <1>2, <1>3 DEF neighbor_add, Former, i, u

---------------------------------------------------------------------------
(* Handlers: replies and acknowledgements *)

\* The RREP-ACK request breaks a link as a whole.
LEMMA RequestAckTraced ==
  ASSUME NEW h0, NEW h, Good(h, Self), Traced(h0, h), NEW rev \in Addr
  PROVE  Traced(h0, request_ack(h, rev))
<1> DEFINE n == h.rt[rev].next
           x == [h EXCEPT !.rt[n].flags = h.rt[n].flags \cup {"UNIDIR"}]
           y == [x EXCEPT !.rt[n].hello = FALSE]
           z == neighbor_link_break(y, n)
<1>1. CASE valid(h, n)
  <2>1. n \in Addr /\ h \in Host
    BY <1>1 DEF valid, Good
  <2>2. y = [h EXCEPT !.rt[n].flags = h.rt[n].flags \cup {"UNIDIR"}, !.rt[n].hello = FALSE]
    BY <2>1 DEF Host
  <2> HIDE DEF n
  <2>3. Good(x, Self) /\ Same(h, x)
    BY <2>1, SetField, SetFieldSame
  <2>4. x \in Host
    BY <2>3 DEF Good
  <2> HIDE DEF x
  <2>5. Good(y, Self) /\ Same(x, y)
    BY <2>1, <2>3, <2>4, SetField, SetFieldSame
  <2> HIDE DEF y
  <2>6. Traced(h0, y)
    BY <2>3, <2>5, TracedSame
  <2>7. Good(z, Self) /\ Traced(h0, z)
    BY <2>5, <2>6, LinkBreakGood, LinkBreakTraced
  <2>8. z \in Host
    BY <2>7 DEF Good
  <2> HIDE DEF z
  <2>9. Same(z, [z EXCEPT !.rt[n].ack = TRUE])
    BY <2>1, <2>8, SetFieldSame
  <2>10. Traced(h0, [z EXCEPT !.rt[n].ack = TRUE])
    BY <2>7, <2>9, TracedSame
  <2> QED BY <2>2, <2>10 DEF request_ack, n, z
<1> QED BY <1>1 DEF request_ack

\* rrep_send_with_channel does no more than that to the routes.
LEMMA RrepSendTraced ==
  ASSUME NEW h0, NEW h, Good(h, Self), Traced(h0, h), NEW rrep \in RREP, NEW rev \in Addr, NEW fwd,
         NEW channel \in Channel \cup {NoChannel}
  PROVE  Traced(h0, rrep_send_with_channel(h, rrep, rev, fwd, channel))
<1> DEFINE h1    == request_ack(h, rev)
           nh    == h.rt[rev].next
           fresh == {p.msg : p \in h1.out \ h.out}
           buf   == IF fresh = {} THEN rrep ELSE CHOOSE m \in fresh : TRUE
           x     == [h1 EXCEPT !.channelNum = channel]
           h2    == aodv_socket_send(x, nh, MAXTTL, buf)
           h3    == precursor_add(h2, fwd, nh)
           h4    == precursor_add(h3, rev, h.rt[fwd].next)
<1>1. rrep_send_with_channel(h, rrep, rev, fwd, channel) = IF fwd \in Addr THEN h4 ELSE h2
  BY DEF rrep_send_with_channel
<1>2. Good(h1, Self) /\ Traced(h0, h1)
  BY RequestAckGood, RequestAckTraced
<1>3. nh \in Addr \cup {0, Bcast}
  BY HostFields, EntryFields
<1>4. buf \in Message
  <2>1. fresh \subseteq Message
    BY <1>2, HostFields DEF Packet
  <2>2. rrep \in Message
    BY DEF Message
  <2> HIDE DEF fresh
  <2>3. fresh # {} => (CHOOSE m \in fresh : TRUE) \in fresh
    OBVIOUS
  <2> QED BY <2>1, <2>2, <2>3
<1> HIDE DEF h1, nh, buf
<1>5. Good(x, Self) /\ Same(h1, x)
  <2>1. Good(x, Self)
    BY <1>2, SetChannel
  <2>2. x.rt = h1.rt /\ x.out = h1.out
    BY <1>2 DEF Good, Host
  <2> HIDE DEF x
  <2> QED BY <2>1, <2>2, SameTable
<1> HIDE DEF x
<1>6. x \in Host
  BY <1>5 DEF Good
<1>7. Good(h2, Self) /\ Same(x, h2)
  BY <1>3, <1>4, <1>5, <1>6, TtlType, SocketSendGood, SocketSendSame
<1> HIDE DEF h2
<1>8. h2 \in Host
  BY <1>7 DEF Good
<1>9. Good(h3, Self) /\ Same(h2, h3)
  BY <1>7, <1>8, PrecursorGood, PrecursorAddSame
<1> HIDE DEF h3
<1>10. h3 \in Host
  BY <1>9 DEF Good
<1>11. Same(h3, h4)
  BY <1>10, PrecursorAddSame
<1> HIDE DEF h4
<1>12. Traced(h0, h2)
  BY <1>2, <1>5, <1>7, TracedSame
<1>13. Traced(h0, h4)
  BY <1>9, <1>11, <1>12, TracedSame
<1> QED BY <1>1, <1>12, <1>13

\* Forwarding a RREP adds precursors and arms a timer.
LEMMA RrepForwardSame ==
  ASSUME NEW h, Good(h, Self), NEW rrep \in RREP, NEW rev \in Addr, NEW fwd \in Addr
  PROVE  Same(h, rrep_forward(h, rrep, rev, fwd))
<1> DEFINE nh == h.rt[rev].next
           m  == [rrep EXCEPT !.hcnt = h.rt[fwd].hcnt]
           h1 == aodv_socket_send(h, nh, MAXTTL, m)
           h2 == precursor_add(h1, fwd, nh)
           h3 == precursor_add(h2, rev, h.rt[fwd].next)
           h4 == rt_table_update_timeout(h3, rev)
<1>1. nh \in Addr \cup {0, Bcast} /\ h.rt[fwd].hcnt \in Nat /\ h \in Host
  BY HostFields, EntryFields DEF Good
<1>2. m \in Message
  <2>1. m \in RREP
    BY <1>1 DEF RREP
  <2> QED BY <2>1 DEF Message
<1>3. rrep_forward(h, rrep, rev, fwd) = h4
  BY DEF rrep_forward
<1> HIDE DEF nh, m
<1>4. Good(h1, Self) /\ Same(h, h1)
  BY <1>1, <1>2, TtlType, SocketSendGood, SocketSendSame
<1> HIDE DEF h1
<1>5. h1 \in Host
  BY <1>4 DEF Good
<1>6. Good(h2, Self) /\ Same(h1, h2)
  BY <1>4, <1>5, PrecursorGood, PrecursorAddSame
<1> HIDE DEF h2
<1>7. h2 \in Host
  BY <1>6 DEF Good
<1>8. Good(h3, Self) /\ Same(h2, h3)
  BY <1>6, <1>7, PrecursorGood, PrecursorAddSame
<1> HIDE DEF h3
<1>9. h3 \in Host
  BY <1>8 DEF Good
<1>10. Same(h3, h4)
  BY <1>9, UpdateTimeoutSame
<1> HIDE DEF h4
<1>11. Same(h, h4)
  BY <1>4, <1>6, <1>8, <1>10, SameTrans
<1> QED BY <1>3, <1>11

\* The forward route of a RREP goes by its sender, which is the destination
\* itself exactly when the RREP made no hop.
LEMMA RrepForwardRouteTraced ==
  ASSUME NEW h0, NEW h, Good(h, Self), Traced(h0, h), NEW m \in RREP, NEW src \in Addr,
         ~Former(h0, h, src), (m.hcnt = 0) = (src = m.dest), NEW channel \in Channel,
         NEW cost \in Int
  PROVE  Traced(h0, rrep_forward_route(h, m, src, channel, cost))
<1>1. m.dest \in Addr /\ m.hcnt \in Nat /\ m.seqno \in Seqno
  BY DEF RREP
<1>2. h.rt[m.dest].flags \in NoRepair /\ {} \in NoRepair
  BY <1>1, HostFields, NoRepairFlags DEF NoRepair
<1> DEFINE hops == m.hcnt + 1
<1>3. hops \in Nat /\ Leads(h0, h, m.dest, src, hops)
  BY <1>1 DEF Leads
<1> HIDE DEF hops
<1>4. Traced(h0, rt_table_insert_with_channel(h, m.dest, src, hops, m.seqno, m.life,
                                              "valid", {}, channel, cost))
  BY <1>1, <1>2, <1>3, InsertTraced DEF rt_table_insert_with_channel
<1>5. Traced(h0, rt_table_update_with_channel(h, m.dest, src, hops, m.seqno,
                                              h.rt[m.dest].flags, channel, cost))
  BY <1>1, <1>2, <1>3, UpdateTraced
<1> QED BY <1>4, <1>5 DEF rrep_forward_route, hops

\* rrep_process installs the forward route and passes the RREP on.
LEMMA RrepProcessTraced ==
  ASSUME NEW h0, NEW h, Good(h, Self), Traced(h0, h), NEW m \in RREP, NEW src \in Addr,
         ~Former(h0, h, src), (m.hcnt = 0) = (src = m.dest), NEW channel \in Channel,
         NEW link \in Int
  PROVE  Traced(h0, rrep_process(h, m, src, channel, link))
<1> DEFINE cost == IF m.ext THEN m.cost + link ELSE NoExtCost
           h1   == rrep_forward_route(h, m, src, channel, cost)
           h2   == IF m.a THEN aodv_socket_send(h1, h1.rt[m.dest].next, MAXTTL,
                                                [type |-> "RREP_ACK"]) ELSE h1
           x    == [h2 EXCEPT !.channelNum = h2.rt[m.orig].channel]
           r    == [m EXCEPT !.a = FALSE, !.cost = IF m.ext THEN cost ELSE m.cost]
           y    == rrep_forward(x, r, m.orig, m.dest)
<1>1. m.dest \in Addr /\ m.orig \in Addr /\ m.cost \in Int
  BY DEF RREP
<1>2. cost \in Int
  BY <1>1 DEF NoExtCost
<1> HIDE DEF cost
<1>3. Good(h1, Self) /\ Traced(h0, h1)
  BY <1>2, RrepForwardRouteGood, RrepForwardRouteTraced
<1> HIDE DEF h1
<1>4. Good(h2, Self) /\ Same(h1, h2)
  <2>1. h1.rt[m.dest].next \in Addr \cup {0, Bcast}
    BY <1>1, <1>3, HostFields, EntryFields
  <2>2. [type |-> "RREP_ACK"] \in Message
    BY DEF Message, ACK
  <2>3. h1 \in Host /\ Same(h1, h1)
    BY <1>3, SameTable DEF Good
  <2> QED BY <1>3, <2>1, <2>2, <2>3, TtlType, SocketSendGood, SocketSendSame
<1> HIDE DEF h2
<1>5. Good(x, Self) /\ Same(h2, x)
  <2>1. Good(x, Self)
    BY <1>1, <1>4, HostFields, EntryFields, SetChannel
  <2>2. x.rt = h2.rt /\ x.out = h2.out
    BY <1>4 DEF Good, Host
  <2> HIDE DEF x
  <2> QED BY <2>1, <2>2, SameTable
<1>6. r \in RREP
  BY <1>1, <1>2 DEF RREP
<1>7. Same(x, y)
  <2> HIDE DEF x, r
  <2> QED BY <1>1, <1>5, <1>6, RrepForwardSame
<1>8. Traced(h0, h2) /\ Traced(h0, y)
  <2> HIDE DEF x, y
  <2> QED BY <1>3, <1>4, <1>5, <1>7, TracedSame
<1> QED BY <1>8 DEF rrep_process, h2, h1, cost

\* An acknowledgement, or the lack of one, changes no route.
LEMMA AckSame ==
  ASSUME NEW h, Good(h, Self), NEW d \in Addr, NEW b
  PROVE  Same(h, rrep_ack_process(h, d, b)) /\ Same(h, rrep_ack_timeout(h, d))
<1> DEFINE g == [h EXCEPT !.rt[d].ack = FALSE]
           k == rrep_ack_timeout(h, d)
<1>1. h \in Host /\ Same(h, h)
  BY SameTable DEF Good
<1>2. Same(h, g)
  BY <1>1, SetFieldSame
<1>3. Same(h, k)
  <2>1. k.rt = g.rt /\ k.out = g.out
    BY <1>1 DEF rrep_ack_timeout, Host
  <2> HIDE DEF g, k
  <2> QED BY <1>2, <2>1 DEF Same
<1> QED BY <1>1, <1>2, <1>3 DEF rrep_ack_process

---------------------------------------------------------------------------
(* Handlers: requests *)

\* A record is no part of the table.
LEMMA RecordInsertSame ==
  ASSUME NEW h \in Host, NEW m, NEW cost
  PROVE  Same(h, rreq_record_insert_with_cost(h, m, cost))
<1> DEFINE g == rreq_record_insert_with_cost(h, m, cost)
<1>1. g.rt = h.rt /\ g.out = h.out
  BY DEF rreq_record_insert_with_cost, Host
<1> HIDE DEF g
<1>2. Same(h, g)
  BY <1>1, SameTable
<1> QED BY <1>2 DEF g

\* The reverse route of a RREQ goes by its sender, which is the originator
\* exactly when the RREQ made no hop.
LEMMA ReverseRouteTraced ==
  ASSUME NEW h0, NEW h, Good(h, Self), Traced(h0, h), NEW m \in RREQ, NEW src \in Addr,
         ~Former(h0, h, src), (m.hcnt = 0) = (src = m.orig), NEW channel \in Channel,
         NEW cost \in Int
  PROVE  Traced(h0, rreq_reverse_route(h, m, src, channel, cost))
<1> DEFINE hops == m.hcnt + 1
           life == PATH_DISCOVERY_TIME - 2 * hops * NODE_TRAVERSAL_TIME
<1>1. m.orig \in Addr /\ m.hcnt \in Nat /\ m.orig_seqno \in Seqno
  BY DEF RREQ
<1>2. h.rt[m.orig].flags \in NoRepair /\ {} \in NoRepair
  BY <1>1, HostFields, NoRepairFlags DEF NoRepair
<1>3. hops \in Nat /\ Leads(h0, h, m.orig, src, hops)
  BY <1>1 DEF Leads
<1> HIDE DEF hops, life
<1>4. Traced(h0, rt_table_insert_with_channel(h, m.orig, src, hops, m.orig_seqno, life,
                                              "valid", {}, channel, cost))
  BY <1>1, <1>2, <1>3, InsertTraced DEF rt_table_insert_with_channel
<1>5. Traced(h0, rt_table_update_with_channel(h, m.orig, src, hops, m.orig_seqno,
                                              h.rt[m.orig].flags, channel, cost))
  BY <1>1, <1>2, <1>3, UpdateTraced
<1> QED BY <1>4, <1>5 DEF rreq_reverse_route, life, hops

\* The destination answers with a RREP.
LEMMA AnswerAsDestTraced ==
  ASSUME NEW h0, NEW h, Good(h, Self), Traced(h0, h), NEW m \in RREQ, NEW channel \in Channel
  PROVE  Traced(h0, rreq_answer_as_dest(h, m, channel))
<1> DEFINE s  == rreq_own_seqno(h.seqno, m.dest_seqno)
           h1 == [h EXCEPT !.seqno = s]
           p  == Rrep(0, h.ipaddr, h1.seqno, m.orig, 1, TRUE, 0)
<1>1. m.dest_seqno \in Seqno /\ m.orig \in Addr /\ h.seqno \in Seqno /\ h.ipaddr \in Addr
  BY HostFields DEF RREQ
<1>2. s \in Seqno
  BY <1>1, SeqnoIncrType DEF rreq_own_seqno
<1> HIDE DEF s
<1>3. Good(h1, Self)
  BY <1>2, SetSeqno
<1>4. h1.seqno = s /\ h1.rt = h.rt /\ h1.out = h.out
  BY DEF Good, Host
<1>5. rreq_answer_as_dest(h, m, channel) = rrep_send_with_channel(h1, p, m.orig, Bcast, channel)
  BY DEF rreq_answer_as_dest, s
<1> HIDE DEF h1
<1>6. p \in RREP
  BY <1>1, <1>2, <1>4 DEF Rrep, RREP
<1>7. Traced(h0, h1)
  BY <1>4, SameTable, TracedSame
<1> HIDE DEF p
<1>8. Traced(h0, rrep_send_with_channel(h1, p, m.orig, Bcast, channel))
  BY <1>1, <1>3, <1>6, <1>7, RrepSendTraced
<1> QED BY <1>5, <1>8

\* An intermediate node answers with one or two.
LEMMA AnswerFromTableTraced ==
  ASSUME NEW h0, NEW h, Good(h, Self), Traced(h0, h), NEW m \in RREQ, NEW left \in {0, 1}
  PROVE  Traced(h0, rreq_answer_from_table(h, m, left))
<1> DEFINE f  == h.rt[m.dest]
           p  == Rrep(f.hcnt, m.dest, f.seqno, m.orig, left, TRUE, f.cost)
           h1 == rrep_send_with_channel(h, p, m.orig, m.dest, f.channel)
           r  == h1.rt[m.orig]
           q  == Rrep(r.hcnt, m.orig, r.seqno, m.dest, left, FALSE, 0)
           h2 == rrep_send_with_channel(h1, q, m.dest, m.orig, f.channel)
<1>1. m.dest \in Addr /\ m.orig \in Addr
  BY DEF RREQ
<1>2. f.hcnt \in Nat /\ f.seqno \in Seqno /\ f.cost \in Int
      /\ f.channel \in Channel \cup {NoChannel}
  BY <1>1, HostFields, EntryFields
<1>3. rreq_answer_from_table(h, m, left) = IF ~m.g THEN h1 ELSE h2
  BY DEF rreq_answer_from_table
<1> HIDE DEF f
<1>4. p \in RREP
  BY <1>1, <1>2, RrepType
<1> HIDE DEF p
<1>5. Good(h1, Self) /\ Traced(h0, h1)
  BY <1>1, <1>2, <1>4, RrepSendGood, RrepSendTraced
<1> HIDE DEF h1
<1>6. q \in RREP
  <2>1. r.hcnt \in Nat /\ r.seqno \in Seqno
    BY <1>1, <1>5, HostFields, EntryFields
  <2> HIDE DEF r
  <2> QED BY <1>1, <2>1 DEF Rrep, RREP
<1> HIDE DEF q
<1>7. Traced(h0, h2)
  BY <1>1, <1>2, <1>5, <1>6, RrepSendTraced
<1> HIDE DEF h2
<1> QED BY <1>3, <1>5, <1>7

\* A RREQ that is forwarded changes no route.
LEMMA RreqForwardSame ==
  ASSUME NEW h \in Host, NEW m, NEW cost, NEW ttl
  PROVE  Same(h, rreq_forward_with_channel(h, m, cost, ttl))
<1> DEFINE s == IF present(h, m.dest) /\ newer(h.rt[m.dest].seqno, m.dest_seqno)
                THEN h.rt[m.dest].seqno ELSE m.dest_seqno
           x == [h EXCEPT !.channelNum = Channel_Count - 1]
           r == [m EXCEPT !.hcnt = @ + 1, !.dest_seqno = s, !.cost = cost]
           y == aodv_socket_send(x, Bcast, ttl - 1, r)
<1>1. x.rt = h.rt /\ x.out = h.out
  BY DEF Host
<1>2. x \in Host
  <2>1. Channel_Count - 1 \in Channel
    BY ChannelAssumption DEF Channel
  <2> QED BY <2>1 DEF Host
<1>3. rreq_forward_with_channel(h, m, cost, ttl) = IF ttl <= 1 THEN h ELSE y
  BY DEF rreq_forward_with_channel
<1> HIDE DEF x, r
<1>4. Same(h, h) /\ Same(h, x)
  BY <1>1, SameTable
<1>5. Same(x, y)
  BY <1>2, SocketSendSame
<1> HIDE DEF y
<1> QED BY <1>3, <1>4, <1>5, SameTrans

\* A route that is deleted is not answered from.
LEMMA AsIntermediateDone ==
  ASSUME NEW h0, NEW h, Good(h, Self), Traced(h0, h), NEW m \in RREQ, NEW cost \in Int,
         NEW ttl \in Nat, NEW left \in {0, 1}
  PROVE  Done(h0, rreq_as_intermediate(h, m, cost, ttl, left))
<1> DEFINE k  == rt_table_delete(h, m.dest)
           h1 == IF present(h, m.dest) /\ h.rt[m.dest].channel = NoChannel THEN k ELSE h
           a  == rreq_answer_from_table(h1, m, left)
           f  == rreq_forward_with_channel(h1, m, cost, ttl)
<1>1. Done(h0, h)
  BY TracedDone
<1>2. Good(h1, Self) /\ Done(h0, h1)
  BY <1>1, DeleteGood, DeleteDone
<1>3. h1 \in Host
  BY <1>2 DEF Good
<1>4. valid(h1, m.dest) => h1 = h
  <2>1. CASE present(h, m.dest) /\ h.rt[m.dest].channel = NoChannel
    <3>1. m.dest \in Addr /\ h \in Host
      BY <2>1 DEF present, Good
    <3>2. k.rt[m.dest] = NoEntry
      BY <2>1, <3>1 DEF rt_table_delete, Host
    <3> HIDE DEF k
    <3> QED BY <2>1, <3>2 DEF valid, NoEntry
  <2> QED BY <2>1
<1> HIDE DEF h1
<1>5. valid(h1, m.dest) => Done(h0, a)
  BY <1>4, AnswerFromTableTraced, TracedDone
<1>6. Done(h0, f)
  BY <1>2, <1>3, RreqForwardSame, DoneSame
<1> HIDE DEF a, f
<1> QED BY <1>5, <1>6 DEF rreq_as_intermediate, h1, a, f

\* rreq_process as a whole.
LEMMA RreqProcessDone ==
  ASSUME NEW h0, NEW h, Good(h, Self), Traced(h0, h), NEW m \in RREQ, NEW src \in Addr,
         ~Former(h0, h, src), (m.hcnt = 0) = (src = m.orig), NEW channel \in Channel,
         NEW ttl \in Nat, NEW link \in Int, NEW left \in {0, 1}
  PROVE  Done(h0, rreq_process(h, m, src, channel, ttl, link, left))
<1> DEFINE cost == m.cost + link
           h1   == rreq_record_insert_with_cost(h, m, cost)
           h2   == rreq_reverse_route(h1, m, src, channel, cost)
<1>1. cost \in Int /\ h \in Host
  BY DEF RREQ, Good
<1> HIDE DEF cost
<1>2. Good(h1, Self) /\ Same(h, h1)
  BY <1>1, RecordInsertGood, RecordInsertSame
<1> HIDE DEF h1
<1>3. Traced(h0, h1) /\ ~Former(h0, h1, src)
  BY <1>2, TracedSame DEF Former, NeighborOf, Same, KeepsRoute
<1>4. Good(h2, Self) /\ Traced(h0, h2)
  BY <1>1, <1>2, <1>3, ReverseRouteGood, ReverseRouteTraced
<1> HIDE DEF h2
<1>5. Done(h0, h) /\ Done(h0, h1)
  BY <1>3, TracedDone
<1>6. Done(h0, rreq_answer_as_dest(h2, m, channel))
  BY <1>4, AnswerAsDestTraced, TracedDone
<1>7. Done(h0, rreq_as_intermediate(h2, m, cost, ttl, left))
  BY <1>1, <1>4, AsIntermediateDone
<1> QED BY <1>5, <1>6, <1>7 DEF rreq_process, h1, h2, cost

---------------------------------------------------------------------------
(* Handlers: errors, HELLO messages, timeouts *)

\* A RERR in which its receiver reads other hosts than the sender invalidates
\* no neighbour, and each route it invalidates is reported on.
LEMMA RerrProcessTraced ==
  ASSUME NEW h0, NEW h, Good(h, Self), Traced(h0, h), NEW m \in RERR, NEW src,
         \A u \in rerr_read(m) : u.addr # src
  PROVE  Traced(h0, rerr_process(h, m, src))
<1> DEFINE read == {u \in rerr_read(m) : valid(h, u.addr) /\ h.rt[u.addr].next = src}
           hit  == {u.addr : u \in read}
           seq(d) == (CHOOSE u \in read : u.addr = d).seqno
           told == {d \in hit : h.rt[d].prec # {} /\ "REPAIR" \notin h.rt[d].flags}
           prec == [d \in Addr |-> h.rt[d].prec]
           gone(e, s) == IF m.n THEN [e EXCEPT !.seqno = s]
                         ELSE [invalidated(e) EXCEPT !.seqno = s, !.prec = {}]
           t == [d \in Addr |-> IF d \in hit THEN gone(h.rt[d], seq(d)) ELSE h.rt[d]]
           c == IF m.n THEN h.num_active ELSE plus(h.num_active, -Cardinality(hit))
           h1 == [h EXCEPT !.rt = t, !.num_active = c]
           first == IF m.first \in told THEN m.first ELSE least(told)
           g == sendRerr(h1, first, told, prec, m.n)
<1>1. /\ hit \subseteq Addr /\ h \in Host
      /\ \A d \in hit : h.rt[d].state = "valid" /\ h.rt[d].next = src /\ d # src
  BY DEF valid, Good
<1>2. \A d \in hit : seq(d) \in Seqno
  <2> SUFFICES ASSUME NEW d \in hit PROVE seq(d) \in Seqno
    OBVIOUS
  <2>1. \E u \in read : u.addr = d
    OBVIOUS
  <2>2. (CHOOSE u \in read : u.addr = d) \in read
    <3> HIDE DEF read
    <3> QED BY <2>1
  <2> QED BY <2>2, RerrReadType
<1>3. ASSUME NEW e \in Entry, RouteOK(e), NEW s \in Seqno
      PROVE  /\ gone(e, s) \in Entry
             /\ gone(e, s).next = e.next /\ gone(e, s).hcnt = e.hcnt
             /\ gone(e, s).state = "none" => e.state = "none"
             /\ gone(e, s).state = "valid" => e.state = "valid"
  <2> DEFINE i == invalidated(e)
             a == [e EXCEPT !.seqno = s]
             b == [i EXCEPT !.seqno = s, !.prec = {}]
  <2>1. a \in Entry /\ a.next = e.next /\ a.hcnt = e.hcnt /\ a.state = e.state
    BY <1>3 DEF Entry
  <2>2. i \in Entry /\ i.state = "invalid"
    BY <1>3, InvalidatedType
  <2>3. i.next = e.next /\ i.hcnt = e.hcnt
    BY <1>3 DEF invalidated, Entry
  <2>4. b \in Entry /\ b.next = e.next /\ b.hcnt = e.hcnt /\ b.state = "invalid"
    <3> HIDE DEF i
    <3> QED BY <1>3, <2>2, <2>3 DEF Entry
  <2>5. gone(e, s) = IF m.n THEN a ELSE b
    OBVIOUS
  <2> HIDE DEF a, b, gone
  <2> QED BY <2>1, <2>4, <2>5
<1>4. ASSUME NEW d \in Addr
      PROVE  /\ d \notin hit => t[d] = h.rt[d]
             /\ t[d] \in Entry
             /\ t[d].next = h.rt[d].next /\ t[d].hcnt = h.rt[d].hcnt
             /\ t[d].state # "none" => h.rt[d].state # "none"
             /\ t[d].state = "valid" => h.rt[d].state = "valid"
  <2>1. h.rt[d] \in Entry /\ RouteOK(h.rt[d])
    BY HostFields
  <2>2. t[d] = IF d \in hit THEN gone(h.rt[d], seq(d)) ELSE h.rt[d]
    OBVIOUS
  <2> HIDE DEF gone, seq, hit, t
  <2>3. CASE d \in hit
    <3>1. h.rt[d].state = "valid"
      BY <1>1, <2>3
    <3> QED BY <1>2, <1>3, <2>1, <2>2, <2>3, <3>1
  <2>4. CASE d \notin hit
    BY <2>1, <2>2, <2>4
  <2> QED BY <2>3, <2>4
<1>5. h1 \in Host /\ h1.rt = t /\ h1.out = h.out
  <2>1. t \in [Addr -> Entry]
    <3>1. \A d \in Addr : t[d] \in Entry
      BY <1>4
    <3>2. t = [d \in Addr |-> t[d]]
      OBVIOUS
    <3> HIDE DEF t
    <3> QED BY <3>1, <3>2
  <2>2. c \in 0 .. CounterMod - 1
    <3> HIDE DEF hit
    <3>1. Cardinality(hit) \in Nat
      BY <1>1, AddrAssumption, FS_Subset, FS_CardinalityType
    <3>2. plus(h.num_active, -Cardinality(hit)) \in 0 .. CounterMod - 1
      BY <3>1, HostFields, PlusType
    <3> QED BY <3>2, HostFields
  <2> HIDE DEF t, c
  <2> QED BY <1>1, <2>1, <2>2 DEF Host
<1>6. Same(h1, g) /\ \A u \in told : reported(g, u)
  <2> HIDE DEF h1, first, told, prec
  <2> QED BY <1>5, SendRerrReports
<1>7. \A u \in hit : h.rt[u].prec # {} => u \in told
  <2>1. \A u \in hit : "REPAIR" \notin h.rt[u].flags
    BY <1>1, HostFields DEF RouteOK
  <2> QED BY <2>1
<1>8. rerr_process(h, m, src) = g
  BY DEF rerr_process
<1> HIDE DEF hit, told, t, h1, g, first
<1>9. Direct(h1)
  BY <1>4, <1>5 DEF Traced, Direct
<1>10. \A u \in Addr : NeighborOf(h, u) => NeighborOf(h1, u)
  <2> SUFFICES ASSUME NEW u \in Addr, NeighborOf(h, u) PROVE NeighborOf(h1, u)
    OBVIOUS
  <2>1. u \notin hit
    BY <1>1 DEF NeighborOf, Traced, Direct
  <2> QED BY <1>4, <1>5, <2>1 DEF NeighborOf
<1>11. Cut(h0, h1)
  BY <1>4, <1>5, <1>10 DEF Traced, Cut, Former, NoneThrough
<1>12. Direct(g) /\ Cut(h0, g)
  <2>1. \A u \in Addr : NeighborOf(g, u) <=> NeighborOf(h1, u)
    BY <1>6 DEF NeighborOf, Same, KeepsRoute
  <2>2. Direct(g)
    BY <1>6, <1>9 DEF Direct, Same, KeepsRoute
  <2>3. Cut(h0, g)
    BY <1>6, <1>11, <2>1 DEF Cut, Former, NoneThrough, Same, KeepsRoute
  <2> QED BY <2>2, <2>3
<1>13. Told(h0, g)
  <2> SUFFICES ASSUME NEW u \in Addr, h0.rt[u].state = "valid", h0.rt[u].prec # {}
               PROVE  reported(g, u) \/ (g.rt[u].state = "valid" /\ g.rt[u].prec # {})
    BY DEF Told
  <2>1. CASE reported(h, u)
    BY <1>5, <1>6, <2>1, ReportedStays DEF Same
  <2>2. CASE h.rt[u].state = "valid" /\ h.rt[u].prec # {}
    <3>1. CASE u \in hit
      BY <1>6, <1>7, <2>2, <3>1
    <3>2. CASE u \notin hit
      <4>1. h1.rt[u] = h.rt[u]
        BY <1>4, <1>5, <3>2
      <4> QED BY <1>6, <2>2, <4>1 DEF Same, KeepsRoute
    <3> QED BY <3>1, <3>2
  <2> QED BY <2>1, <2>2 DEF Traced, Told
<1>14. Traced(h0, g)
  BY <1>12, <1>13 DEF Traced
<1> QED BY <1>8, <1>14

\* A HELLO makes or renews the link to its sender.
LEMMA HelloTraced ==
  ASSUME NEW h0, NEW h, Good(h, Self), Traced(h0, h), NEW d \in Addr, NEW seqno \in Seqno,
         NEW channel \in Channel, NEW listed \in BOOLEAN, NEW close \in BOOLEAN
  PROVE  Traced(h0, hello_process(h, d, seqno, channel, listed, close))
<1> DEFINE h1 == hello_ack(h, d, channel)
           f  == hello_flags(h, d, listed)
           e  == h.rt[d]
           st == IF receive_n_hellos > 0 THEN "invalid" ELSE "valid"
           cnt == IF close THEN h1.rt[d].hello_cnt + 1 ELSE 1
           i  == rt_table_insert(h1, d, d, 1, seqno, 1, st, f)
           i1 == [i EXCEPT !.rt[d].hello_cnt = 1]
           u  == rt_table_update(h1, d, d, 1, seqno, f)
<1>1. Good(h1, Self) /\ Same(h, h1)
  <2> DEFINE x == [h EXCEPT !.channelNum = channel]
  <2>1. [type |-> "HELLO_ACK"] \in Message
    BY DEF Message, ACK
  <2>2. Good(x, Self)
    BY SetChannel
  <2>3. x.rt = h.rt /\ x.out = h.out
    BY DEF Good, Host
  <2> HIDE DEF x
  <2>4. Same(h, x) /\ x \in Host
    BY <2>2, <2>3, SameTable DEF Good
  <2>5. Good(h1, Self) /\ Same(x, h1)
    BY <2>1, <2>2, <2>4, TtlType, SocketSendGood, SocketSendSame DEF hello_ack, x
  <2> HIDE DEF h1
  <2> QED BY <2>4, <2>5, SameTrans
<1>2. f \in NoRepair
  <2>1. h.rt[d].flags \in NoRepair
    BY HostFields, NoRepairFlags
  <2> QED BY <2>1 DEF hello_flags, NoRepair
<1> HIDE DEF h1, f
<1>3. Traced(h0, h1) /\ h1 \in Host /\ Leads(h0, h1, d, d, 1)
  BY <1>1, TracedSame DEF Leads, Good
<1>4. Good(i, Self) /\ Traced(h0, i)
  <2>1. st \in {"valid", "invalid"} /\ DefaultCost \in Int
    BY DEF DefaultCost
  <2> HIDE DEF st
  <2> QED BY <1>1, <1>2, <1>3, <2>1, InsertEntryGood, InsertTraced DEF rt_table_insert
<1>5. Good(u, Self) /\ Traced(h0, u)
  <2>1. h1.rt[d].channel \in Channel \cup {NoChannel} /\ h1.rt[d].cost \in Int
    BY <1>1, HostFields, EntryFields
  <2> QED BY <1>1, <1>2, <1>3, <2>1, UpdateGood, UpdateTraced DEF rt_table_update
<1> HIDE DEF i, u
<1>6. i \in Host /\ u \in Host
  BY <1>4, <1>5 DEF Good
<1>7. Good(i1, Self) /\ Same(i, i1)
  BY <1>4, <1>6, SetField, SetFieldSame
<1> HIDE DEF i1
<1>8. i1 \in Host
  BY <1>7 DEF Good
<1>9. Traced(h0, [i1 EXCEPT !.rt[d].hello = TRUE])
  BY <1>4, <1>7, <1>8, SetFieldSame, TracedSame
<1>10. Traced(h0, [h1 EXCEPT !.rt[d].hello = TRUE])
  BY <1>3, SetFieldSame, TracedSame
<1>11. Traced(h0, [h1 EXCEPT !.rt[d].hello_cnt = cnt])
  <2> HIDE DEF cnt
  <2> QED BY <1>3, SetFieldSame, TracedSame
<1>12. Traced(h0, [u EXCEPT !.rt[d].hello = TRUE])
  BY <1>5, <1>6, SetFieldSame, TracedSame
<1> QED BY <1>9, <1>10, <1>11, <1>12 DEF hello_process, h1, f, i, i1, u

\* A neighbour that is not heard any more is a broken link.
LEMMA HelloTimeoutTraced ==
  ASSUME NEW h0, NEW h, Good(h, Self), Traced(h0, h), NEW d \in Addr
  PROVE  Traced(h0, hello_timeout(h, d))
<1> DEFINE g == [h EXCEPT !.rt[d].hello = FALSE]
<1>1. h \in Host
  BY DEF Good
<1>2. Good(g, Self) /\ Same(h, g)
  BY <1>1, SetField, SetFieldSame
<1> HIDE DEF g
<1>3. Traced(h0, g)
  BY <1>2, TracedSame
<1>4. Traced(h0, neighbor_link_break(g, d))
  BY <1>2, <1>3, LinkBreakTraced
<1> QED BY <1>3, <1>4 DEF hello_timeout, g

\* The expiry of a neighbour's entry is a broken link, that of another route
\* concerns no neighbour.
LEMMA RouteExpireDone ==
  ASSUME NEW h, Good(h, Self), Direct(h), NEW d \in Addr, h.rt[d].handler = "expire"
  PROVE  Done(h, route_expire_timeout(h, d))
<1> DEFINE e == [h.rt[d] EXCEPT !.armed = FALSE]
           g == [h EXCEPT !.rt[d].armed = FALSE]
           b == neighbor_link_break(g, d)
           i == rt_table_invalidate(g, d)
           k == precursor_list_destroy(i, d)
<1>1. h.rt[d] \in Entry /\ RouteOK(h.rt[d]) /\ h \in Host
  BY HostFields DEF Good
<1>2. Replaces(e, h.rt[d])
  BY <1>1 DEF Replaces, Entry, RouteOK
<1>3. g = [h EXCEPT !.rt[d] = e]
  BY <1>1 DEF Host
<1>4. Same(h, g)
  BY <1>1, SetFieldSame
<1>5. Good(g, Self)
  <2> HIDE DEF g, e
  <2> QED BY <1>2, <1>3, SetEntry
<1> HIDE DEF g
<1>6. g \in Host
  BY <1>5 DEF Good
<1>7. Done(h, b)
  BY <1>4, <1>5, TracedStart, TracedSame, LinkBreakTraced, TracedDone
<1>8. CASE h.rt[d].hcnt # 1
  <2>1. g.rt[d] \in Entry /\ g.rt \in [Addr -> Entry]
    BY <1>6 DEF Host
  <2>2. /\ \A u \in Addr \ {d} : i.rt[u] = g.rt[u]
        /\ i.rt[d].next = g.rt[d].next /\ i.rt[d].hcnt = g.rt[d].hcnt
    <3>1. invalidated(g.rt[d]).next = g.rt[d].next /\ invalidated(g.rt[d]).hcnt = g.rt[d].hcnt
      BY <2>1 DEF invalidated, Entry
    <3>2. i = g \/ i.rt = [g.rt EXCEPT ![d] = invalidated(g.rt[d])]
      BY <1>6 DEF rt_table_invalidate, Host
    <3> HIDE DEF i
    <3> QED BY <2>1, <3>1, <3>2
  <2>3. Good(i, Self)
    BY <1>5, InvalidateGood
  <2>4. i.rt \in [Addr -> Entry] /\ i \in Host /\ i.rt[d] \in Entry
    BY <2>3 DEF Good, Host
  <2> HIDE DEF i
  <2>5. /\ \A u \in Addr \ {d} : k.rt[u] = i.rt[u]
        /\ k.rt[d].next = i.rt[d].next /\ k.rt[d].hcnt = i.rt[d].hcnt
    <3>1. k = i \/ k.rt = [i.rt EXCEPT ![d] = [i.rt[d] EXCEPT !.prec = {}]]
      BY <2>4 DEF precursor_list_destroy, Host
    <3>2. LET y == [i.rt[d] EXCEPT !.prec = {}]
          IN  y.next = i.rt[d].next /\ y.hcnt = i.rt[d].hcnt
      BY <2>4 DEF Entry
    <3> HIDE DEF k
    <3> QED BY <2>4, <3>1, <3>2
  <2> HIDE DEF k
  <2>6. /\ \A u \in Addr \ {d} : KeepsRoute(k.rt[u], h.rt[u])
        /\ k.rt[d].hcnt # 1
    BY <1>4, <1>8, <2>2, <2>5 DEF Same, KeepsRoute
  <2>7. Direct(k)
    BY <2>6 DEF Direct, KeepsRoute
  <2>8. LinksReported(h, k)
    BY <1>8, <2>6 DEF LinksReported, NeighborOf, KeepsRoute
  <2>9. Done(h, k)
    BY <2>7, <2>8 DEF Done
  <2> QED BY <1>8, <2>9 DEF route_expire_timeout, g, i, k
<1> HIDE DEF b
<1> QED BY <1>7, <1>8 DEF route_expire_timeout, g, b

---------------------------------------------------------------------------
(* Handlers: data packets and the entry point *)

\* A data packet changes no route.
LEMMA ProcessPacketSame ==
  ASSUME NEW h, Good(h, Self), NEW src \in Addr, NEW dest \in Addr, NEW tcp \in BOOLEAN,
         NEW v \in Addr, NEW vo \in Origin
  PROVE  Same(h, processPacket(h, src, dest, tcp, v, vo))
<1> DEFINE x  == RenewRoute(h, dest, llfeedback)
           h1 == RenewRoute(x, src, llfeedback)
           s  == sendPacket(h1, h1.rt[dest].next, MAXTTL,
                            [type |-> "DATA", src |-> src, dest |-> dest])
           r  == no_route_rerr(h1, src, dest)
           q  == rreq_route_discovery(packet_queue_add(h1, dest, "own", v, vo), dest, tcp)
           usable == valid(h1, dest)
                     /\ ~(h1.rt[dest].hcnt = 1 /\ "UNIDIR" \in h1.rt[dest].flags)
<1>1. Good(x, Self) /\ Same(h, x)
  BY RenewRouteGood, RenewRouteSame
<1>2. processPacket(h, src, dest, tcp, v, vo)
        = IF dest = h.ipaddr THEN h1 ELSE IF usable THEN s
          ELSE IF src # h.ipaddr THEN r ELSE q
  BY DEF processPacket, rt_table_update_route_timeouts
<1> HIDE DEF x
<1>3. Good(h1, Self) /\ Same(x, h1)
  BY <1>1, RenewRouteGood, RenewRouteSame
<1> HIDE DEF h1, usable
<1>4. Same(h, h1) /\ h1 \in Host
  BY <1>1, <1>3, SameTrans DEF Good
<1>5. Same(h1, s)
  BY <1>4, SendPacketSame
<1>6. Same(h1, r)
  <2> DEFINE y == rt_table_update_timeout(h1, dest)
  <2>1. Good(y, Self) /\ Same(h1, y)
    BY <1>3, <1>4, UpdateTimeoutGood, UpdateTimeoutSame
  <2>2. y \in Host
    BY <2>1 DEF Good
  <2> HIDE DEF y
  <2>3. Same(y, r)
    BY <2>2, SocketSendSame DEF no_route_rerr, y
  <2> HIDE DEF r
  <2> QED BY <2>1, <2>3, SameTrans
<1>7. Same(h1, q)
  BY <1>3, DiscoverySame
<1> HIDE DEF s, r, q
<1>8. Same(h, s) /\ Same(h, r) /\ Same(h, q)
  BY <1>4, <1>5, <1>6, <1>7, SameTrans
<1> QED BY <1>2, <1>4, <1>8

\* The link layer's report of a failure breaks the link or queues the packet.
LEMMA PacketFailedTraced ==
  ASSUME NEW h0, NEW h, Good(h, Self), Traced(h0, h), NEW dest, NEW o, NEW nh, NEW v, NEW vo
  PROVE  Traced(h0, packetFailed(h, dest, o, nh, v, vo))
<1>1. h \in Host
  BY DEF Good
<1>2. Traced(h0, packet_queue_add(h, dest, o, v, vo))
  BY <1>1, QueueAddSame, TracedSame
<1>3. Traced(h0, neighbor_link_break(h, nh))
  BY LinkBreakTraced
<1> QED BY <1>2, <1>3 DEF packetFailed

\* Every control message, with what its sender makes sure of.
LEMMA ProcessDone ==
  ASSUME NEW h, Good(h, Self), Direct(h), NEW m \in RREQ \cup RREP \cup RERR \cup ACK,
         NEW src \in Addr, NEW channel \in Channel, NEW ttl \in Nat, NEW link \in Int,
         NEW left \in {0, 1},
         m \in RREQ => (m.hcnt = 0) = (src = m.orig),
         m \in RREP => (m.hcnt = 0) = (src = m.dest),
         m \in RERR => \A u \in rerr_read(m) : u.addr # src
  PROVE  Done(h, aodv_socket_process_packet(h, m, src, channel, ttl, link, left))
<1> DEFINE h1 == neighbor_add(h, src)
<1>1. Traced(h, h) /\ ~Former(h, h, src)
  BY TracedStart DEF Former
<1>2. Good(h1, Self) /\ Traced(h, h1) /\ ~Former(h, h1, src)
  BY <1>1, NeighborAddGood, NeighborAddTraced
<1> HIDE DEF h1
<1>3. CASE m \in RREQ
  <2>1. m.type = "RREQ"
    BY <1>3 DEF RREQ
  <2>2. Done(h, rreq_process(h1, m, src, channel, ttl, link, left))
    BY <1>2, <1>3, RreqProcessDone
  <2> QED BY <2>1, <2>2 DEF aodv_socket_process_packet, h1
<1>4. CASE m \in RREP
  <2>1. m.type = "RREP"
    BY <1>4 DEF RREP
  <2>2. Done(h, rrep_process(h1, m, src, channel, link))
    BY <1>2, <1>4, RrepProcessTraced, TracedDone
  <2> QED BY <2>1, <2>2 DEF aodv_socket_process_packet, h1
<1>5. CASE m \in RERR
  <2>1. m.type = "RERR"
    BY <1>5 DEF RERR
  <2>2. Done(h, rerr_process(h1, m, src))
    BY <1>2, <1>5, RerrProcessTraced, TracedDone
  <2> QED BY <2>1, <2>2 DEF aodv_socket_process_packet, h1
<1>6. CASE m \in ACK
  <2>1. m.type = "RREP_ACK" \/ m.type = "HELLO_ACK"
    BY <1>6 DEF ACK
  <2>2. Done(h, rrep_ack_process(h1, src, TRUE)) /\ Done(h, rrep_ack_process(h1, src, FALSE))
    BY <1>2, AckSame, TracedSame, TracedDone
  <2> QED BY <2>1, <2>2 DEF aodv_socket_process_packet, h1
<1> QED BY <1>3, <1>4, <1>5, <1>6

---------------------------------------------------------------------------
(* Every step *)

\* No neighbour reads itself in a RERR of its own.  A sender never lists
\* itself, but with several destinations a receiver reads <0, 0> as the second.
SenderUnread ==
  \A m \in RERRs, src \in Neighbor :
    (\A u \in m.dests : u.addr # src) => \A u \in rerr_read(m) : u.addr # src

\* It is so wherever no neighbour has the address 0.
LEMMA NoNeighborZero == ASSUME 0 \notin Neighbor PROVE SenderUnread
<1> SUFFICES ASSUME NEW m \in RERRs, NEW src \in Neighbor, \A u \in m.dests : u.addr # src,
                    NEW u \in rerr_read(m)
             PROVE  u.addr # src
  BY DEF SenderUnread
<1>1. u \in m.dests \/ u = [addr |-> 0, seqno |-> 0]
  BY DEF rerr_read
<1> QED BY <1>1

\* What a step leaves between the host before and after it.
StepDone == Done(host, host')

\* The host at the start of an event has the table of the host before it.
LEMMA IdleDone ==
  ASSUME IInv, Direct(host)
  PROVE  /\ Good(idle, Self) /\ Direct(idle) /\ Traced(idle, idle)
         /\ \A g : Done(idle, g) => Done(host, g)
<1>1. Good(idle, Self) /\ idle.rt = host.rt
  BY IdleGood
<1>2. Direct(idle)
  BY <1>1 DEF Direct
<1>3. Traced(idle, idle)
  BY <1>2, TracedStart
<1>4. ASSUME NEW g, Done(idle, g) PROVE Done(host, g)
  BY <1>1, <1>4 DEF Done, LinksReported, NeighborOf
<1> QED BY <1>1, <1>2, <1>3, <1>4

\* Every arriving message, data packet or link failure.
LEMMA ReceiveDone == SenderUnread /\ IInv /\ Direct(host) /\ Receive => StepDone
<1> SUFFICES ASSUME SenderUnread, IInv, Direct(host), Receive PROVE Done(host, host')
  BY DEF StepDone
<1> DEFINE h == idle
<1>1. Good(h, Self) /\ Direct(h) /\ Traced(h, h) /\ \A g : Done(h, g) => Done(host, g)
  BY IdleDone
<1> HIDE DEF h
<1>2. 0 \in Channel /\ Neighbor \subseteq Addr
  BY ChannelAssumption DEF Channel, Neighbor
<1>3. CASE \E m \in RREQs, src \in Neighbor, c \in Channel, ttl \in {1, 2},
              link \in LinkCost, left \in {0, 1} : RecvRreq(m, src, c, ttl, link, left)
  <2>1. PICK m \in RREQs, src \in Neighbor, c \in Channel, ttl \in {1, 2},
             link \in LinkCost, left \in {0, 1} : RecvRreq(m, src, c, ttl, link, left)
    BY <1>3
  <2>2. /\ m \in RREQ /\ src \in Addr /\ ttl \in Nat /\ link \in Int
        /\ m \notin RREP /\ m \notin RERR
    BY <1>2, NodeAssumption DEF RREQ, RREP, RERR
  <2>3. (m.hcnt = 0) = (src = m.orig)
        /\ host' = aodv_socket_process_packet(h, m, src, c, ttl, link, left)
    BY <2>1 DEF RecvRreq, h
  <2> QED BY <1>1, <2>2, <2>3, ProcessDone
<1>4. CASE \E m \in RREPs, src \in Neighbor, c \in Channel, link \in LinkCost :
              RecvRrep(m, src, c, link)
  <2>1. PICK m \in RREPs, src \in Neighbor, c \in Channel, link \in LinkCost :
               RecvRrep(m, src, c, link)
    BY <1>4
  <2>2. /\ m \in RREP /\ src \in Addr /\ link \in Int /\ m \notin RREQ /\ m \notin RERR
    BY <1>2, NodeAssumption DEF RREQ, RREP, RERR
  <2>3. (m.hcnt = 0) = (src = m.dest)
        /\ host' = aodv_socket_process_packet(h, m, src, c, 1, link, 1)
    BY <2>1 DEF RecvRrep, h
  <2> QED BY <1>1, <2>2, <2>3, ProcessDone
<1>5. CASE \E m \in RERRs, src \in Neighbor : RecvRerr(m, src)
  <2>1. PICK m \in RERRs, src \in Neighbor : RecvRerr(m, src)
    BY <1>5
  <2>2. m \in RERR /\ src \in Addr /\ m \notin RREQ /\ m \notin RREP
    BY <1>2, NodeAssumption DEF RREQ, RREP, RERR
  <2>3. \A u \in rerr_read(m) : u.addr # src
    BY <2>1 DEF RecvRerr, SenderUnread
  <2>4. \/ host' = neighbor_add(h, src)
        \/ host' = aodv_socket_process_packet(h, m, src, 0, 1, 0, 1)
    BY <2>1 DEF RecvRerr, h
  <2>5. Done(h, neighbor_add(h, src))
    BY <1>1, <2>2, NeighborAddTraced, TracedDone DEF Former
  <2>6. Done(h, aodv_socket_process_packet(h, m, src, 0, 1, 0, 1))
    BY <1>1, <1>2, <2>2, <2>3, ProcessDone
  <2> QED BY <1>1, <2>4, <2>5, <2>6
<1>6. CASE \E src \in Neighbor, type \in {"RREP_ACK", "HELLO_ACK"} : RecvAck(src, type)
  <2>1. PICK src \in Neighbor, type \in {"RREP_ACK", "HELLO_ACK"} : RecvAck(src, type)
    BY <1>6
  <2> DEFINE m == [type |-> type]
  <2>2. m \in ACK /\ m \notin RREQ /\ m \notin RREP /\ m \notin RERR
    BY DEF ACK, RREQ, RREP, RERR
  <2>3. host' = aodv_socket_process_packet(h, m, src, 0, 1, 0, 1)
    BY <2>1 DEF RecvAck, h
  <2> HIDE DEF m
  <2>4. Done(h, aodv_socket_process_packet(h, m, src, 0, 1, 0, 1))
    BY <1>1, <1>2, <2>2, ProcessDone
  <2> QED BY <1>1, <2>3, <2>4
<1>7. CASE \E src \in Neighbor, s \in HelloSeqno, c \in Channel, listed, close \in BOOLEAN :
              RecvHello(src, s, c, listed, close)
  BY <1>1, <1>2, <1>7, HelloTraced, TracedDone, NodeAssumption DEF RecvHello, h
<1>8. CASE \E src, dest \in Addr, tcp \in BOOLEAN, v \in Addr, vo \in Origin :
              RecvData(src, dest, tcp, v, vo)
  BY <1>1, <1>8, ProcessPacketSame, TracedSame, TracedDone DEF RecvData, h
<1>9. CASE \E dest, nh \in Neighbor, o \in Origin, v \in Addr, vo \in Origin :
              PacketFailed(dest, o, nh, v, vo)
  BY <1>1, <1>9, PacketFailedTraced, TracedDone DEF PacketFailed, h
<1> QED BY <1>3, <1>4, <1>5, <1>6, <1>7, <1>8, <1>9 DEF Receive

\* Every timer.
LEMMA TimeoutDone == IInv /\ Direct(host) /\ Timeout => StepDone
<1> SUFFICES ASSUME IInv, Direct(host), Timeout PROVE Done(host, host')
  BY DEF StepDone
<1> DEFINE h == idle
<1>1. Good(h, Self) /\ Direct(h) /\ Traced(h, h) /\ \A g : Done(h, g) => Done(host, g)
  BY IdleDone
<1>2. h.rt = host.rt
  BY IdleGood
<1> HIDE DEF h
<1>3. h \in Host
  BY <1>1 DEF Good
<1>4. \A g : Same(h, g) => Done(host, g)
  BY <1>1, TracedSame, TracedDone
<1>5. ASSUME NEW d \in Addr, RouteExpire(d) PROVE Done(host, host')
  BY <1>1, <1>2, <1>5, RouteExpireDone DEF RouteExpire, h
<1>6. ASSUME NEW d \in Addr, RouteDelete(d) PROVE Done(host, host')
  BY <1>1, <1>6, TracedDone, DeleteDone DEF RouteDelete, route_delete_timeout, h
<1>7. ASSUME NEW d \in Addr, HelloTimeout(d) PROVE Done(host, host')
  BY <1>1, <1>7, HelloTimeoutTraced, TracedDone DEF HelloTimeout, h
<1>8. ASSUME NEW d \in Addr, AckTimeout(d) PROVE Done(host, host')
  BY <1>1, <1>4, <1>8, AckSame DEF AckTimeout, h
<1>9. ASSUME NEW d \in Addr, SeekTimeout(d) PROVE Done(host, host')
  BY <1>1, <1>4, <1>9, SeekTimeoutSame DEF SeekTimeout, h
<1>10. ASSUME NEW g, g.rt = h.rt, g.out = h.out PROVE Done(host, g)
  BY <1>4, <1>10, SameTable
<1>11. ASSUME NEW r, RecordTimeout(r) PROVE Done(host, host')
  <2>1. host'.rt = h.rt /\ host'.out = h.out
    BY <1>3, <1>11 DEF RecordTimeout, rreq_record_timeout, Host, h
  <2> QED BY <1>10, <2>1
<1>12. ASSUME NEW a, BlacklistTimeout(a) PROVE Done(host, host')
  <2>1. host'.rt = h.rt /\ host'.out = h.out
    BY <1>3, <1>12 DEF BlacklistTimeout, rreq_blacklist_timeout, Host, h
  <2> QED BY <1>10, <2>1
<1>13. ASSUME NEW v \in Addr, NEW vo \in Origin, GarbageCollect(v, vo)
       PROVE  Done(host, host')
  <2>1. host'.rt = h.rt /\ host'.out = h.out
    BY <1>3, <1>13 DEF GarbageCollect, packet_queue_garbage_collect, Host, h
  <2> QED BY <1>10, <2>1
<1>14. ASSUME RebootOver PROVE Done(host, host')
  <2>1. host'.rt = h.rt /\ host'.out = h.out
    BY <1>3, <1>14 DEF RebootOver, wait_on_reboot_timeout, Host, h
  <2> QED BY <1>10, <2>1
<1> QED BY <1>5, <1>6, <1>7, <1>8, <1>9, <1>11, <1>12, <1>13, <1>14 DEF Timeout

\* Every step of the node.
LEMMA NextDone == SenderUnread /\ IInv /\ Direct(host) /\ [Next]_vars => StepDone
<1> SUFFICES ASSUME SenderUnread, IInv, Direct(host), [Next]_vars PROVE StepDone
  OBVIOUS
<1>1. CASE UNCHANGED host
  <2>1. Done(host, host)
    BY TracedStart, TracedDone
  <2> QED BY <1>1, <2>1 DEF StepDone
<1>2. CASE Elsewhere
  BY <1>1, <1>2 DEF Elsewhere, RerrElsewhere, RerrRecordTimeout
<1> QED BY <1>1, <1>2, ReceiveDone, TimeoutDone DEF Next, vars

\* When a link breaks, every route through it goes with it in the same event,
\* and each lost destination with precursors is named in a RERR; provided that
\* no receiver reads the sender in a RERR.
THEOREM LinkBreaks == ASSUME SenderUnread PROVE Spec => LinkBreakReported
<1>1. Init => Direct(host)
  BY DEF Init, InitHost, NoEntry, Direct
<1>2. IInv /\ Direct(host) /\ [Next]_vars => Direct(host)'
  BY NextDone DEF StepDone, Done, Direct
<1>3. IInv /\ Direct(host) /\ [Next]_vars =>
        [\A n \in Addr :
           valid(host, n) /\ host.rt[n].hcnt = 1 /\ invalid(host', n) =>
             /\ \A d \in Addr : valid(host', d) => host'.rt[d].next # n
             /\ \A d \in Addr :
                  /\ valid(host, d) /\ host.rt[d].next = n /\ host.rt[d].prec # {}
                  /\ invalid(host', d)
                  => reported(host', d)]_vars
  BY NextDone DEF StepDone, Done, LinksReported, NeighborOf, NoneThrough, valid, invalid
<1> QED BY <1>1, <1>2, <1>3, Invariance, PTL DEF Spec, LinkBreakReported
=============================================================================
