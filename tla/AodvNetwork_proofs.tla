------------------------- MODULE AodvNetwork_proofs -------------------------
(***************************************************************************)
(* A network of any nodes, links and traffic: every node stays Good, and   *)
(* the messages in flight are what AodvNode assumes of those that arrive.  *)
(*                                                                         *)
(* Own says what a node must know of itself for that: it has no route to   *)
(* itself and seeks none, no route has hop count zero, and what it sends   *)
(* is as assumed.  Every operation preserves Own, one lemma each.          *)
(***************************************************************************)
EXTENDS AodvNetwork, AodvControl_proofs

Own(h, me) ==
  /\ h.rt[me].state = "none"
  /\ \A d \in Addr : h.rt[d].state # "none" => h.rt[d].hcnt > 0
  /\ ~h.seek[me].on
  /\ \A p \in h.out : AsAssumed(p.msg, me)

Fit(h, me) == Good(h, me) /\ Own(h, me)

\* The same destinations have entries, with the same hop counts.
SameRoutes(g, h) ==
  \A d \in Addr : /\ g.rt[d].hcnt = h.rt[d].hcnt
                  /\ (g.rt[d].state = "none") = (h.rt[d].state = "none")

\* Nothing but harmless packets is added, and no search for itself.
Modest(g, h, me) ==
  /\ g.seek[me].on => h.seek[me].on
  /\ \A p \in g.out : p \in h.out \/ AsAssumed(p.msg, me)

\* SameRoutes is an equivalence.
LEMMA SameRoutesChain ==
  /\ \A h : SameRoutes(h, h)
  /\ \A f, g, h : SameRoutes(g, f) /\ SameRoutes(h, g) => SameRoutes(h, f)
BY DEF SameRoutes

\* A step that keeps the routes and sends nothing wrong keeps Own.
LEMMA OwnStep ==
  ASSUME NEW me \in Addr, NEW h, Own(h, me), NEW g, SameRoutes(g, h), Modest(g, h, me)
  PROVE  Own(g, me)
BY DEF Own, SameRoutes, Modest

\* A change of one entry that keeps its state and hop count is such a step.
LEMMA EntryStep ==
  ASSUME NEW me, NEW h \in Host, NEW d \in Addr, NEW e, e.hcnt = h.rt[d].hcnt,
         (e.state = "none") = (h.rt[d].state = "none")
  PROVE  LET g == [h EXCEPT !.rt[d] = e] IN SameRoutes(g, h) /\ Modest(g, h, me)
BY DEF Host, SameRoutes, Modest

\* The fields that no route property depends on.
LEMMA FieldStep ==
  ASSUME NEW me, NEW h, Good(h, me), NEW d \in Addr, NEW b, NEW P, NEW k, NEW F
  PROVE  /\ LET g == [h EXCEPT !.rt[d].armed = b]
            IN  SameRoutes(g, h) /\ Modest(g, h, me)
         /\ LET g == [h EXCEPT !.rt[d].hello = b]
            IN  SameRoutes(g, h) /\ Modest(g, h, me)
         /\ LET g == [h EXCEPT !.rt[d].ack = b]
            IN  SameRoutes(g, h) /\ Modest(g, h, me)
         /\ LET g == [h EXCEPT !.rt[d].hello_cnt = k]
            IN  SameRoutes(g, h) /\ Modest(g, h, me)
         /\ LET g == [h EXCEPT !.rt[d].prec = P]
            IN  SameRoutes(g, h) /\ Modest(g, h, me)
         /\ LET g == [h EXCEPT !.rt[d].flags = F]
            IN  SameRoutes(g, h) /\ Modest(g, h, me)
<1> DEFINE e == h.rt[d]
<1>0. e \in Entry /\ h \in Host
  BY HostFields DEF Good
<1>1. LET g == [h EXCEPT !.rt[d] = [e EXCEPT !.armed = b]]
      IN  SameRoutes(g, h) /\ Modest(g, h, me)
  BY <1>0, EntryStep DEF Entry
<1>2. LET g == [h EXCEPT !.rt[d] = [e EXCEPT !.hello = b]]
      IN  SameRoutes(g, h) /\ Modest(g, h, me)
  BY <1>0, EntryStep DEF Entry
<1>3. LET g == [h EXCEPT !.rt[d] = [e EXCEPT !.ack = b]]
      IN  SameRoutes(g, h) /\ Modest(g, h, me)
  BY <1>0, EntryStep DEF Entry
<1>4. LET g == [h EXCEPT !.rt[d] = [e EXCEPT !.hello_cnt = k]]
      IN  SameRoutes(g, h) /\ Modest(g, h, me)
  BY <1>0, EntryStep DEF Entry
<1>5. LET g == [h EXCEPT !.rt[d] = [e EXCEPT !.prec = P]]
      IN  SameRoutes(g, h) /\ Modest(g, h, me)
  BY <1>0, EntryStep DEF Entry
<1>6. LET g == [h EXCEPT !.rt[d] = [e EXCEPT !.flags = F]]
      IN  SameRoutes(g, h) /\ Modest(g, h, me)
  BY <1>0, EntryStep DEF Entry
<1>7. /\ [h EXCEPT !.rt[d].armed = b] = [h EXCEPT !.rt[d] = [e EXCEPT !.armed = b]]
      /\ [h EXCEPT !.rt[d].hello = b] = [h EXCEPT !.rt[d] = [e EXCEPT !.hello = b]]
      /\ [h EXCEPT !.rt[d].ack = b] = [h EXCEPT !.rt[d] = [e EXCEPT !.ack = b]]
      /\ [h EXCEPT !.rt[d].hello_cnt = k] = [h EXCEPT !.rt[d] = [e EXCEPT !.hello_cnt = k]]
      /\ [h EXCEPT !.rt[d].prec = P] = [h EXCEPT !.rt[d] = [e EXCEPT !.prec = P]]
      /\ [h EXCEPT !.rt[d].flags = F] = [h EXCEPT !.rt[d] = [e EXCEPT !.flags = F]]
  BY <1>0 DEF Host
<1> HIDE DEF e
<1> QED BY <1>1, <1>2, <1>3, <1>4, <1>5, <1>6, <1>7

---------------------------------------------------------------------------
(* RoutingTable: sending *)

\* Sending changes nothing but what is sent.
LEMMA SendFit ==
  ASSUME NEW me, NEW h, Fit(h, me), NEW dst \in Addr \cup {0, Bcast}, NEW ttl \in Nat,
         NEW m \in Message, AsAssumed(m, me)
  PROVE  /\ Fit(sendPacket(h, dst, ttl, m), me) /\ SameRoutes(sendPacket(h, dst, ttl, m), h)
         /\ Fit(aodv_socket_send(h, dst, ttl, m), me)
         /\ SameRoutes(aodv_socket_send(h, dst, ttl, m), h)
<1> DEFINE g == sendPacket(h, dst, ttl, m)
<1>1. h \in Host /\ me \in Addr
  BY HostFields DEF Fit, Good
<1>2. g.rt = h.rt /\ g.seek = h.seek /\ \A p \in g.out : p \in h.out \/ p.msg = m
  BY <1>1 DEF Host, sendPacket
<1>3. Good(g, me)
  BY SendPacketGood DEF Fit
<1> HIDE DEF g
<1>4. SameRoutes(g, h) /\ Modest(g, h, me)
  BY <1>2 DEF SameRoutes, Modest
<1>5. Fit(g, me)
  BY <1>1, <1>3, <1>4, OwnStep DEF Fit
<1> QED BY <1>4, <1>5, SameRoutesChain DEF aodv_socket_send, g

\* A RERR about a new table names its first destination, and never its sender.
LEMMA SendRerrModest ==
  ASSUME NEW me, NEW h \in Host, NEW t, NEW c, NEW D, me \notin D,
         NEW first, D # {} => first \in D, NEW prec, NEW n
  PROVE  LET g == sendRerr([h EXCEPT !.rt = t, !.num_active = c], first, D, prec, n)
         IN  g.rt = t /\ Modest(g, h, me)
<1> DEFINE h1 == [h EXCEPT !.rt = t, !.num_active = c]
           m == Rerr(h1, first, D, n)
           dst == RerrDst(h1, D, prec)
           p == [dst |-> dst, ttl |-> 1, msg |-> m,
                 ch |-> IF dst = Bcast THEN AllChannels ELSE h1.channelNum]
           h2 == [h1 EXCEPT !.out = h1.out \cup {p}]
<1>1. D # {} => AsAssumed(m, me)
  <2> SUFFICES ASSUME D # {} PROVE AsAssumed(m, me)
    OBVIOUS
  <2>1. m.type = "RERR" /\ m.first = first
    BY DEF Rerr
  <2>2. m.dests = {[addr |-> u, seqno |-> h1.rt[u].seqno] : u \in D}
    BY DEF Rerr
  <2>3. \A u \in m.dests : u.addr \in D
    BY <2>2
  <2>4. \E u \in m.dests : u.addr = first
    <3>1. [addr |-> first, seqno |-> h1.rt[first].seqno] \in m.dests
      BY <2>2
    <3> QED BY <3>1
  <2> HIDE DEF m
  <2> QED BY <2>1, <2>3, <2>4 DEF AsAssumed
<1>2. h1.rt = t /\ h1.seek = h.seek /\ h1.out = h.out
  BY DEF Host
<1>3. h2.rt = t /\ h2.seek = h.seek /\ h2.out = h.out \cup {p} /\ p.msg = m
  <2> HIDE DEF m, dst
  <2> QED BY DEF Host
<1>4. sendRerr(h1, first, D, prec, n) = IF D = {} THEN h1 ELSE h2
  BY DEF sendRerr, aodv_socket_send, sendPacket, Rerr
<1> HIDE DEF h1, h2, p, m
<1>5. D = {} => sendRerr(h1, first, D, prec, n).rt = t /\ Modest(sendRerr(h1, first, D, prec, n), h, me)
  BY <1>2, <1>4 DEF Modest
<1>6. D # {} => sendRerr(h1, first, D, prec, n).rt = t /\ Modest(sendRerr(h1, first, D, prec, n), h, me)
  BY <1>1, <1>3, <1>4 DEF Modest
<1> QED BY <1>5, <1>6 DEF h1

---------------------------------------------------------------------------
(* RoutingTable: timeouts, invalidation, deletion *)

\* A Good host after such a step is Fit.
LEMMA FitStep ==
  ASSUME NEW me, NEW h, Own(h, me), NEW g, Good(g, me), SameRoutes(g, h), Modest(g, h, me)
  PROVE  Fit(g, me)
BY HostFields, OwnStep DEF Fit

\* rt_table_update_timeout only arms a timer.
LEMMA UpdateTimeoutFit ==
  ASSUME NEW me, NEW h, Fit(h, me), NEW d
  PROVE  /\ Fit(rt_table_update_timeout(h, d), me)
         /\ SameRoutes(rt_table_update_timeout(h, d), h)
<1>1. CASE present(h, d)
  <2>1. d \in Addr
    BY <1>1 DEF present
  <2> DEFINE g == [h EXCEPT !.rt[d].armed = TRUE]
  <2>2. Good(g, me)
    BY <2>1, SetField DEF Fit
  <2>3. SameRoutes(g, h) /\ Modest(g, h, me)
    BY <2>1, FieldStep DEF Fit
  <2> HIDE DEF g
  <2> QED BY <1>1, <2>2, <2>3, FitStep DEF Fit, rt_table_update_timeout, g
<1> QED BY <1>1, SameRoutesChain DEF rt_table_update_timeout

\* Precursors do not matter here.
LEMMA PrecursorFit ==
  ASSUME NEW me, NEW h, Fit(h, me), NEW d, NEW a
  PROVE  /\ Fit(precursor_add(h, d, a), me) /\ SameRoutes(precursor_add(h, d, a), h)
         /\ Fit(precursor_list_destroy(h, d), me)
         /\ SameRoutes(precursor_list_destroy(h, d), h)
<1>1. Good(precursor_add(h, d, a), me) /\ Good(precursor_list_destroy(h, d), me)
  BY PrecursorGood DEF Fit
<1>2. CASE present(h, d)
  <2>1. d \in Addr
    BY <1>2 DEF present
  <2> DEFINE P == h.rt[d].prec \cup {a}
             g == [h EXCEPT !.rt[d].prec = P]
             f == [h EXCEPT !.rt[d].prec = {}]
  <2>2. /\ SameRoutes(g, h) /\ Modest(g, h, me)
        /\ SameRoutes(f, h) /\ Modest(f, h, me)
    <3> HIDE DEF P
    <3> QED BY <2>1, FieldStep DEF Fit
  <2>3. precursor_list_destroy(h, d) = f /\ precursor_add(h, d, a) \in {g, h}
    BY <1>2 DEF precursor_list_destroy, precursor_add
  <2> HIDE DEF f, g
  <2> QED BY <1>1, <2>2, <2>3, FitStep, SameRoutesChain DEF Fit
<1>3. CASE ~present(h, d)
  BY <1>3, SameRoutesChain DEF precursor_add, precursor_list_destroy
<1> QED BY <1>2, <1>3

\* An invalidated entry keeps its hop count.
LEMMA InvalidateFit ==
  ASSUME NEW me, NEW h, Fit(h, me), NEW d
  PROVE  Fit(rt_table_invalidate(h, d), me) /\ SameRoutes(rt_table_invalidate(h, d), h)
<1>1. Good(rt_table_invalidate(h, d), me)
  BY InvalidateGood DEF Fit
<1>2. CASE valid(h, d)
  <2> DEFINE g == rt_table_invalidate(h, d)
  <2>1. d \in Addr /\ h \in Host /\ h.rt[d] \in Entry
    BY <1>2, HostFields DEF valid, Fit, Good
  <2>2. /\ g.seek = h.seek /\ g.out = h.out
        /\ g.rt = [h.rt EXCEPT ![d] = invalidated(h.rt[d])]
    BY <1>2, <2>1 DEF rt_table_invalidate, Host
  <2>3. invalidated(h.rt[d]).hcnt = h.rt[d].hcnt /\ invalidated(h.rt[d]).state = "invalid"
    BY <2>1 DEF invalidated, Entry
  <2> HIDE DEF g
  <2>4. SameRoutes(g, h)
    BY <1>2, <2>1, <2>2, <2>3 DEF SameRoutes, Host, valid
  <2>5. Modest(g, h, me)
    BY <2>2 DEF Modest
  <2> QED BY <1>1, <2>4, <2>5, FitStep DEF Fit, g
<1> QED BY <1>2, SameRoutesChain DEF rt_table_invalidate

\* A deleted entry is gone, the others stay.
LEMMA DeleteFit ==
  ASSUME NEW me, NEW h, Fit(h, me), NEW d
  PROVE  /\ Fit(rt_table_delete(h, d), me)
         /\ \A u \in Addr \ {d} : rt_table_delete(h, d).rt[u] = h.rt[u]
<1>1. Good(rt_table_delete(h, d), me)
  BY DeleteGood DEF Fit
<1>2. CASE present(h, d)
  <2> DEFINE g == rt_table_delete(h, d)
  <2>1. d \in Addr /\ h \in Host /\ me \in Addr
    BY <1>2, HostFields DEF present, Fit, Good
  <2>2. g.seek = h.seek /\ g.out = h.out /\ g.rt = [h.rt EXCEPT ![d] = NoEntry]
    BY <1>2, <2>1 DEF rt_table_delete, Host
  <2>3. NoEntry.state = "none"
    BY DEF NoEntry
  <2> HIDE DEF g
  <2>4. \A u \in Addr : g.rt[u] = IF u = d THEN NoEntry ELSE h.rt[u]
    BY <2>1, <2>2 DEF Host
  <2>5. Own(g, me)
    BY <2>1, <2>2, <2>3, <2>4 DEF Own, Fit
  <2> QED BY <1>1, <2>4, <2>5 DEF Fit, g
<1> QED BY <1>2 DEF rt_table_delete

\* A link break invalidates, and reports only destinations with an entry.
LEMMA LinkBreakFit ==
  ASSUME NEW me, NEW h, Fit(h, me), NEW d
  PROVE  Fit(neighbor_link_break(h, d), me) /\ SameRoutes(neighbor_link_break(h, d), h)
<1>1. CASE present(h, d) /\ h.rt[d].hcnt = 1
  <2> DEFINE rep   == "REPAIR" \in h.rt[d].flags
             users == {u \in Addr \ {d} : valid(h, u) /\ h.rt[u].next = d}
             kept  == {u \in users : rep /\ h.rt[u].hcnt <= MAX_REPAIR_TTL}
             lost  == (users \ kept) \cup (IF rep THEN {} ELSE {d})
             told  == {u \in lost : h.rt[u].prec # {}}
             prec  == [u \in Addr |-> h.rt[u].prec]
             broken(u) ==
               LET e == h.rt[u]
                   m == IF u \in kept THEN [e EXCEPT !.flags = @ \cup {"REPAIR"}] ELSE e
                   i == IF e.state = "valid" THEN invalidated(m) ELSE m
               IN  IF u \in lost THEN [i EXCEPT !.prec = {}] ELSE i
             t == [u \in Addr |-> IF u \in users \cup {d} THEN broken(u) ELSE h.rt[u]]
             n == plus(h.num_active, -Cardinality({u \in users \cup {d} : valid(h, u)}))
             h1 == [h EXCEPT !.rt = t, !.num_active = n]
  <2>1. d \in Addr /\ h \in Host /\ me \in Addr
    BY <1>1, HostFields DEF present, Fit, Good
  <2>3. \A u \in Addr : t[u].hcnt = h.rt[u].hcnt /\ (t[u].state = "none") = (h.rt[u].state = "none")
    <3> SUFFICES ASSUME NEW u \in Addr
                 PROVE  /\ t[u].hcnt = h.rt[u].hcnt
                        /\ (t[u].state = "none") = (h.rt[u].state = "none")
      OBVIOUS
    <3> DEFINE e == h.rt[u]
               m == IF u \in kept THEN [e EXCEPT !.flags = @ \cup {"REPAIR"}] ELSE e
               i == IF e.state = "valid" THEN invalidated(m) ELSE m
    <3>1. e \in Entry
      BY <2>1 DEF Host
    <3>2. m \in Entry /\ m.hcnt = e.hcnt /\ m.state = e.state
      <4> HIDE DEF e, kept
      <4>1. [e EXCEPT !.flags = e.flags \cup {"REPAIR"}] \in Entry
        BY <3>1 DEF Entry, Flag
      <4>2. /\ [e EXCEPT !.flags = e.flags \cup {"REPAIR"}].hcnt = e.hcnt
            /\ [e EXCEPT !.flags = e.flags \cup {"REPAIR"}].state = e.state
        BY <3>1 DEF Entry
      <4> QED BY <3>1, <4>1, <4>2
    <3>3. i \in Entry /\ i.hcnt = e.hcnt /\ (i.state = "none") = (e.state = "none")
      <4> HIDE DEF m, e
      <4>1. /\ invalidated(m) \in Entry /\ invalidated(m).hcnt = m.hcnt
            /\ invalidated(m).state = "invalid"
        BY <3>2, SeqnoIncrType DEF invalidated, Entry, Handler
      <4> QED BY <3>2, <4>1
    <3>4. [i EXCEPT !.prec = {}].hcnt = i.hcnt /\ [i EXCEPT !.prec = {}].state = i.state
      <4> HIDE DEF i
      <4> QED BY <3>3 DEF Entry
    <3>5. broken(u) = IF u \in lost THEN [i EXCEPT !.prec = {}] ELSE i
      OBVIOUS
    <3> HIDE DEF i, broken, lost, users
    <3> QED BY <3>3, <3>4, <3>5
  <2>5. told \in SUBSET Addr /\ me \notin told
    <3>1. \A u \in told : u \in Addr /\ h.rt[u].state # "none"
      BY <1>1, <2>1 DEF valid, present
    <3> HIDE DEF told
    <3> QED BY <3>1 DEF Fit, Own
  <2> DEFINE first == IF d \in told THEN d ELSE least(told)
  <2>6. told # {} => first \in told
    <3> HIDE DEF told
    <3> QED BY <2>5, LeastExists, AddrAssumption
  <2> DEFINE g == sendRerr(h1, first, told, prec, FALSE)
  <2>7. neighbor_link_break(h, d) = g
    BY <1>1 DEF neighbor_link_break
  <2>8. g.rt = t /\ Modest(g, h, me)
    <3> HIDE DEF t, n, first, told, prec
    <3> QED BY <2>1, <2>5, <2>6, SendRerrModest
  <2> HIDE DEF g, t
  <2>9. SameRoutes(g, h)
    BY <2>3, <2>8 DEF SameRoutes
  <2>10. Good(g, me)
    BY <2>7, LinkBreakGood DEF Fit
  <2> QED BY <2>7, <2>8, <2>9, <2>10, FitStep DEF Fit
<1> QED BY <1>1, SameRoutesChain DEF neighbor_link_break

---------------------------------------------------------------------------
(* RoutingTable: insertion and update *)

\* The packets that waited for d leave as packets of this host.
LEMMA SeekFoundFit ==
  ASSUME NEW me, NEW h, NEW d \in Addr, GoodButFor(h, d, me), Own(h, me)
  PROVE  Fit(seek_found(h, d), me) /\ SameRoutes(seek_found(h, d), h)
<1>0. h \in Host /\ me \in Addr /\ h.ipaddr = me
  BY DEF GoodButFor, Host
<1>1. Good(seek_found(h, d), me)
  BY SeekFoundGood
<1>2. CASE ~h.seek[d].on
  BY <1>1, <1>2, SameRoutesChain DEF Fit, seek_found
<1>3. CASE h.seek[d].on
  <2> DEFINE h0 == [h EXCEPT !.seek[d] = NoSeek]
             nh == h0.rt[d].next
             h1 == cleared(h0, d)
             m  == [type |-> "DATA", src |-> h0.ipaddr, dest |-> d]
             h2 == IF h0.queue[d]["own"] = 0 THEN h1 ELSE sendPacket(h1, nh, MAXTTL, m)
             h3 == IF valid(h2, d) THEN rt_table_update_timeout(h2, d) ELSE h2
             h4 == IF valid(h3, d) /\ valid(h3, nh) /\ nh # d
                   THEN rt_table_update_timeout(h3, nh) ELSE h3
  <2>1. h1 = [cleared(h, d) EXCEPT !.seek[d] = NoSeek]
    BY <1>0 DEF cleared, buffered, Host
  <2>2. Good(h1, me)
    <3> HIDE DEF h1
    <3> QED BY <2>1, ClearedGood
  <2>3. /\ nh \in Addr \cup {0, Bcast} /\ h0.ipaddr = me
        /\ h1.rt = h.rt /\ h1.out = h.out /\ h1.seek = [h.seek EXCEPT ![d] = NoSeek]
    <3>1. h0.rt = h.rt /\ h0.ipaddr = h.ipaddr /\ h.rt[d] \in Entry
      BY <1>0 DEF Host
    <3>2. nh \in Addr \cup {0, Bcast}
      BY <3>1, EntryFields
    <3>3. h1.rt = h.rt /\ h1.out = h.out /\ h1.seek = [h.seek EXCEPT ![d] = NoSeek]
      BY <1>0 DEF cleared, Host
    <3> QED BY <1>0, <3>1, <3>2, <3>3
  <2>4. d # me
    BY <1>3 DEF Own
  <2>5. Fit(h1, me) /\ SameRoutes(h1, h)
    <3> HIDE DEF h1
    <3>1. h1.seek[me] = h.seek[me]
      BY <1>0, <2>3, <2>4 DEF Host
    <3>2. SameRoutes(h1, h) /\ Modest(h1, h, me)
      BY <2>3, <3>1 DEF SameRoutes, Modest
    <3> QED BY <2>2, <3>2, FitStep
  <2>6. m \in Message /\ AsAssumed(m, me)
    <3>1. m \in Message
      <4> HIDE DEF h0
      <4> QED BY <1>0, <2>3, DataType
    <3>2. AsAssumed(m, me)
      <4> HIDE DEF h0
      <4> QED BY <2>3, <2>4 DEF AsAssumed
    <3> QED BY <3>1, <3>2
  <2>7. Fit(h2, me) /\ SameRoutes(h2, h)
    <3> HIDE DEF h0, h1, nh, m
    <3> QED BY <2>3, <2>5, <2>6, TtlType, SendFit, SameRoutesChain
  <2>8. Fit(h3, me) /\ SameRoutes(h3, h)
    <3> HIDE DEF h2
    <3> QED BY <2>7, UpdateTimeoutFit, SameRoutesChain
  <2>9. Fit(h4, me) /\ SameRoutes(h4, h)
    <3> HIDE DEF h3, nh
    <3> QED BY <2>8, UpdateTimeoutFit, SameRoutesChain
  <2>10. seek_found(h, d) = h4
    BY <1>3 DEF seek_found, pq_send
  <2> HIDE DEF h4
  <2> QED BY <2>9, <2>10
<1> QED BY <1>2, <1>3

\* An entry with a positive hop count, for another node, keeps Own.
LEMMA NewEntryOwn ==
  ASSUME NEW me \in Addr, NEW h \in Host, Own(h, me), NEW d \in Addr, d # me,
         NEW e, e.hcnt > 0, NEW n, NEW k
  PROVE  Own([h EXCEPT !.rt[d] = e, !.num_entries = k, !.num_active = n], me)
BY DEF Host, Own

\* What an insertion or update leaves: an entry for d, and the others.
Keeps(g, h) == \A u \in Addr : h.rt[u].state # "none" => g.rt[u].state # "none"

\* The two ways to keep the entries.
LEMMA KeepsChain ==
  /\ \A g, h : SameRoutes(g, h) => Keeps(g, h)
  /\ \A f, g, h : Keeps(g, f) /\ Keeps(h, g) => Keeps(h, f)
BY DEF SameRoutes, Keeps

\* Either insertion adds a route to another node, of at least one hop.
LEMMA InsertEntryFit ==
  ASSUME NEW me, NEW h, Fit(h, me), NEW d \in Addr, d # me, NEW next \in Addr,
         NEW hops \in Nat, hops > 0,
         NEW seqno \in Seqno, NEW life, NEW state \in {"valid", "invalid"},
         NEW flags \in NoRepair, NEW channel \in Channel \cup {NoChannel}, NEW cost \in Int
  PROVE  LET g == insert_entry(h, d, next, hops, seqno, life, state, flags, channel, cost)
         IN  Fit(g, me) /\ Keeps(g, h) /\ g.rt[d].state # "none"
<1>1. CASE present(h, d)
  BY <1>1, KeepsChain, SameRoutesChain DEF insert_entry, present
<1>2. CASE ~present(h, d)
  <2> DEFINE new == NewEntry(next, hops, seqno, flags, channel, cost)
             e   == IF state = "valid" THEN [new EXCEPT !.armed = (life # 0)]
                    ELSE [new EXCEPT !.state = "invalid", !.armed = TRUE,
                            !.handler = IF "REPAIR" \in flags THEN "repair" ELSE "delete"]
             k   == plus(h.num_entries, 1)
             n   == IF state = "valid" THEN plus(h.num_active, 1) ELSE h.num_active
             h1  == [h EXCEPT !.rt[d] = e, !.num_entries = k, !.num_active = n]
             g   == IF state = "valid" THEN seek_found(h1, d) ELSE h1
  <2>0. h \in Host /\ me \in Addr
    BY HostFields DEF Fit, Good
  <2>1. new \in Entry /\ new.state = "valid" /\ new.handler = "expire"
        /\ "REPAIR" \notin new.flags /\ new.hcnt = hops
    BY DEF NewEntry, Entry, Handler, NoRepair, Flag
  <2>2. e \in Entry /\ RouteOK(e) /\ e.state = state /\ e.hcnt = hops
    <3>1. CASE state = "valid"
      <4>1. e = [new EXCEPT !.armed = (life # 0)] /\ (life # 0) \in BOOLEAN
        BY <3>1
      <4> HIDE DEF e, new
      <4> QED BY <2>1, <3>1, <4>1 DEF Entry, RouteOK
    <3>2. CASE state = "invalid"
      <4>1. e = [new EXCEPT !.state = "invalid", !.armed = TRUE, !.handler = "delete"]
        BY <3>2 DEF NoRepair
      <4> HIDE DEF e, new
      <4> QED BY <2>1, <3>2, <4>1 DEF Entry, RouteOK, Handler
    <3> QED BY <3>1, <3>2
  <2>3. k \in 0 .. CounterMod - 1 /\ n \in 0 .. CounterMod - 1
    <3>1. h.num_active \in 0 .. CounterMod - 1 /\ h.num_entries \in 0 .. CounterMod - 1
      BY HostFields DEF Fit
    <3>2. plus(h.num_active, 1) \in 0 .. CounterMod - 1
      BY <3>1, PlusType
    <3>3. plus(h.num_entries, 1) \in 0 .. CounterMod - 1
      BY <3>1, PlusType
    <3> QED BY <3>1, <3>2, <3>3
  <2> HIDE DEF e, k, n
  <2>4. GoodButFor(h1, d, me) /\ (state # "valid" => Good(h1, me))
    BY <2>2, <2>3, SetAnyEntry DEF Fit
  <2>5. Own(h1, me)
    BY <2>0, <2>2, NewEntryOwn DEF Fit
  <2>6. \A u \in Addr : h1.rt[u] = IF u = d THEN e ELSE h.rt[u]
    BY <2>0 DEF Host
  <2>7. Keeps(h1, h) /\ h1.rt[d].state # "none"
    <3> HIDE DEF h1
    <3> QED BY <2>2, <2>6 DEF Keeps
  <2> HIDE DEF h1
  <2>8. Fit(g, me) /\ SameRoutes(g, h1)
    BY <2>4, <2>5, SeekFoundFit, SameRoutesChain DEF Fit
  <2>9. insert_entry(h, d, next, hops, seqno, life, state, flags, channel, cost) = g
    BY <1>2 DEF insert_entry, h1, e, k, n
  <2> HIDE DEF g
  <2>10. Keeps(g, h) /\ g.rt[d].state # "none"
    <3>1. Keeps(g, h)
      BY <2>7, <2>8, KeepsChain
    <3>2. g.rt[d].state # "none"
      BY <2>7, <2>8 DEF SameRoutes
    <3> QED BY <3>1, <3>2
  <2> QED BY <2>8, <2>9, <2>10
<1> QED BY <1>1, <1>2

\* A neighbour no longer one keeps its entry until the update.
LEMMA NoLongerNeighborFit ==
  ASSUME NEW me, NEW h, Fit(h, me), NEW d \in Addr, NEW hops
  PROVE  Fit(no_longer_neighbor(h, d, hops), me) /\ SameRoutes(no_longer_neighbor(h, d, hops), h)
<1> DEFINE g == [h EXCEPT !.rt[d].hello_cnt = 0]
           g1 == [g EXCEPT !.rt[d].hello = FALSE]
<1>1. Good(g, me) /\ SameRoutes(g, h) /\ Modest(g, h, me)
  BY SetField, FieldStep DEF Fit
<1>2. Fit(g, me)
  <2> HIDE DEF g
  <2> QED BY <1>1, FitStep DEF Fit
<1>3. Good(g1, me) /\ SameRoutes(g1, g) /\ Modest(g1, g, me)
  <2> HIDE DEF g
  <2> QED BY <1>2, SetField, FieldStep DEF Fit
<1>4. Fit(g1, me) /\ SameRoutes(g1, h)
  <2> HIDE DEF g, g1
  <2> QED BY <1>1, <1>2, <1>3, FitStep, SameRoutesChain DEF Fit
<1>5. Fit(neighbor_link_break(g1, d), me) /\ SameRoutes(neighbor_link_break(g1, d), h)
  <2> HIDE DEF g1
  <2> QED BY <1>4, LinkBreakFit, SameRoutesChain
<1>6. g1 = [h EXCEPT !.rt[d].hello_cnt = 0, !.rt[d].hello = FALSE]
  BY DEF Fit, Good, Host
<1> QED BY <1>5, <1>6, SameRoutesChain DEF no_longer_neighbor

\* An update makes a route to another node VALID, of at least one hop.
LEMMA UpdateFit ==
  ASSUME NEW me, NEW h, Fit(h, me), NEW d \in Addr, d # me, NEW next \in Addr,
         NEW hops \in Nat, hops > 0,
         NEW seqno \in Seqno, NEW flags \in NoRepair,
         NEW channel \in Channel \cup {NoChannel}, NEW cost \in Int
  PROVE  LET g == rt_table_update_with_channel(h, d, next, hops, seqno, flags, channel, cost)
         IN  Fit(g, me) /\ Keeps(g, h) /\ g.rt[d].state # "none"
<1> DEFINE revived == invalid(h, d)
           f  == IF revived /\ "REPAIR" \in h.rt[d].flags THEN flags \ {"REPAIR"} ELSE flags
           h1 == IF revived THEN [h EXCEPT !.num_active = plus(@, 1)] ELSE h
           h2 == no_longer_neighbor(h1, d, hops)
           e  == [h2.rt[d] EXCEPT !.flags = f, !.seqno = seqno, !.next = next, !.hcnt = hops,
                         !.channel = channel, !.cost = cost, !.handler = "expire",
                         !.armed = TRUE, !.state = "valid"]
           h3 == [h2 EXCEPT !.rt[d] = e]
<1>1. Good(h1, me)
  <2>1. plus(h.num_active, 1) \in 0 .. CounterMod - 1
    BY HostFields, PlusType DEF Fit
  <2> QED BY <2>1, SetCounter DEF Fit
<1>2. Fit(h1, me) /\ SameRoutes(h1, h)
  <2>1. h1.rt = h.rt /\ h1.seek = h.seek /\ h1.out = h.out
    BY DEF Fit, Good, Host
  <2> HIDE DEF h1
  <2>2. SameRoutes(h1, h) /\ Modest(h1, h, me)
    BY <2>1 DEF SameRoutes, Modest
  <2> QED BY <1>1, <2>2, FitStep DEF Fit
<1>3. Fit(h2, me) /\ SameRoutes(h2, h)
  <2> HIDE DEF h1
  <2> QED BY <1>2, NoLongerNeighborFit, SameRoutesChain
<1>4. f \in NoRepair
  BY DEF NoRepair
<1> HIDE DEF h2, f
<1>5. e \in Entry /\ RouteOK(e) /\ e.hcnt = hops /\ e.state = "valid"
  <2>1. h2.rt[d] \in Entry
    BY <1>3, HostFields DEF Fit
  <2> QED BY <1>4, <2>1 DEF Entry, RouteOK, NoRepair, Flag, Handler
<1>6. h2 \in Host /\ me \in Addr
  BY <1>3, HostFields DEF Fit, Good
<1>7. GoodButFor(h3, d, me) /\ Own(h3, me)
  <2> HIDE DEF e
  <2>1. h3 = [h2 EXCEPT !.rt[d] = e, !.num_entries = h2.num_entries,
                        !.num_active = h2.num_active]
    BY <1>6 DEF Host
  <2> HIDE DEF h3
  <2>2. GoodButFor(h3, d, me)
    BY <1>3, <1>5, <2>1, HostFields, SetAnyEntry DEF Fit
  <2>3. Own(h3, me)
    BY <1>3, <1>5, <1>6, <2>1, NewEntryOwn DEF Fit
  <2> QED BY <2>2, <2>3
<1>8. Keeps(h3, h) /\ h3.rt[d].state # "none"
  <2> HIDE DEF e
  <2>1. \A u \in Addr : h3.rt[u] = IF u = d THEN e ELSE h2.rt[u]
    BY <1>6 DEF Host
  <2> HIDE DEF h3
  <2> QED BY <1>3, <1>5, <2>1 DEF Keeps, SameRoutes
<1>9. Fit(seek_found(h3, d), me) /\ SameRoutes(seek_found(h3, d), h3)
  <2> HIDE DEF h3
  <2> QED BY <1>7, SeekFoundFit
<1>10. Keeps(seek_found(h3, d), h) /\ seek_found(h3, d).rt[d].state # "none"
  <2> HIDE DEF h3
  <2>1. Keeps(seek_found(h3, d), h)
    BY <1>8, <1>9, KeepsChain
  <2>2. seek_found(h3, d).rt[d].state # "none"
    BY <1>8, <1>9 DEF SameRoutes
  <2> QED BY <2>1, <2>2
<1> QED BY <1>9, <1>10 DEF rt_table_update_with_channel, h2, f

\* The sender of a control message is another node, one hop away.
LEMMA NeighborAddFit ==
  ASSUME NEW me, NEW h, Fit(h, me), NEW src \in Addr, src # me
  PROVE  Fit(neighbor_add(h, src), me) /\ Keeps(neighbor_add(h, src), h)
<1>1. 0 \in Seqno /\ {} \in NoRepair /\ DefaultCost \in Int /\ 1 \in Nat /\ 1 > 0
  BY WidthAssumption DEF Seqno, NoRepair, DefaultCost
<1> DEFINE f == rt_table_insert(h, src, src, 1, 0, 1, "valid", {})
           g == rt_table_update(h, src, src, 1, h.rt[src].seqno, h.rt[src].flags)
<1>2. Fit(f, me) /\ Keeps(f, h)
  <2> DEFINE i(state, channel) ==
               insert_entry(h, src, src, 1, 0, 1, state, {}, channel, DefaultCost)
  <2>1. ASSUME NEW state \in {"valid", "invalid"}, NEW channel \in Channel \cup {NoChannel}
        PROVE  Fit(i(state, channel), me) /\ Keeps(i(state, channel), h)
    BY <1>1, InsertEntryFit
  <2>2. f = i("valid", NoChannel)
    BY DEF rt_table_insert
  <2> HIDE DEF i, f
  <2> QED BY <2>1, <2>2
<1>3. Fit(g, me) /\ Keeps(g, h)
  <2>1. h.rt[src] \in Entry /\ RouteOK(h.rt[src])
    BY HostFields DEF Fit
  <2>2. h.rt[src].seqno \in Seqno /\ h.rt[src].flags \in NoRepair
        /\ h.rt[src].channel \in Channel \cup {NoChannel} /\ h.rt[src].cost \in Int
    BY <2>1, EntryFields, NoRepairFlags
  <2> QED BY <1>1, <2>2, UpdateFit DEF rt_table_update
<1> HIDE DEF f, g
<1> QED BY <1>2, <1>3, KeepsChain, SameRoutesChain DEF neighbor_add, f, g

\* Renewing routes only arms timers.
LEMMA RenewRouteFit ==
  ASSUME NEW me, NEW h, Fit(h, me), NEW d, NEW ll PROVE Fit(RenewRoute(h, d, ll), me)
<1> DEFINE e == h.rt[d]
           h1 == IF ll \/ e.hcnt # 1 \/ e.hello THEN rt_table_update_timeout(h, d) ELSE h
           h2 == IF valid(h1, e.next) /\ e.next # d /\ (ll \/ e.hello)
                 THEN rt_table_update_timeout(h1, e.next) ELSE h1
<1>1. Fit(h1, me)
  BY UpdateTimeoutFit
<1>2. Fit(h2, me)
  <2> HIDE DEF h1
  <2> QED BY <1>1, UpdateTimeoutFit
<1> QED BY <1>2 DEF RenewRoute

---------------------------------------------------------------------------
(* AodvControl: route discovery *)

\* The requests of a flood ask for a route from this host to d.
LEMMA FloodSends ==
  ASSUME NEW h \in Host, NEW d \in Addr, d # h.ipaddr, NEW s, NEW ttl, NEW g
  PROVE  LET f == rreq_flood(h, d, s, ttl, g)
         IN  /\ f.rt = h.rt /\ f.seek = h.seek
             /\ \A p \in f.out : p \in h.out \/ AsAssumed(p.msg, h.ipaddr)
<1> DEFINE rreq(i) ==
             [type |-> "RREQ", id |-> i, dest |-> d, dest_seqno |-> s,
              orig |-> h.ipaddr, orig_seqno |-> (h.seqno + 1) % SeqnoMod,
              hcnt |-> 0, g |-> g \/ rreq_gratuitous, cost |-> 0]
           P == {[dst |-> Bcast, ttl |-> ttl, ch |-> AllChannels,
                  msg |-> rreq(plus(h.rreq_id, c))] : c \in Channel}
           n == plus(h.rreq_id, Channel_Count)
           f == [h EXCEPT !.rreq_id = n, !.channelNum = Channel_Count - 1,
                          !.out = h.out \cup P]
<1>1. \A i : AsAssumed(rreq(i), h.ipaddr)
  BY DEF AsAssumed
<1> HIDE DEF rreq
<1>2. \A p \in P : AsAssumed(p.msg, h.ipaddr)
  BY <1>1
<1> HIDE DEF P, n
<1>3. f.rt = h.rt /\ f.seek = h.seek /\ f.out = h.out \cup P
  BY DEF Host
<1>4. rreq_flood(h, d, s, ttl, g) = f
  BY DEF rreq_flood, P, n, rreq
<1> HIDE DEF f
<1> QED BY <1>2, <1>3, <1>4

\* A flood asks for the route from this host to another one.
LEMMA FloodFit ==
  ASSUME NEW me, NEW h, Fit(h, me), NEW d \in Addr, d # me, NEW s \in Seqno, NEW ttl \in Nat,
         NEW g \in BOOLEAN
  PROVE  Fit(rreq_flood(h, d, s, ttl, g), me)
<1> DEFINE f == rreq_flood(h, d, s, ttl, g)
<1>1. h \in Host /\ h.ipaddr = me
  BY DEF Fit, Good
<1>2. Good(f, me)
  BY FloodGood DEF Fit
<1>3. /\ f.rt = h.rt /\ f.seek = h.seek
      /\ \A p \in f.out : p \in h.out \/ AsAssumed(p.msg, me)
  BY <1>1, FloodSends
<1> HIDE DEF f
<1>4. SameRoutes(f, h) /\ Modest(f, h, me)
  BY <1>3 DEF SameRoutes, Modest
<1> QED BY <1>2, <1>4, FitStep DEF Fit, f

\* Queueing a packet neither sends nor changes a route.
LEMMA QueueAddSame ==
  ASSUME NEW h \in Host, NEW d, NEW o, NEW v, NEW vo
  PROVE  LET g == packet_queue_add(h, d, o, v, vo)
         IN  g.rt = h.rt /\ g.seek = h.seek /\ g.out = h.out /\ g.ipaddr = h.ipaddr
BY DEF packet_queue_add, Host

\* A discovery seeks another node.
LEMMA DiscoveryFit ==
  ASSUME NEW me, NEW h, Fit(h, me), NEW d \in Addr, d # me, NEW v \in Addr, NEW vo \in Origin,
         NEW tcp \in BOOLEAN, Room(h, v, vo),
         valid(h, d) => h.rt[d].hcnt = 1 /\ "UNIDIR" \in h.rt[d].flags
  PROVE  Fit(rreq_route_discovery(packet_queue_add(h, d, "own", v, vo), d, tcp), me)
<1> DEFINE g == packet_queue_add(h, d, "own", v, vo)
           r == rreq_route_discovery(g, d, tcp)
<1>0. "own" \in Origin /\ h \in Host /\ h.ipaddr = me /\ me \in Addr
  BY HostFields DEF Origin, Fit, Good
<1>1. g \in Host /\ g.rt = h.rt /\ g.seek = h.seek /\ g.out = h.out /\ g.ipaddr = h.ipaddr
  <2>1. g \in Host
    BY <1>0, QueueAddType
  <2>2. g.rt = h.rt /\ g.seek = h.seek /\ g.out = h.out /\ g.ipaddr = h.ipaddr
    BY <1>0, QueueAddSame
  <2> QED BY <2>1, <2>2
<1>2. Good(r, me)
  BY DiscoveryGood DEF Fit
<1> HIDE DEF g
<1>3. SameRoutes(r, h) /\ Modest(r, h, me)
  <2>1. CASE h.seek[d].on
    <3>1. r = g
      BY <1>1, <2>1 DEF rreq_route_discovery
    <3> HIDE DEF r
    <3> QED BY <1>1, <3>1 DEF SameRoutes, Modest
  <2>2. CASE ~h.seek[d].on
    <3> DEFINE q == IF present(g, d) THEN g.rt[d].seqno ELSE 0
               s == [on |-> TRUE, seqno |-> q, reqs |-> 0, g |-> tcp]
               x == rt_table_update_timeout(g, d)
               y == rreq_flood(x, d, q, RREQ_TTL, tcp)
    <3>1. \A u \in Addr : x.rt[u].hcnt = h.rt[u].hcnt /\ x.rt[u].state = h.rt[u].state
      <4> DEFINE e == [g.rt[d] EXCEPT !.armed = TRUE]
      <4>1. g.rt[d] \in Entry
        BY <1>1 DEF Host
      <4>2. e.hcnt = g.rt[d].hcnt /\ e.state = g.rt[d].state
        BY <4>1 DEF Entry
      <4>3. x.rt = IF present(g, d) THEN [g.rt EXCEPT ![d] = e] ELSE g.rt
        BY <1>1 DEF rt_table_update_timeout, Host
      <4> HIDE DEF x, e
      <4> QED BY <1>1, <4>2, <4>3 DEF Host
    <3>2. x \in Host /\ x.seek = g.seek /\ x.out = g.out /\ x.ipaddr = g.ipaddr
      <4>1. RouteOK(g.rt[d])
        BY <1>1, HostFields DEF Fit
      <4>2. x \in Host /\ x.seek = g.seek /\ x.ipaddr = g.ipaddr
        BY <1>1, <4>1, UpdateTimeoutType
      <4>3. x.out = g.out
        BY <1>1 DEF rt_table_update_timeout, Host
      <4> QED BY <4>2, <4>3
    <3> HIDE DEF x, q
    <3>3. /\ y.rt = x.rt /\ y.seek = x.seek
          /\ \A p \in y.out : p \in x.out \/ AsAssumed(p.msg, me)
      BY <1>0, <1>1, <3>2, FloodSends
    <3>4. r = [y EXCEPT !.seqno = seqno_incr(@), !.seek[d] = s]
      BY <1>1, <2>2 DEF rreq_route_discovery, x, q
    <3>5. r.rt = y.rt /\ r.out = y.out /\ r.seek = [y.seek EXCEPT ![d] = s]
      <4>1. y = [x EXCEPT !.rreq_id = y.rreq_id, !.channelNum = y.channelNum, !.out = y.out]
        BY <3>2 DEF rreq_flood, Host
      <4> DEFINE a == y.rreq_id
                 b == y.channelNum
                 c == y.out
      <4>2. y = [x EXCEPT !.rreq_id = a, !.channelNum = b, !.out = c]
        BY <4>1
      <4> HIDE DEF a, b, c, y, s
      <4> QED BY <3>2, <3>4, <4>2 DEF Host
    <3> HIDE DEF r, y, s
    <3>6. r.seek[me] = h.seek[me]
      BY <1>0, <1>1, <3>2, <3>3, <3>5 DEF Host
    <3>7. \A p \in r.out : p \in h.out \/ AsAssumed(p.msg, me)
      BY <1>1, <3>2, <3>3, <3>5
    <3> QED BY <3>1, <3>3, <3>5, <3>6, <3>7 DEF SameRoutes, Modest
  <2> QED BY <2>1, <2>2
<1> HIDE DEF r
<1>4. Fit(r, me)
  BY <1>2, <1>3, FitStep DEF Fit
<1> QED BY <1>4 DEF r, g

\* A retry repeats the flood, giving up drops the packets.
LEMMA SeekTimeoutFit ==
  ASSUME NEW me, NEW h, Fit(h, me), NEW d \in Addr, h.seek[d].on
  PROVE  Fit(route_discovery_timeout(h, d), me)
<1>0. h \in Host /\ h.seek[d] \in Seek /\ d # me /\ me \in Addr
  BY HostFields DEF Fit, Good, Own, Host
<1>1. CASE h.seek[d].reqs < RREQ_RETRIES
  <2> DEFINE s == [h.seek[d] EXCEPT !.reqs = h.seek[d].reqs + 1]
             g == [h EXCEPT !.seek[d] = s]
  <2>1. s \in Seek /\ s.on = h.seek[d].on
    <3> DEFINE k == h.seek[d]
    <3>1. k \in Seek /\ k.reqs < RREQ_RETRIES /\ RREQ_RETRIES \in Nat
      BY <1>0, <1>1, LimitAssumption
    <3> HIDE DEF k
    <3>2. [k EXCEPT !.reqs = k.reqs + 1] \in Seek /\ [k EXCEPT !.reqs = k.reqs + 1].on = k.on
      BY <3>1 DEF Seek
    <3> QED BY <3>2 DEF k
  <2>2. /\ g \in Host /\ g.ipaddr = me /\ g.rt = h.rt /\ g.queue = h.queue
        /\ g.pqlen = h.pqlen /\ g.out = h.out
        /\ \A u \in Addr : g.seek[u].on = h.seek[u].on
    <3> HIDE DEF s
    <3>1. g.seek = [h.seek EXCEPT ![d] = s]
      BY <1>0 DEF Host
    <3>2. \A u \in Addr : g.seek[u].on = h.seek[u].on
      BY <1>0, <2>1, <3>1 DEF Host
    <3> QED BY <2>1, <3>2 DEF Fit, Good, Host
  <2>3. Fit(g, me)
    <3> HIDE DEF g
    <3>1. Good(g, me)
      BY <2>2 DEF Fit, Good, Unsought, Awaited
    <3>2. SameRoutes(g, h) /\ Modest(g, h, me)
      BY <1>0, <2>2 DEF SameRoutes, Modest
    <3> QED BY <3>1, <3>2, FitStep DEF Fit
  <2>4. h.seek[d].seqno \in Seqno /\ h.seek[d].g \in BOOLEAN
    BY <1>0 DEF Seek
  <2>5. Fit(rreq_flood(rt_table_update_timeout(g, d), d, h.seek[d].seqno, RETRY_TTL,
                       h.seek[d].g), me)
    <3> HIDE DEF g
    <3> QED BY <1>0, <2>3, <2>4, UpdateTimeoutFit, FloodFit, TtlType
  <2>6. g = [h EXCEPT !.seek[d].reqs = h.seek[d].reqs + 1]
    BY <1>0 DEF Host
  <2> QED BY <1>1, <2>5, <2>6 DEF route_discovery_timeout
<1>2. CASE ~(h.seek[d].reqs < RREQ_RETRIES)
  <2> DEFINE g == route_discovery_timeout(h, d)
  <2>1. Good(g, me)
    BY SeekTimeoutGood DEF Fit
  <2>2. g.rt = h.rt /\ g.out = h.out /\ g.seek = [h.seek EXCEPT ![d] = NoSeek]
    BY <1>0, <1>2 DEF route_discovery_timeout, pq_drop, cleared, Host
  <2> HIDE DEF g
  <2>3. g.seek[me] = h.seek[me]
    BY <1>0, <2>2 DEF Host
  <2>4. SameRoutes(g, h) /\ Modest(g, h, me)
    BY <2>2, <2>3 DEF SameRoutes, Modest
  <2> QED BY <2>1, <2>4, FitStep DEF Fit, g
<1> QED BY <1>1, <1>2

---------------------------------------------------------------------------
(* AodvControl: route replies *)

\* Setting the channel changes no route and sends nothing.
LEMMA ChannelFit ==
  ASSUME NEW me, NEW h, Fit(h, me), NEW c \in Channel \cup {NoChannel}
  PROVE  /\ Fit([h EXCEPT !.channelNum = c], me) /\ SameRoutes([h EXCEPT !.channelNum = c], h)
         /\ [h EXCEPT !.channelNum = c].rt = h.rt
<1> DEFINE g == [h EXCEPT !.channelNum = c]
<1>1. g.rt = h.rt /\ g.seek = h.seek /\ g.out = h.out
  BY DEF Fit, Good, Host
<1>2. Good(g, me)
  BY SetChannel DEF Fit
<1> HIDE DEF g
<1>3. SameRoutes(g, h) /\ Modest(g, h, me)
  BY <1>1 DEF SameRoutes, Modest
<1> QED BY <1>1, <1>2, <1>3, FitStep DEF Fit, g

\* Asking for an acknowledgement breaks a link at most.
LEMMA RequestAckFit ==
  ASSUME NEW me, NEW h, Fit(h, me), NEW rev \in Addr
  PROVE  Fit(request_ack(h, rev), me) /\ SameRoutes(request_ack(h, rev), h)
<1> DEFINE n == h.rt[rev].next
           F == h.rt[n].flags \cup {"UNIDIR"}
           g == [h EXCEPT !.rt[n].flags = F]
           g1 == [g EXCEPT !.rt[n].hello = FALSE]
<1>1. CASE valid(h, n)
  <2>1. n \in Addr
    BY <1>1 DEF valid
  <2> HIDE DEF n
  <2>2. Fit(g, me) /\ SameRoutes(g, h)
    <3>1. Good(g, me)
      BY <2>1, SetField DEF Fit
    <3>2. SameRoutes(g, h) /\ Modest(g, h, me)
      <4> HIDE DEF F
      <4> QED BY <2>1, FieldStep DEF Fit
    <3> HIDE DEF g
    <3> QED BY <3>1, <3>2, FitStep DEF Fit
  <2>3. Fit(g1, me) /\ SameRoutes(g1, h)
    <3> HIDE DEF g
    <3>1. Good(g1, me) /\ SameRoutes(g1, g) /\ Modest(g1, g, me)
      BY <2>1, <2>2, SetField, FieldStep DEF Fit
    <3> HIDE DEF g1
    <3> QED BY <2>2, <3>1, FitStep, SameRoutesChain DEF Fit
  <2> DEFINE b == neighbor_link_break(g1, n)
             r == [b EXCEPT !.rt[n].ack = TRUE]
  <2>4. Fit(b, me) /\ SameRoutes(b, h)
    <3> HIDE DEF g1
    <3> QED BY <2>3, LinkBreakFit, SameRoutesChain
  <2>5. Fit(r, me) /\ SameRoutes(r, h)
    <3> HIDE DEF b
    <3>1. Good(r, me) /\ SameRoutes(r, b) /\ Modest(r, b, me)
      BY <2>1, <2>4, SetField, FieldStep DEF Fit
    <3> HIDE DEF r
    <3> QED BY <2>4, <3>1, FitStep, SameRoutesChain DEF Fit
  <2>6. g1 = [h EXCEPT !.rt[n].flags = h.rt[n].flags \cup {"UNIDIR"}, !.rt[n].hello = FALSE]
    BY DEF Fit, Good, Host
  <2> HIDE DEF g1
  <2> QED BY <2>5, <2>6, SameRoutesChain DEF request_ack, n
<1> QED BY <1>1, SameRoutesChain DEF request_ack

\* What leaves in place of the RREP is a message of this node either way.
LEMMA RrepSendFit ==
  ASSUME NEW me, NEW h, Fit(h, me), NEW rrep \in RREP, AsAssumed(rrep, me), NEW rev \in Addr,
         NEW fwd, NEW channel \in Channel \cup {NoChannel}
  PROVE  /\ Fit(rrep_send_with_channel(h, rrep, rev, fwd, channel), me)
         /\ SameRoutes(rrep_send_with_channel(h, rrep, rev, fwd, channel), h)
<1> DEFINE h1    == request_ack(h, rev)
           nh    == h.rt[rev].next
           fresh == {p.msg : p \in h1.out \ h.out}
           buf   == IF fresh = {} THEN rrep ELSE CHOOSE m \in fresh : TRUE
           x     == [h1 EXCEPT !.channelNum = channel]
           h2    == aodv_socket_send(x, nh, MAXTTL, buf)
           h3    == precursor_add(precursor_add(h2, fwd, nh), rev, h.rt[fwd].next)
<1>1. Fit(h1, me) /\ SameRoutes(h1, h)
  BY RequestAckFit
<1>2. nh \in Addr \cup {0, Bcast}
  BY HostFields, EntryFields DEF Fit
<1>3. buf \in Message /\ AsAssumed(buf, me)
  <2>1. \A m \in fresh : m \in Message /\ AsAssumed(m, me)
    BY <1>1, HostFields DEF Packet, Fit, Own
  <2>2. rrep \in Message
    BY DEF Message
  <2> HIDE DEF fresh
  <2>3. fresh # {} => (CHOOSE m \in fresh : TRUE) \in fresh
    OBVIOUS
  <2> QED BY <2>1, <2>2, <2>3
<1>4. Fit(x, me) /\ SameRoutes(x, h)
  <2> HIDE DEF h1
  <2> QED BY <1>1, ChannelFit, SameRoutesChain
<1>5. Fit(h2, me) /\ SameRoutes(h2, h)
  <2> HIDE DEF x, nh, buf
  <2> QED BY <1>2, <1>3, <1>4, TtlType, SendFit, SameRoutesChain
<1>6. Fit(h3, me) /\ SameRoutes(h3, h)
  <2> HIDE DEF h2
  <2> DEFINE y == precursor_add(h2, fwd, nh)
  <2>1. Fit(y, me) /\ SameRoutes(y, h)
    BY <1>5, PrecursorFit, SameRoutesChain
  <2> HIDE DEF y
  <2>2. h3 = precursor_add(y, rev, h.rt[fwd].next)
    BY DEF y
  <2> HIDE DEF h3
  <2> QED BY <2>1, <2>2, PrecursorFit, SameRoutesChain
<1> HIDE DEF h2
<1> QED BY <1>5, <1>6 DEF rrep_send_with_channel, h2

\* A forwarded RREP has the hop count of an entry, and goes on to another node.
LEMMA RrepForwardFit ==
  ASSUME NEW me, NEW h, Fit(h, me), NEW rrep \in RREP, rrep.dest # me, rrep.orig # me,
         rrep.orig # rrep.dest, h.rt[rrep.dest].state # "none"
  PROVE  Fit(rrep_forward(h, rrep, rrep.orig, rrep.dest), me)
<1> DEFINE rev == rrep.orig
           fwd == rrep.dest
           nh == h.rt[rev].next
           k  == h.rt[fwd].hcnt
           m  == [rrep EXCEPT !.hcnt = k]
           h1 == aodv_socket_send(h, nh, MAXTTL, m)
           h2 == precursor_add(h1, fwd, nh)
           h3 == precursor_add(h2, rev, h.rt[fwd].next)
<1>0. rev \in Addr /\ fwd \in Addr
  BY DEF RREP
<1>1. nh \in Addr \cup {0, Bcast} /\ k \in Nat /\ k > 0
  BY <1>0, HostFields, EntryFields DEF Fit, Own
<1>2. m \in Message /\ AsAssumed(m, me)
  <2> HIDE DEF k
  <2>1. /\ m \in RREP /\ m.type = "RREP" /\ m.orig = rrep.orig /\ m.dest = rrep.dest
        /\ m.hcnt = k
    BY <1>1 DEF RREP
  <2> HIDE DEF m
  <2> QED BY <1>1, <2>1 DEF Message, AsAssumed
<1>3. Fit(h1, me)
  <2> HIDE DEF m, nh
  <2> QED BY <1>1, <1>2, TtlType, SendFit
<1>4. Fit(h2, me)
  <2> HIDE DEF h1
  <2> QED BY <1>3, PrecursorFit
<1>5. Fit(h3, me)
  <2> HIDE DEF h2
  <2> QED BY <1>4, PrecursorFit
<1>6. Fit(rt_table_update_timeout(h3, rev), me)
  <2> HIDE DEF h3
  <2> QED BY <1>5, UpdateTimeoutFit
<1> QED BY <1>6 DEF rrep_forward

\* The insertion that refuses the host's own address does so for no other.
LEMMA InsertFit ==
  ASSUME NEW me, NEW h, Fit(h, me), NEW d \in Addr, d # me, NEW next \in Addr,
         NEW hops \in Nat, hops > 0, NEW seqno \in Seqno, NEW life,
         NEW channel \in Channel, NEW cost \in Int
  PROVE  LET g == rt_table_insert_with_channel(h, d, next, hops, seqno, life, "valid", {},
                                               channel, cost)
         IN  Fit(g, me) /\ g.rt[d].state # "none"
<1>1. h.ipaddr = me
  BY HostFields DEF Fit
<1>2. {} \in NoRepair /\ "valid" \in {"valid", "invalid"} /\ channel \in Channel \cup {NoChannel}
  BY DEF NoRepair
<1> DEFINE g == insert_entry(h, d, next, hops, seqno, life, "valid", {}, channel, cost)
<1>3. Fit(g, me) /\ g.rt[d].state # "none"
  BY <1>2, InsertEntryFit
<1> QED BY <1>1, <1>3 DEF rt_table_insert_with_channel

\* The forward route of a RREP has one hop more than the RREP.
LEMMA RrepForwardRouteFit ==
  ASSUME NEW me, NEW h, Fit(h, me), NEW m \in RREP, m.dest # me, NEW src \in Addr,
         NEW channel \in Channel, NEW cost \in Int
  PROVE  LET g == rrep_forward_route(h, m, src, channel, cost)
         IN  Fit(g, me) /\ g.rt[m.dest].state # "none"
<1>1. m.dest \in Addr /\ m.hcnt + 1 \in Nat /\ m.hcnt + 1 > 0 /\ m.seqno \in Seqno
  BY DEF RREP
<1>2. h.rt[m.dest].flags \in NoRepair
  BY <1>1, HostFields, NoRepairFlags DEF Fit
<1> DEFINE hops == m.hcnt + 1
           f == rt_table_insert_with_channel(h, m.dest, src, hops, m.seqno, m.life,
                                             "valid", {}, channel, cost)
           g == rt_table_update_with_channel(h, m.dest, src, hops, m.seqno,
                                             h.rt[m.dest].flags, channel, cost)
<1>3. Fit(f, me) /\ f.rt[m.dest].state # "none"
  <2> HIDE DEF hops
  <2> QED BY <1>1, InsertFit DEF hops
<1>4. Fit(g, me) /\ g.rt[m.dest].state # "none"
  <2> HIDE DEF hops
  <2> QED BY <1>1, <1>2, UpdateFit DEF hops
<1> HIDE DEF f, g
<1> QED BY <1>3, <1>4 DEF rrep_forward_route, f, g

\* A RREP for another node is taken in and passed on as assumed.
LEMMA RrepProcessFit ==
  ASSUME NEW me, NEW h, Fit(h, me), NEW m \in RREP, m.orig # m.dest, NEW src \in Addr,
         NEW channel \in Channel, NEW link \in Int
  PROVE  Fit(rrep_process(h, m, src, channel, link), me)
<1>0. h.ipaddr = me
  BY HostFields DEF Fit
<1>1. CASE m.dest = me
  BY <1>0, <1>1 DEF rrep_process
<1>2. CASE m.dest # me
  <2> DEFINE cost == IF m.ext THEN m.cost + link ELSE NoExtCost
             h1   == rrep_forward_route(h, m, src, channel, cost)
             h2   == IF m.a THEN aodv_socket_send(h1, h1.rt[m.dest].next, MAXTTL,
                                                  [type |-> "RREP_ACK"]) ELSE h1
             c    == h2.rt[m.orig].channel
             x    == [h2 EXCEPT !.channelNum = c]
             r    == [m EXCEPT !.a = FALSE, !.cost = IF m.ext THEN cost ELSE m.cost]
  <2>1. m.dest \in Addr /\ m.orig \in Addr /\ m.cost \in Int
    BY DEF RREP
  <2>2. cost \in Int
    BY <2>1 DEF NoExtCost
  <2> HIDE DEF cost
  <2>3. Fit(h1, me) /\ h1.rt[m.dest].state # "none"
    BY <1>2, <2>2, RrepForwardRouteFit
  <2> HIDE DEF h1
  <2>4. Fit(h2, me) /\ SameRoutes(h2, h1)
    <3>1. h1.rt[m.dest].next \in Addr \cup {0, Bcast}
      BY <2>1, <2>3, HostFields, EntryFields DEF Fit
    <3> DEFINE a == [type |-> "RREP_ACK"]
    <3>2. a \in Message /\ AsAssumed(a, me)
      BY DEF Message, ACK, AsAssumed
    <3> HIDE DEF a
    <3>3. Fit(aodv_socket_send(h1, h1.rt[m.dest].next, MAXTTL, a), me)
          /\ SameRoutes(aodv_socket_send(h1, h1.rt[m.dest].next, MAXTTL, a), h1)
      BY <2>3, <3>1, <3>2, TtlType, SendFit
    <3> QED BY <2>3, <3>3, SameRoutesChain DEF a
  <2> HIDE DEF h2
  <2>5. Fit(x, me) /\ x.rt = h2.rt
    <3>1. c \in Channel \cup {NoChannel}
      BY <2>1, <2>4, HostFields, EntryFields DEF Fit
    <3> HIDE DEF c
    <3> QED BY <2>4, <3>1, ChannelFit
  <2>6. r \in RREP /\ r.orig = m.orig /\ r.dest = m.dest
    BY <2>1, <2>2 DEF RREP
  <2>7. x.rt[m.dest].state # "none"
    BY <2>1, <2>3, <2>4, <2>5 DEF SameRoutes
  <2>8. m.orig # me => Fit(rrep_forward(x, r, m.orig, m.dest), me)
    <3> HIDE DEF x, r
    <3> SUFFICES ASSUME m.orig # me PROVE Fit(rrep_forward(x, r, r.orig, r.dest), me)
      BY <2>6
    <3> QED BY <1>2, <2>5, <2>6, <2>7, RrepForwardFit
  <2> QED BY <1>0, <2>3, <2>4, <2>8 DEF rrep_process, h2, h1, cost
<1> QED BY <1>1, <1>2

\* An acknowledgement only stops a timer.
LEMMA AckFit ==
  ASSUME NEW me, NEW h, Fit(h, me), NEW src \in Addr, NEW b
  PROVE  Fit(rrep_ack_process(h, src, b), me)
<1> DEFINE g == [h EXCEPT !.rt[src].ack = FALSE]
<1>1. Good(g, me) /\ SameRoutes(g, h) /\ Modest(g, h, me)
  BY SetField, FieldStep DEF Fit
<1>2. Fit(g, me)
  <2> HIDE DEF g
  <2> QED BY <1>1, FitStep DEF Fit
<1> QED BY <1>2 DEF rrep_ack_process

---------------------------------------------------------------------------
(* AodvControl: route requests *)

\* A record changes no route and sends nothing.
LEMMA RecordInsertFit ==
  ASSUME NEW me, NEW h, Fit(h, me), NEW m \in RREQ, NEW cost \in Int
  PROVE  Fit(rreq_record_insert_with_cost(h, m, cost), me)
<1> DEFINE g == rreq_record_insert_with_cost(h, m, cost)
<1>1. g.rt = h.rt /\ g.seek = h.seek /\ g.out = h.out
  BY DEF rreq_record_insert_with_cost, Fit, Good, Host
<1>2. Good(g, me)
  BY RecordInsertGood DEF Fit
<1> HIDE DEF g
<1>3. SameRoutes(g, h) /\ Modest(g, h, me)
  BY <1>1 DEF SameRoutes, Modest
<1> QED BY <1>2, <1>3, FitStep DEF Fit, g

\* The reverse route of a RREQ has one hop more than the RREQ.
LEMMA ReverseRouteFit ==
  ASSUME NEW me, NEW h, Fit(h, me), NEW m \in RREQ, m.orig # me, NEW src \in Addr,
         NEW channel \in Channel, NEW cost \in Int
  PROVE  LET g == rreq_reverse_route(h, m, src, channel, cost)
         IN  Fit(g, me) /\ g.rt[m.orig].state # "none"
<1>1. m.orig \in Addr /\ m.hcnt + 1 \in Nat /\ m.hcnt + 1 > 0 /\ m.orig_seqno \in Seqno
  BY DEF RREQ
<1>2. h.rt[m.orig].flags \in NoRepair
  BY <1>1, HostFields, NoRepairFlags DEF Fit
<1> DEFINE hops == m.hcnt + 1
           life == PATH_DISCOVERY_TIME - 2 * hops * NODE_TRAVERSAL_TIME
           f == rt_table_insert_with_channel(h, m.orig, src, hops, m.orig_seqno, life,
                                             "valid", {}, channel, cost)
           g == rt_table_update_with_channel(h, m.orig, src, hops, m.orig_seqno,
                                             h.rt[m.orig].flags, channel, cost)
<1>3. Fit(f, me) /\ f.rt[m.orig].state # "none"
  <2> HIDE DEF hops, life
  <2> QED BY <1>1, InsertFit DEF hops
<1>4. Fit(g, me) /\ g.rt[m.orig].state # "none"
  <2> HIDE DEF hops
  <2> QED BY <1>1, <1>2, UpdateFit DEF hops
<1>5. rreq_reverse_route(h, m, src, channel, cost) = IF ~present(h, m.orig) THEN f ELSE g
  BY DEF rreq_reverse_route
<1> HIDE DEF f, g
<1> QED BY <1>3, <1>4, <1>5

\* The destination answers with hop count zero, and only others' requests.
LEMMA AnswerAsDestFit ==
  ASSUME NEW me, NEW h, Fit(h, me), NEW m \in RREQ, m.orig # me, NEW channel \in Channel
  PROVE  Fit(rreq_answer_as_dest(h, m, channel), me)
<1> DEFINE s  == rreq_own_seqno(h.seqno, m.dest_seqno)
           h1 == [h EXCEPT !.seqno = s]
           p  == Rrep(0, h.ipaddr, h1.seqno, m.orig, 1, TRUE, 0)
<1>1. m.dest_seqno \in Seqno /\ m.orig \in Addr /\ h.seqno \in Seqno /\ h.ipaddr = me /\ me \in Addr
  BY HostFields DEF RREQ, Fit
<1>2. s \in Seqno
  BY <1>1, SeqnoIncrType DEF rreq_own_seqno
<1> HIDE DEF s
<1>3. h1.seqno = s /\ h1.rt = h.rt /\ h1.seek = h.seek /\ h1.out = h.out
  BY DEF Fit, Good, Host
<1>4. Fit(h1, me)
  <2>1. Good(h1, me)
    BY <1>2, SetSeqno DEF Fit
  <2> HIDE DEF h1
  <2>2. SameRoutes(h1, h) /\ Modest(h1, h, me)
    BY <1>3 DEF SameRoutes, Modest
  <2> QED BY <2>1, <2>2, FitStep DEF Fit
<1> HIDE DEF h1
<1>5. p \in RREP /\ AsAssumed(p, me)
  <2>1. p \in RREP
    BY <1>1, <1>2, <1>3 DEF Rrep, RREP
  <2>2. AsAssumed(p, me)
    BY <1>1 DEF Rrep, AsAssumed
  <2> QED BY <2>1, <2>2
<1> HIDE DEF p
<1>6. Fit(rrep_send_with_channel(h1, p, m.orig, Bcast, channel), me)
  BY <1>1, <1>4, <1>5, RrepSendFit
<1> QED BY <1>6 DEF rreq_answer_as_dest, s, h1, p

\* Both answers of an intermediate node carry the hop counts of its routes.
LEMMA AnswerFromTableFit ==
  ASSUME NEW me, NEW h, Fit(h, me), NEW m \in RREQ, m.orig # me, m.dest # me,
         m.orig # m.dest, NEW left \in {0, 1},
         h.rt[m.orig].state # "none", h.rt[m.dest].state # "none"
  PROVE  Fit(rreq_answer_from_table(h, m, left), me)
<1> DEFINE f  == h.rt[m.dest]
           c  == f.channel
           p  == Rrep(f.hcnt, m.dest, f.seqno, m.orig, left, TRUE, f.cost)
           h1 == rrep_send_with_channel(h, p, m.orig, m.dest, c)
           r  == h1.rt[m.orig]
           q  == Rrep(r.hcnt, m.orig, r.seqno, m.dest, left, FALSE, 0)
<1>1. m.dest \in Addr /\ m.orig \in Addr
  BY DEF RREQ
<1>2. f.hcnt \in Nat /\ f.seqno \in Seqno /\ f.cost \in Int /\ c \in Channel \cup {NoChannel}
  BY <1>1, HostFields, EntryFields DEF Fit
<1>3. p \in RREP /\ AsAssumed(p, me)
  <2>1. f.hcnt > 0
    BY <1>1 DEF Fit, Own
  <2> HIDE DEF f
  <2>2. p \in RREP
    BY <1>1, <1>2, RrepType
  <2>3. AsAssumed(p, me)
    BY <1>2, <2>1 DEF Rrep, AsAssumed
  <2> QED BY <2>2, <2>3
<1>4. Fit(h1, me) /\ SameRoutes(h1, h)
  <2> HIDE DEF p, c
  <2> QED BY <1>1, <1>2, <1>3, RrepSendFit
<1>5. q \in RREP /\ AsAssumed(q, me)
  <2> HIDE DEF h1
  <2>1. r.hcnt \in Nat /\ r.seqno \in Seqno
    BY <1>1, <1>4, HostFields, EntryFields DEF Fit
  <2>2. r.hcnt > 0
    BY <1>1, <1>4 DEF Fit, Own, SameRoutes
  <2> HIDE DEF r
  <2>3. q \in RREP
    BY <1>1, <2>1 DEF Rrep, RREP
  <2>4. AsAssumed(q, me)
    BY <2>1, <2>2 DEF Rrep, AsAssumed
  <2> QED BY <2>3, <2>4
<1>6. Fit(rrep_send_with_channel(h1, q, m.dest, m.orig, c), me)
  <2> HIDE DEF h1, q, c
  <2> QED BY <1>1, <1>2, <1>4, <1>5, RrepSendFit
<1>7. rreq_answer_from_table(h, m, left)
        = IF ~m.g THEN h1 ELSE rrep_send_with_channel(h1, q, m.dest, m.orig, c)
  BY DEF rreq_answer_from_table
<1> HIDE DEF h1, q, c
<1> QED BY <1>4, <1>6, <1>7

\* A forwarded RREQ has made a hop, and asks for neither end.
LEMMA RreqForwardFit ==
  ASSUME NEW me, NEW h, Fit(h, me), NEW m \in RREQ, m.orig # me, m.dest # me,
         m.orig # m.dest, NEW cost \in Int, NEW ttl \in Nat
  PROVE  Fit(rreq_forward_with_channel(h, m, cost, ttl), me)
<1> DEFINE s == IF present(h, m.dest) /\ newer(h.rt[m.dest].seqno, m.dest_seqno)
                THEN h.rt[m.dest].seqno ELSE m.dest_seqno
           k == m.hcnt + 1
           x == [h EXCEPT !.channelNum = Channel_Count - 1]
           r == [m EXCEPT !.hcnt = k, !.dest_seqno = s, !.cost = cost]
<1>1. s \in Seqno
  <2>1. m.dest \in Addr /\ m.dest_seqno \in Seqno
    BY DEF RREQ
  <2> QED BY <2>1, HostFields, EntryFields DEF Fit
<1>2. k \in Nat /\ k > 0
  BY DEF RREQ
<1>3. r \in Message /\ AsAssumed(r, me)
  <2> HIDE DEF s, k
  <2>1. r \in RREQ /\ r.orig = m.orig /\ r.dest = m.dest /\ r.hcnt = k /\ r.type = "RREQ"
    BY <1>1, <1>2 DEF RREQ
  <2> HIDE DEF r
  <2> QED BY <1>2, <2>1 DEF Message, AsAssumed
<1>4. Fit(x, me)
  <2> DEFINE c == Channel_Count - 1
  <2>1. c \in Channel \cup {NoChannel}
    BY ChannelAssumption DEF Channel
  <2> HIDE DEF c
  <2>2. Fit([h EXCEPT !.channelNum = c], me)
    BY <2>1, ChannelFit
  <2> QED BY <2>2 DEF c
<1>5. CASE ttl > 1
  <2> DEFINE t == ttl - 1
  <2>1. t \in Nat /\ Bcast \in Addr \cup {0, Bcast}
    BY <1>5
  <2>2. Fit(aodv_socket_send(x, Bcast, t, r), me)
    <3> HIDE DEF x, r, t
    <3> QED BY <1>3, <1>4, <2>1, SendFit
  <2>3. rreq_forward_with_channel(h, m, cost, ttl) = aodv_socket_send(x, Bcast, t, r)
    BY <1>5 DEF rreq_forward_with_channel
  <2> HIDE DEF x, r, t
  <2> QED BY <2>2, <2>3
<1> QED BY <1>5 DEF rreq_forward_with_channel

\* An intermediate node may drop a route first, but never that to the originator.
LEMMA AsIntermediateFit ==
  ASSUME NEW me, NEW h, Fit(h, me), NEW m \in RREQ, m.orig # me, m.dest # me,
         m.orig # m.dest, h.rt[m.orig].state # "none",
         NEW cost \in Int, NEW ttl \in Nat, NEW left \in {0, 1}
  PROVE  Fit(rreq_as_intermediate(h, m, cost, ttl, left), me)
<1> DEFINE h1 == IF present(h, m.dest) /\ h.rt[m.dest].channel = NoChannel
                 THEN rt_table_delete(h, m.dest) ELSE h
<1>1. m.orig \in Addr \ {m.dest}
  BY DEF RREQ
<1>2. Fit(h1, me) /\ h1.rt[m.orig].state # "none"
  BY <1>1, DeleteFit
<1>3. rreq_as_intermediate(h, m, cost, ttl, left)
        = IF /\ valid(h1, m.dest)
             /\ h1.rt[m.dest].seqno # 0
             /\ ~newer(m.dest_seqno, h1.rt[m.dest].seqno)
          THEN rreq_answer_from_table(h1, m, left)
          ELSE rreq_forward_with_channel(h1, m, cost, ttl)
  BY DEF rreq_as_intermediate
<1> HIDE DEF h1
<1>4. valid(h1, m.dest) => Fit(rreq_answer_from_table(h1, m, left), me)
  BY <1>2, AnswerFromTableFit DEF valid
<1>5. Fit(rreq_forward_with_channel(h1, m, cost, ttl), me)
  BY <1>2, RreqForwardFit
<1> QED BY <1>3, <1>4, <1>5

\* A RREQ is answered or forwarded as assumed, and dropped by its originator.
LEMMA RreqProcessFit ==
  ASSUME NEW me, NEW h, Fit(h, me), NEW m \in RREQ, m.orig # m.dest, NEW src \in Addr,
         NEW channel \in Channel, NEW ttl \in Nat, NEW link \in Int, NEW left \in {0, 1}
  PROVE  Fit(rreq_process(h, m, src, channel, ttl, link, left), me)
<1>0. h.ipaddr = me
  BY HostFields DEF Fit
<1>1. CASE m.orig = me
  BY <1>0, <1>1 DEF rreq_process
<1>2. CASE m.orig # me
  <2> DEFINE cost == m.cost + link
             h1   == rreq_record_insert_with_cost(h, m, cost)
             h2   == rreq_reverse_route(h1, m, src, channel, cost)
  <2>1. cost \in Int
    BY DEF RREQ
  <2> HIDE DEF cost
  <2>2. Fit(h1, me)
    BY <2>1, RecordInsertFit
  <2> HIDE DEF h1
  <2>3. Fit(h2, me) /\ h2.rt[m.orig].state # "none"
    BY <1>2, <2>1, <2>2, ReverseRouteFit
  <2> HIDE DEF h2
  <2>4. Fit(rreq_answer_as_dest(h2, m, channel), me)
    BY <1>2, <2>3, AnswerAsDestFit
  <2>5. m.dest # me => Fit(rreq_as_intermediate(h2, m, cost, ttl, left), me)
    BY <1>2, <2>1, <2>3, AsIntermediateFit
  <2> QED BY <1>0, <2>2, <2>4, <2>5 DEF rreq_process, h1, h2, cost
<1> QED BY <1>1, <1>2

---------------------------------------------------------------------------
(* AodvControl: route errors *)

\* Only routes of this host are reported on, whatever the RERR named.
LEMMA RerrProcessFit ==
  ASSUME NEW me, NEW h, Fit(h, me), NEW m \in RERR, NEW src
  PROVE  Fit(rerr_process(h, m, src), me)
<1> DEFINE read == {u \in rerr_read(m) : valid(h, u.addr) /\ h.rt[u.addr].next = src}
           hit  == {u.addr : u \in read}
           seq(d) == (CHOOSE u \in read : u.addr = d).seqno
           told == {d \in hit : h.rt[d].prec # {} /\ "REPAIR" \notin h.rt[d].flags}
           prec == [d \in Addr |-> h.rt[d].prec]
           gone(e, s) == IF m.n THEN [e EXCEPT !.seqno = s]
                         ELSE [invalidated(e) EXCEPT !.seqno = s, !.prec = {}]
           t == [d \in Addr |-> IF d \in hit THEN gone(h.rt[d], seq(d)) ELSE h.rt[d]]
           c == IF m.n THEN h.num_active ELSE plus(h.num_active, -Cardinality(hit))
           h1 == [h EXCEPT !.rt = t, !.num_active = c]
           first == IF m.first \in told THEN m.first ELSE least(told)
           g == sendRerr(h1, first, told, prec, m.n)
<1>0. h \in Host
  BY DEF Fit, Good
<1>1. \A d \in hit : d \in Addr /\ h.rt[d].state = "valid"
  BY DEF valid
<1>2. told \subseteq Addr /\ me \notin told
  <2>1. \A d \in told : d \in Addr /\ h.rt[d].state = "valid"
    <3> HIDE DEF hit
    <3> QED BY <1>1
  <2> HIDE DEF told
  <2> QED BY <2>1 DEF Fit, Own
<1>3. told # {} => first \in told
  <2> HIDE DEF told
  <2> QED BY <1>2, LeastExists, AddrAssumption
<1>4. ASSUME NEW e \in Entry, e.state = "valid", NEW s
      PROVE  gone(e, s).hcnt = e.hcnt /\ gone(e, s).state # "none"
  <2>1. [e EXCEPT !.seqno = s].hcnt = e.hcnt /\ [e EXCEPT !.seqno = s].state = "valid"
    BY <1>4 DEF Entry
  <2> DEFINE i == invalidated(e)
  <2>2. i \in Entry /\ i.hcnt = e.hcnt /\ i.state = "invalid"
    BY SeqnoIncrType DEF invalidated, Entry, Handler
  <2> HIDE DEF i
  <2>3. /\ [i EXCEPT !.seqno = s, !.prec = {}].hcnt = e.hcnt
        /\ [i EXCEPT !.seqno = s, !.prec = {}].state = "invalid"
    BY <2>2 DEF Entry
  <2> QED BY <2>1, <2>3 DEF i
<1>5. \A d \in Addr : t[d].hcnt = h.rt[d].hcnt /\ (t[d].state = "none") = (h.rt[d].state = "none")
  <2>1. \A d \in Addr : h.rt[d] \in Entry
    BY <1>0 DEF Host
  <2> HIDE DEF hit, gone, seq
  <2> QED BY <1>1, <1>4, <2>1
<1>6. g.rt = t /\ Modest(g, h, me)
  <2> HIDE DEF t, c, first, told, prec
  <2> QED BY <1>0, <1>2, <1>3, SendRerrModest
<1>7. rerr_process(h, m, src) = g
  BY DEF rerr_process
<1>8. Good(g, me)
  <2> HIDE DEF g
  <2> QED BY <1>7, RerrProcessGood DEF Fit
<1> HIDE DEF g, t
<1>9. SameRoutes(g, h)
  BY <1>5, <1>6 DEF SameRoutes
<1> QED BY <1>6, <1>7, <1>8, <1>9, FitStep DEF Fit

---------------------------------------------------------------------------
(* AodvControl: timeouts, data packets and the entry point *)

\* An expired route is invalidated, alone or with those through the neighbour.
LEMMA RouteExpireFit ==
  ASSUME NEW me, NEW h, Fit(h, me), NEW d \in Addr, h.rt[d].handler = "expire"
  PROVE  Fit(route_expire_timeout(h, d), me)
<1> DEFINE e == [h.rt[d] EXCEPT !.armed = FALSE]
           g == [h EXCEPT !.rt[d].armed = FALSE]
           i == rt_table_invalidate(g, d)
<1>1. h.rt[d] \in Entry /\ RouteOK(h.rt[d])
  BY HostFields DEF Fit
<1>2. Replaces(e, h.rt[d])
  BY <1>1 DEF Replaces, Entry, RouteOK
<1>3. g = [h EXCEPT !.rt[d] = e]
  BY DEF Fit, Good, Host
<1>4. SameRoutes(g, h) /\ Modest(g, h, me)
  BY FieldStep DEF Fit
<1>5. Fit(g, me)
  <2> HIDE DEF g, e
  <2>1. Good(g, me)
    BY <1>2, <1>3, SetEntry DEF Fit
  <2> QED BY <1>4, <2>1, FitStep DEF Fit
<1> HIDE DEF g
<1>6. Fit(neighbor_link_break(g, d), me)
  BY <1>5, LinkBreakFit
<1>7. Fit(precursor_list_destroy(i, d), me)
  <2>1. Fit(i, me)
    BY <1>5, InvalidateFit
  <2> HIDE DEF i
  <2> QED BY <2>1, PrecursorFit
<1> QED BY <1>6, <1>7 DEF route_expire_timeout, g, i

\* A data packet is passed on, reported or queued, and never for this host.
LEMMA ProcessPacketFit ==
  ASSUME NEW me, NEW h, Fit(h, me), NEW src \in Addr, NEW dest \in Addr, src # dest,
         NEW tcp \in BOOLEAN, NEW v \in Addr, NEW vo \in Origin, Room(h, v, vo)
  PROVE  Fit(processPacket(h, src, dest, tcp, v, vo), me)
<1> DEFINE h1 == rt_table_update_route_timeouts(h, dest, src, llfeedback)
           usable == valid(h1, dest)
                     /\ ~(h1.rt[dest].hcnt = 1 /\ "UNIDIR" \in h1.rt[dest].flags)
<1>0. h.ipaddr = me /\ h \in Host
  BY HostFields DEF Fit, Good
<1>1. Fit(h1, me)
  <2> DEFINE x == RenewRoute(h, dest, llfeedback)
  <2>1. Fit(x, me)
    BY RenewRouteFit
  <2> HIDE DEF x
  <2>2. Fit(RenewRoute(x, src, llfeedback), me)
    BY <2>1, RenewRouteFit
  <2> QED BY <2>2 DEF rt_table_update_route_timeouts, x
<1>2. Room(h1, v, vo)
  BY <1>0, RenewKeepsQueue DEF Room
<1> HIDE DEF h1
<1>3. CASE dest = me
  BY <1>0, <1>1, <1>3 DEF processPacket, h1
<1>4. CASE dest # me
  <2> DEFINE m == [type |-> "DATA", src |-> src, dest |-> dest]
             nh == h1.rt[dest].next
             p == sendPacket(h1, nh, MAXTTL, m)
             q == rreq_route_discovery(packet_queue_add(h1, dest, "own", v, vo), dest, tcp)
  <2>1. nh \in Addr \cup {0, Bcast}
    BY <1>1, HostFields, EntryFields DEF Fit
  <2>2. m \in Message /\ AsAssumed(m, me)
    BY <1>4, DataType DEF AsAssumed
  <2>3. Fit(p, me)
    <3> HIDE DEF nh, m
    <3> QED BY <1>1, <2>1, <2>2, TtlType, SendFit
  <2>4. Fit(no_route_rerr(h1, src, dest), me)
    <3> DEFINE s   == IF present(h1, dest) THEN h1.rt[dest].seqno ELSE 0
               dst == IF valid(h1, src) THEN h1.rt[src].next ELSE Bcast
               u   == [addr |-> dest, seqno |-> s]
               r   == [type |-> "RERR", first |-> dest, n |-> FALSE, dests |-> {u}]
               x   == rt_table_update_timeout(h1, dest)
    <3>1. s \in Seqno
      BY <1>1, HostFields, EntryFields, WidthAssumption DEF Seqno, Fit
    <3>2. dst \in Addr \cup {0, Bcast}
      BY <1>1, HostFields, EntryFields DEF Fit
    <3>3. r \in Message /\ AsAssumed(r, me)
      <4> HIDE DEF s
      <4>1. u \in Udest /\ u.addr = dest
        BY <3>1 DEF Udest
      <4> HIDE DEF u
      <4>2. r \in Message
        BY <4>1 DEF Message, RERR
      <4>3. AsAssumed(r, me)
        BY <1>4, <4>1 DEF AsAssumed
      <4> QED BY <4>2, <4>3
    <3>4. Fit(x, me)
      BY <1>1, UpdateTimeoutFit
    <3>5. Fit(aodv_socket_send(x, dst, 1, r), me)
      <4> HIDE DEF dst, r, x
      <4> QED BY <3>2, <3>3, <3>4, SendFit
    <3> QED BY <3>5 DEF no_route_rerr
  <2>5. ~usable => Fit(q, me)
    <3> HIDE DEF q
    <3> QED BY <1>1, <1>2, <1>4, DiscoveryFit DEF q
  <2>6. processPacket(h, src, dest, tcp, v, vo)
          = IF usable THEN p ELSE IF src # me THEN no_route_rerr(h1, src, dest) ELSE q
    BY <1>0, <1>4 DEF processPacket, h1
  <2> HIDE DEF p, q, usable
  <2> QED BY <2>3, <2>4, <2>5, <2>6
<1> QED BY <1>3, <1>4

\* A packet that failed waits for its route or breaks a link.
LEMMA PacketFailedFit ==
  ASSUME NEW me, NEW h, Fit(h, me), NEW dest \in Addr, NEW o \in Origin, NEW nh, NEW v \in Addr,
         NEW vo \in Origin, Room(h, v, vo)
  PROVE  Fit(packetFailed(h, dest, o, nh, v, vo), me)
<1>1. CASE h.seek[dest].on
  <2> DEFINE g == packet_queue_add(h, dest, o, v, vo)
  <2>1. Good(g, me)
    BY <1>1, QueueAddGood DEF Fit
  <2>2. g.rt = h.rt /\ g.seek = h.seek /\ g.out = h.out
    BY QueueAddSame DEF Fit, Good
  <2> HIDE DEF g
  <2>3. SameRoutes(g, h) /\ Modest(g, h, me)
    BY <2>2 DEF SameRoutes, Modest
  <2> QED BY <1>1, <2>1, <2>3, FitStep DEF Fit, packetFailed, g
<1> QED BY <1>1, LinkBreakFit DEF packetFailed

\* Every control message as assumed leaves the host Fit.
LEMMA ProcessFit ==
  ASSUME NEW me, NEW h, Fit(h, me), NEW m \in RREQ \cup RREP \cup RERR \cup ACK,
         NEW src \in Addr, src # me, AsAssumed(m, src),
         NEW channel \in Channel, NEW ttl \in Nat, NEW link \in Int, NEW left \in {0, 1}
  PROVE  Fit(aodv_socket_process_packet(h, m, src, channel, ttl, link, left), me)
<1> DEFINE h1 == neighbor_add(h, src)
<1>1. Fit(h1, me)
  BY NeighborAddFit
<1> HIDE DEF h1
<1>2. CASE m \in RREQ
  <2>1. m.type = "RREQ"
    BY <1>2 DEF RREQ
  <2>2. m.orig # m.dest
    BY <2>1 DEF AsAssumed
  <2>3. Fit(rreq_process(h1, m, src, channel, ttl, link, left), me)
    BY <1>1, <1>2, <2>2, RreqProcessFit
  <2> QED BY <2>1, <2>3 DEF aodv_socket_process_packet, h1
<1>3. CASE m \in RREP
  <2>1. m.type = "RREP"
    BY <1>3 DEF RREP
  <2>2. m.orig # m.dest
    BY <2>1 DEF AsAssumed
  <2>3. Fit(rrep_process(h1, m, src, channel, link), me)
    BY <1>1, <1>3, <2>2, RrepProcessFit
  <2> QED BY <2>1, <2>3 DEF aodv_socket_process_packet, h1
<1>4. CASE m \in RERR
  <2>1. m.type = "RERR"
    BY <1>4 DEF RERR
  <2>2. Fit(rerr_process(h1, m, src), me)
    BY <1>1, <1>4, RerrProcessFit
  <2> QED BY <2>1, <2>2 DEF aodv_socket_process_packet, h1
<1>5. CASE m \in ACK
  <2>1. m.type = "RREP_ACK" \/ m.type = "HELLO_ACK"
    BY <1>5 DEF ACK
  <2>2. Fit(rrep_ack_process(h1, src, TRUE), me) /\ Fit(rrep_ack_process(h1, src, FALSE), me)
    BY <1>1, AckFit
  <2> QED BY <2>1, <2>2 DEF aodv_socket_process_packet, h1
<1> QED BY <1>2, <1>3, <1>4, <1>5

---------------------------------------------------------------------------
(* The network *)

InFlight ==
  [from : Addr, to : Addr \cup {0}, ch : Channel \cup {NoChannel, AllChannels},
   ttl : Nat, msg : Message]

\* Every node is Fit, and so is every message in flight.
NetInv ==
  /\ hosts \in [Addr -> Host]
  /\ \A n \in Addr : Fit(hosts[n], n)
  /\ net \subseteq InFlight
  /\ \A p \in net : AsAssumed(p.msg, p.from)
  /\ links \subseteq Links
  /\ todo \subseteq Traffic
  /\ rerr_records \subseteq Addr

\* A node starts without routes and without anything to send.
LEMMA InitHostFit ==
  ASSUME NEW a \in Addr PROVE Fit(InitHost(a, FALSE), a)
<1>1. Good(InitHost(a, FALSE), a)
  BY InitHostGood
<1>2. Own(InitHost(a, FALSE), a)
  BY DEF Own, InitHost, NoEntry, NoSeek
<1> QED BY <1>1, <1>2 DEF Fit

\* The network starts with its nodes Fit and nothing in flight.
LEMMA InitNetInv == Init => NetInv
<1> SUFFICES ASSUME Init PROVE NetInv
  OBVIOUS
<1>1. \A n \in Addr : Fit(InitHost(n, FALSE), n) /\ InitHost(n, FALSE) \in Host
  BY InitHostFit DEF Fit, Good
<1> QED BY <1>1 DEF Init, NetInv

\* The packet a full queue drops is there.
LEMMA OldestType ==
  ASSUME NEW me, NEW h, Good(h, me)
  PROVE  oldest(h)[1] \in Addr /\ oldest(h)[2] \in Origin /\ Room(h, oldest(h)[1], oldest(h)[2])
<1>0. h.ipaddr \in Addr /\ h.queue \in [Addr -> [Origin -> Nat]] /\ "own" \in Origin
  BY HostFields DEF Origin
<1>1. CASE h.pqlen < MAX_QUEUE_LENGTH
  <2>1. h.pqlen \in Int
    BY HostFields
  <2>2. oldest(h) = <<h.ipaddr, "own">>
    BY <1>1 DEF oldest
  <2> QED BY <1>0, <1>1, <2>1, <2>2, LimitAssumption DEF Room
<1>2. CASE ~(h.pqlen < MAX_QUEUE_LENGTH)
  <2>1. \E v \in Addr \X Origin : h.queue[v[1]][v[2]] > 0
    <3>1. Cardinality(Queued(h.queue)) # 0
      BY <1>2, LimitAssumption DEF Good, Counted
    <3>2. Queued(h.queue) # {}
      BY <3>1, FS_EmptySet
    <3>3. PICK d \in Addr, o \in Origin : \E i \in 1 .. h.queue[d][o] : TRUE
      BY <3>2, QueuedElements
    <3>4. h.queue[d][o] > 0
      BY <1>0, <3>3
    <3>5. <<d, o>> \in Addr \X Origin /\ <<d, o>>[1] = d /\ <<d, o>>[2] = o
      OBVIOUS
    <3> QED BY <3>4, <3>5
  <2>2. oldest(h) = CHOOSE v \in Addr \X Origin : h.queue[v[1]][v[2]] > 0
    BY <1>2 DEF oldest
  <2>3. oldest(h) \in Addr \X Origin /\ h.queue[oldest(h)[1]][oldest(h)[2]] > 0
    BY <2>1, <2>2
  <2> QED BY <2>3 DEF Room
<1> QED BY <1>1, <1>2

\* The copies of a packet of a Fit node.
LEMMA CopiesInFlight ==
  ASSUME links \subseteq Links, NEW n \in Addr, NEW p \in Packet
  PROVE  copies(n, p) \subseteq InFlight /\ \A c \in copies(n, p) : c.from = n /\ c.msg = p.msg
<1>1. /\ p.dst \in Addr \cup {0, Bcast} /\ p.ttl \in Nat /\ p.msg \in Message
      /\ p.ch \in Channel \cup {NoChannel, AllChannels}
  BY DEF Packet
<1>2. CASE p.dst # Bcast
  BY <1>1, <1>2 DEF copies, InFlight
<1>3. CASE p.dst = Bcast
  <2>1. \A l \in links : l[2] \in Addr /\ l[3] \in Channel
    BY NetworkAssumption
  <2> QED BY <1>1, <1>3, <2>1 DEF copies, InFlight
<1> QED BY <1>2, <1>3

\* A step of one node into a Fit host keeps nodes and messages as they should be.
LEMMA StepFit ==
  ASSUME NetInv, NEW n \in Addr, NEW h, Fit(h, n), NEW gone, Step(n, h, gone)
  PROVE  /\ hosts' \in [Addr -> Host]
         /\ \A m \in Addr : Fit(hosts'[m], m)
         /\ net' \subseteq InFlight
         /\ \A p \in net' : AsAssumed(p.msg, p.from)
<1> DEFINE g == [h EXCEPT !.out = {}]
<1>1. h \in Host /\ h.out \subseteq Packet
  BY HostFields DEF Fit, Good
<1>2. g \in Host /\ Fit(g, n)
  <2>1. Good(g, n)
    BY SetOut DEF Fit
  <2>2. g.rt = h.rt /\ g.seek = h.seek /\ g.out = {}
    BY <1>1 DEF Host
  <2> HIDE DEF g
  <2>3. Own(g, n)
    BY <2>2 DEF Fit, Own
  <2> QED BY <2>1, <2>3 DEF Fit, Good
<1>3. hosts' = [hosts EXCEPT ![n] = g]
  BY DEF Step
<1>4. net' = (net \ gone) \cup UNION {copies(n, p) : p \in h.out}
  BY DEF Step
<1> HIDE DEF g
<1>5. hosts' \in [Addr -> Host] /\ \A m \in Addr : hosts'[m] = IF m = n THEN g ELSE hosts[m]
  BY <1>2, <1>3 DEF NetInv
<1>6. \A m \in Addr : Fit(hosts'[m], m)
  BY <1>2, <1>5 DEF NetInv
<1>7. \A p \in h.out : copies(n, p) \subseteq InFlight
                       /\ \A c \in copies(n, p) : AsAssumed(c.msg, c.from)
  <2> SUFFICES ASSUME NEW p \in h.out
               PROVE  copies(n, p) \subseteq InFlight
                      /\ \A c \in copies(n, p) : AsAssumed(c.msg, c.from)
    OBVIOUS
  <2>1. AsAssumed(p.msg, n)
    BY DEF Fit, Own
  <2> QED BY <1>1, <2>1, CopiesInFlight DEF NetInv
<1>8. net' \subseteq InFlight /\ \A p \in net' : AsAssumed(p.msg, p.from)
  BY <1>4, <1>7 DEF NetInv
<1> QED BY <1>5, <1>6, <1>8

\* What a packet in flight is, by type.
LEMMA MessageKind ==
  ASSUME NEW m \in Message
  PROVE  /\ m.type = "DATA" => m.src \in Addr /\ m.dest \in Addr
         /\ m.type # "DATA" => m \in RREQ \cup RREP \cup RERR \cup ACK
BY DEF Message, RREQ, RREP, RERR, DATA, ACK

\* An arriving packet, of whatever type, leaves its receiver Fit.
LEMMA RecvFit ==
  ASSUME NetInv, NEW p \in net, up(p), NEW link \in costs(p)
  PROVE  p.to \in Addr /\ p.from \in Addr /\ Fit(recv(hosts[p.to], p, link), p.to)
<1> DEFINE h == hosts[p.to]
           m == p.msg
<1>1. /\ p.from \in Addr /\ p.ttl \in Nat /\ m \in Message /\ AsAssumed(m, p.from)
  BY DEF NetInv, InFlight
<1>2. p.to \in Addr /\ p.ch \in Channel /\ p.from # p.to
  <2>1. <<p.from, p.to, p.ch>> \in Links
    BY DEF up, NetInv
  <2>2. <<p.from, p.to, p.ch>> \in Addr \X Addr \X Channel
    BY <2>1, NetworkAssumption
  <2>3. <<p.from, p.to, p.ch>>[1] # <<p.from, p.to, p.ch>>[2]
    BY <2>1, NetworkAssumption
  <2> QED BY <2>2, <2>3
<1>3. link \in Int
  <2>1. <<p.from, p.to, p.ch>> \in Links
    BY DEF up, NetInv
  <2>2. {p.from, p.to} \in {{l[1], l[2]} : l \in Links}
    <3>1. \E l \in Links : {p.from, p.to} = {l[1], l[2]}
      BY <2>1
    <3> QED BY <3>1
  <2>3. LinkCost[{p.from, p.to}] \subseteq Nat
    BY <2>2, NetworkAssumption
  <2> QED BY <2>3 DEF costs
<1>4. Fit(h, p.to) /\ h.ipaddr = p.to
  BY <1>2 DEF NetInv, Fit, Good
<1>5. CASE m.type = "DATA"
  <2> DEFINE v == oldest(h)[1]
             vo == oldest(h)[2]
  <2>1. m.src \in Addr /\ m.dest \in Addr /\ m.src # m.dest
    BY <1>1, <1>5, MessageKind DEF AsAssumed
  <2>2. v \in Addr /\ vo \in Origin /\ Room(h, v, vo)
    BY <1>4, OldestType DEF Fit
  <2>3. Fit(processPacket(h, m.src, m.dest, FALSE, v, vo), p.to)
    <3> HIDE DEF v, vo, h
    <3> QED BY <1>4, <2>1, <2>2, ProcessPacketFit
  <2>4. Fit(recv_data(h, m), p.to)
    BY <1>4, <2>3 DEF recv_data
  <2>5. recv(h, p, link) = recv_data(h, m)
    BY <1>5 DEF recv
  <2> QED BY <1>1, <1>2, <2>4, <2>5
<1>6. CASE m.type # "DATA"
  <2>1. Fit(neighbor_add(h, p.from), p.to)
    BY <1>1, <1>2, <1>4, NeighborAddFit
  <2>2. Fit(aodv_socket_process_packet(h, m, p.from, p.ch, p.ttl, link, 1), p.to)
    <3>1. m \in RREQ \cup RREP \cup RERR \cup ACK
      BY <1>1, <1>6, MessageKind
    <3> HIDE DEF m, h
    <3> QED BY <1>1, <1>2, <1>3, <1>4, <3>1, ProcessFit
  <2>3. recv(h, p, link) \in {neighbor_add(h, p.from),
                              aodv_socket_process_packet(h, m, p.from, p.ch, p.ttl, link, 1)}
    BY <1>6 DEF recv
  <2> HIDE DEF h
  <2>4. Fit(recv(h, p, link), p.to)
    BY <2>1, <2>2, <2>3
  <2> QED BY <1>1, <1>2, <2>4 DEF h
<1> QED BY <1>5, <1>6

\* Every step of the network preserves the invariant.
LEMMA NetInvStep == NetInv /\ [Next]_vars => NetInv'
<1> SUFFICES ASSUME NetInv, [Next]_vars PROVE NetInv'
  OBVIOUS
<1>1. ASSUME NEW t \in Traffic, Send(t) PROVE NetInv'
  <2> DEFINE h == hosts[t[1]]
             v == oldest(h)[1]
             vo == oldest(h)[2]
             g == processPacket(h, t[1], t[2], t[3], v, vo)
  <2>1. t[1] \in Addr /\ t[2] \in Addr /\ t[3] \in BOOLEAN /\ t[1] # t[2]
    BY NetworkAssumption
  <2>2. Fit(h, t[1])
    BY <2>1 DEF NetInv
  <2>3. v \in Addr /\ vo \in Origin /\ Room(h, v, vo)
    BY <2>2, OldestType DEF Fit
  <2>4. Fit(g, t[1])
    <3> HIDE DEF v, vo, h
    <3> QED BY <2>1, <2>2, <2>3, ProcessPacketFit
  <2>5. Step(t[1], g, {})
    BY <1>1 DEF Send
  <2> HIDE DEF g
  <2>6. /\ hosts' \in [Addr -> Host] /\ \A m \in Addr : Fit(hosts'[m], m)
        /\ net' \subseteq InFlight /\ \A p \in net' : AsAssumed(p.msg, p.from)
    BY <2>1, <2>4, <2>5, StepFit
  <2> QED BY <1>1, <2>6 DEF Send, NetInv
<1>2. ASSUME NEW p \in net, NEW link \in costs(p), Deliver(p, link) PROVE NetInv'
  <2> DEFINE g == recv(hosts[p.to], p, link)
  <2>1. up(p) /\ Step(p.to, g, {p})
    BY <1>2 DEF Deliver
  <2>2. p.to \in Addr /\ p.from \in Addr /\ Fit(g, p.to)
    BY <2>1, RecvFit
  <2> HIDE DEF g
  <2>3. /\ hosts' \in [Addr -> Host] /\ \A m \in Addr : Fit(hosts'[m], m)
        /\ net' \subseteq InFlight /\ \A q \in net' : AsAssumed(q.msg, q.from)
    BY <2>1, <2>2, StepFit
  <2>4. links' = links /\ todo' = todo /\ rerr_records' \subseteq Addr
    BY <1>2, <2>2 DEF Deliver, NetInv
  <2> QED BY <2>3, <2>4 DEF NetInv
<1>3. ASSUME NEW p \in net, Fail(p) PROVE NetInv'
  <2> DEFINE h == hosts[p.from]
             o == IF p.msg.src = p.from THEN "own" ELSE "transit"
             v == oldest(h)[1]
             vo == oldest(h)[2]
             g == packetFailed(h, p.msg.dest, o, p.to, v, vo)
  <2>1. p.from \in Addr /\ p.msg \in Message /\ o \in Origin
    BY DEF NetInv, InFlight, Origin
  <2>2. Fit(h, p.from)
    BY <2>1 DEF NetInv
  <2>3. v \in Addr /\ vo \in Origin /\ Room(h, v, vo)
    BY <2>2, OldestType DEF Fit
  <2>4. links' = links /\ todo' = todo /\ rerr_records' = rerr_records
    BY <1>3 DEF Fail
  <2>5. CASE llfeedback /\ p.msg.type = "DATA"
    <3>1. p.msg.dest \in Addr
      BY <2>1, <2>5, MessageKind
    <3>2. Fit(g, p.from)
      <4> HIDE DEF v, vo, h, o
      <4> QED BY <2>1, <2>2, <2>3, <3>1, PacketFailedFit
    <3>3. Step(p.from, g, {p})
      BY <1>3, <2>5 DEF Fail
    <3> HIDE DEF g
    <3>4. /\ hosts' \in [Addr -> Host] /\ \A m \in Addr : Fit(hosts'[m], m)
          /\ net' \subseteq InFlight /\ \A q \in net' : AsAssumed(q.msg, q.from)
      BY <2>1, <3>2, <3>3, StepFit
    <3> QED BY <2>4, <3>4 DEF NetInv
  <2>6. CASE ~(llfeedback /\ p.msg.type = "DATA")
    <3>1. net' = net \ {p} /\ hosts' = hosts
      BY <1>3, <2>6 DEF Fail
    <3> QED BY <2>4, <3>1 DEF NetInv
  <2> QED BY <2>5, <2>6
<1>4. ASSUME NEW pair \in Breakable, Break(pair) PROVE NetInv'
  BY <1>4 DEF Break, NetInv
<1>5. ASSUME NEW n \in Addr, NEW d \in Addr, SeekTimeout(n, d) PROVE NetInv'
  <2> DEFINE g == route_discovery_timeout(hosts[n], d)
  <2>1. Fit(hosts[n], n) /\ hosts[n].seek[d].on /\ Step(n, g, {})
    BY <1>5 DEF NetInv, SeekTimeout
  <2>2. Fit(g, n)
    BY <2>1, SeekTimeoutFit
  <2> HIDE DEF g
  <2>3. /\ hosts' \in [Addr -> Host] /\ \A m \in Addr : Fit(hosts'[m], m)
        /\ net' \subseteq InFlight /\ \A q \in net' : AsAssumed(q.msg, q.from)
    BY <2>1, <2>2, StepFit
  <2> QED BY <1>5, <2>3 DEF SeekTimeout, NetInv
<1>6. ASSUME NEW n \in Addr, NEW d \in Addr, RouteTimeout(n, d) PROVE NetInv'
  <2> DEFINE h == hosts[n]
             g == IF h.rt[d].handler = "expire" THEN route_expire_timeout(h, d)
                  ELSE route_delete_timeout(h, d)
  <2>1. Fit(h, n) /\ Step(n, g, {})
    BY <1>6 DEF NetInv, RouteTimeout
  <2>2. Fit(g, n)
    <3> HIDE DEF h
    <3> QED BY <2>1, RouteExpireFit, DeleteFit DEF route_delete_timeout
  <2> HIDE DEF g
  <2>3. /\ hosts' \in [Addr -> Host] /\ \A m \in Addr : Fit(hosts'[m], m)
        /\ net' \subseteq InFlight /\ \A q \in net' : AsAssumed(q.msg, q.from)
    BY <2>1, <2>2, StepFit
  <2> QED BY <1>6, <2>3 DEF RouteTimeout, NetInv
<1>7. ASSUME NEW a \in rerr_records, RerrRecordTimeout(a) PROVE NetInv'
  BY <1>7 DEF RerrRecordTimeout, NetInv
<1>8. CASE UNCHANGED vars
  BY <1>8 DEF vars, NetInv
<1> QED BY <1>1, <1>2, <1>3, <1>4, <1>5, <1>6, <1>7, <1>8 DEF Next

\* The inductive invariant holds in every reachable state.
THEOREM NetInvariance == Spec => []NetInv
BY InitNetInv, NetInvStep, PTL DEF Spec

\* Whatever the nodes send each other, each of them stays consistent in the sense
\* of AodvNode: the table's timers fit its states, a destination is sought only
\* without a usable route, packets wait only for a discovery, and the queue is
\* counted right and within its limit.
THEOREM NodesConsistent == Spec => [](\A n \in Addr : Good(hosts[n], n))
<1>1. NetInv => \A n \in Addr : Good(hosts[n], n)
  BY DEF NetInv, Fit
<1> QED BY <1>1, NetInvariance, PTL

\* What a node takes for granted of the messages that arrive is what nodes send.
THEOREM MessagesAssumed == Spec => []MessagesAsAssumed
<1>1. NetInv => MessagesAsAssumed
  BY DEF NetInv, MessagesAsAssumed
<1> QED BY <1>1, NetInvariance, PTL
=============================================================================
