------------------------- MODULE AodvControl_proofs -------------------------
(***************************************************************************)
(* Lemmas about the operations of RoutingTable and AodvControl, for every  *)
(* set of addresses and combination of options.                            *)
(*                                                                         *)
(* Good says of the host of a node that every route entry is consistent    *)
(* (RouteOK), that entry, seek list and packet queue agree on every        *)
(* destination (Unsought, Awaited), and that the queue is counted right    *)
(* and bounded (Counted).  Every operation preserves it, one lemma each.   *)
(***************************************************************************)
EXTENDS AodvControl, TLAPS, FiniteSetTheorems, WellFoundedInduction

\* No route is under repair, and the timer of a route fits its state.
RouteOK(e) ==
  /\ e.state = "invalid" => e.armed /\ e.handler = "delete"
  /\ e.state = "valid" => e.handler = "expire"
  /\ "REPAIR" \notin e.flags

\* A destination is sought only without a usable route, and packets are
\* buffered for it only while it is sought.
Unsought(e, s) == s.on /\ e.state = "valid" => e.hcnt = 1 /\ "UNIDIR" \in e.flags
Awaited(s, q) == q["own"] + q["transit"] > 0 => s.on

\* The length of the queue is the number of its packets, within the limit.
Counted(q, n) ==
  /\ IsFiniteSet(Queued(q))
  /\ n = Cardinality(Queued(q))
  /\ n <= MAX_QUEUE_LENGTH

\* The host of the node with the address me.
Good(h, me) ==
  /\ h \in Host
  /\ h.ipaddr = me
  /\ Counted(h.queue, h.pqlen)
  /\ \A d \in Addr : RouteOK(h.rt[d])
  /\ \A d \in Addr : Unsought(h.rt[d], h.seek[d])
  /\ \A d \in Addr : Awaited(h.seek[d], h.queue[d])

\* Entry f is as good as e for a node that seeks the destination: it is usable
\* only if e was.
Replaces(f, e) ==
  /\ f \in Entry
  /\ RouteOK(f)
  /\ f.state = "valid" =>
       /\ e.state = "valid"
       /\ f.hcnt = e.hcnt
       /\ "UNIDIR" \in e.flags => "UNIDIR" \in f.flags

---------------------------------------------------------------------------
(* Values *)

\* seqno_incr stays within the width of a sequence number.
LEMMA SeqnoIncrType ==
  ASSUME NEW s \in Seqno PROVE seqno_incr(s) \in Seqno
BY WidthAssumption DEF Seqno, seqno_incr

\* The unsigned counters of the table stay within their width.
LEMMA PlusType ==
  ASSUME NEW c \in 0 .. CounterMod - 1, NEW k \in Int PROVE plus(c, k) \in 0 .. CounterMod - 1
BY WidthAssumption DEF plus

\* An empty bucket is a consistent entry.
LEMMA NoEntryType == NoEntry \in Entry /\ RouteOK(NoEntry)
BY WidthAssumption DEF NoEntry, Entry, Handler, Seqno, RouteOK

\* The value of an address that is not sought is a seek-list entry.
LEMMA NoSeekType == NoSeek \in Seek
BY WidthAssumption, LimitAssumption DEF NoSeek, Seek, Seqno

\* An invalidated entry has its deletion timer running.
LEMMA InvalidatedType ==
  ASSUME NEW e \in Entry, RouteOK(e)
  PROVE  invalidated(e) \in Entry /\ RouteOK(invalidated(e))
         /\ invalidated(e).state = "invalid"
<1>1. invalidated(e) \in Entry
  BY SeqnoIncrType DEF invalidated, Entry, Handler
<1>2. RouteOK(invalidated(e)) /\ invalidated(e).state = "invalid"
  BY DEF invalidated, Entry, RouteOK
<1> QED BY <1>1, <1>2

\* A nonempty set of addresses has a least and a greatest element.
LEMMA LeastExists ==
  ASSUME NEW S, S \subseteq Nat, S # {} PROVE least(S) \in S
<1> DEFINE R == OpToRel(<, Nat)
<1>1. IsWellFoundedOn(R, Nat)
  BY NatLessThanWellFounded
<1>2. \A x, y \in Nat : <<y, x>> \in R <=> y < x
  BY DEF OpToRel
<1> HIDE DEF R
<1>3. PICK x \in S : \A y \in S : ~(<<y, x>> \in R)
  BY <1>1, WFMin
<1>4. ASSUME NEW y \in S PROVE x <= y
  <2>1. x \in Nat /\ y \in Nat
    BY <1>3
  <2>2. ~(y < x)
    BY <2>1, <1>2, <1>3
  <2> QED BY <2>1, <2>2
<1> QED BY <1>4 DEF least

---------------------------------------------------------------------------
(* Updates of the host record *)

\* What Good says of each field of the host.
LEMMA HostFields ==
  ASSUME NEW me, NEW h, Good(h, me)
  PROVE  /\ h.ipaddr = me /\ me \in Addr
         /\ h.rt \in [Addr -> Entry]
         /\ h.seqno \in Seqno
         /\ h.rreq_id \in 0 .. CounterMod - 1
         /\ h.num_active \in 0 .. CounterMod - 1
         /\ h.num_entries \in 0 .. CounterMod - 1
         /\ h.seek \in [Addr -> Seek]
         /\ h.queue \in [Addr -> [Origin -> Nat]]
         /\ h.pqlen \in Int
         /\ h.channelNum \in Channel \cup {NoChannel}
         /\ h.records \subseteq Record
         /\ h.blacklist \subseteq Addr
         /\ h.wait_on_reboot \in BOOLEAN
         /\ h.out \subseteq Packet
         /\ \A d \in Addr : h.rt[d] \in Entry /\ RouteOK(h.rt[d])
BY DEF Good, Host

\* The types of the fields of a table entry.
LEMMA EntryFields ==
  ASSUME NEW e \in Entry
  PROVE  /\ e.state \in {"none", "invalid", "valid"}
         /\ e.next \in Addr \cup {0}
         /\ e.hcnt \in Nat
         /\ e.seqno \in Seqno
         /\ e.channel \in Channel \cup {NoChannel}
         /\ e.cost \in Int
         /\ e.flags \subseteq Flag
         /\ e.hello_cnt \in Nat
         /\ e.prec \subseteq Addr
BY DEF Entry

\* Sending a packet of the right type changes nothing else.
LEMMA SetOut ==
  ASSUME NEW me, NEW h, Good(h, me), NEW P, P \subseteq Packet
  PROVE  Good([h EXCEPT !.out = P], me)
BY DEF Good, Host

\* Setting channelNum, as the senders of RREPs and HELLO acks do, is harmless.
LEMMA SetChannel ==
  ASSUME NEW me, NEW h, Good(h, me), NEW c \in Channel \cup {NoChannel}
  PROVE  Good([h EXCEPT !.channelNum = c], me)
BY DEF Good, Host

\* Changing the host's own sequence number is harmless.
LEMMA SetSeqno ==
  ASSUME NEW me, NEW h, Good(h, me), NEW s \in Seqno
  PROVE  Good([h EXCEPT !.seqno = s], me)
BY DEF Good, Host

\* A table in which every entry is replaced harmlessly keeps the host Good.
LEMMA SetTable ==
  ASSUME NEW me, NEW h, Good(h, me), NEW t \in [Addr -> Entry],
         \A d \in Addr : Replaces(t[d], h.rt[d]),
         NEW n \in 0 .. CounterMod - 1, NEW k \in 0 .. CounterMod - 1
  PROVE  Good([h EXCEPT !.rt = t, !.num_active = n, !.num_entries = k], me)
<1> DEFINE g == [h EXCEPT !.rt = t, !.num_active = n, !.num_entries = k]
<1>1. /\ g \in Host /\ g.ipaddr = me /\ g.rt = t /\ g.seek = h.seek /\ g.queue = h.queue
      /\ g.pqlen = h.pqlen
  BY DEF Good, Host
<1>2. \A d \in Addr : RouteOK(t[d]) /\ Unsought(t[d], h.seek[d])
  BY DEF Good, Replaces, Unsought
<1>3. Good(g, me)
  <2> HIDE DEF g
  <2> QED BY <1>1, <1>2 DEF Good
<1> QED BY <1>3

\* The same for one entry.
LEMMA SetEntry ==
  ASSUME NEW me, NEW h, Good(h, me), NEW d \in Addr, NEW e, Replaces(e, h.rt[d])
  PROVE  Good([h EXCEPT !.rt[d] = e], me)
<1> DEFINE g == [h EXCEPT !.rt[d] = e]
<1>1. /\ g \in Host /\ g.ipaddr = me /\ g.seek = h.seek /\ g.queue = h.queue
      /\ g.rt = [h.rt EXCEPT ![d] = e] /\ g.pqlen = h.pqlen
  BY DEF Good, Host, Replaces
<1>2. \A u \in Addr : RouteOK(g.rt[u]) /\ Unsought(g.rt[u], g.seek[u])
  BY <1>1 DEF Good, Replaces, Unsought, Host
<1>3. Good(g, me)
  <2> HIDE DEF g
  <2> QED BY <1>1, <1>2 DEF Good
<1> QED BY <1>3

\* The fields of an entry that do not decide whether it is usable.
LEMMA FieldReplaces ==
  ASSUME NEW e \in Entry, RouteOK(e), NEW b \in BOOLEAN, NEW P \in SUBSET Addr,
         NEW k \in Nat
  PROVE  /\ Replaces([e EXCEPT !.armed = TRUE], e)
         /\ Replaces([e EXCEPT !.hello = b], e)
         /\ Replaces([e EXCEPT !.ack = b], e)
         /\ Replaces([e EXCEPT !.hello_cnt = k], e)
         /\ Replaces([e EXCEPT !.prec = P], e)
         /\ Replaces([e EXCEPT !.flags = e.flags \cup {"UNIDIR"}], e)
<1>1. Replaces([e EXCEPT !.armed = TRUE], e)
  BY DEF Replaces, Entry, RouteOK
<1>2. Replaces([e EXCEPT !.hello = b], e)
  BY DEF Replaces, Entry, RouteOK
<1>3. Replaces([e EXCEPT !.ack = b], e)
  BY DEF Replaces, Entry, RouteOK
<1>4. Replaces([e EXCEPT !.hello_cnt = k], e)
  BY DEF Replaces, Entry, RouteOK
<1>5. Replaces([e EXCEPT !.prec = P], e)
  BY DEF Replaces, Entry, RouteOK
<1>6. Replaces([e EXCEPT !.flags = e.flags \cup {"UNIDIR"}], e)
  BY DEF Replaces, Entry, RouteOK, Flag
<1> QED BY <1>1, <1>2, <1>3, <1>4, <1>5, <1>6

\* The same on the host, in the form the operations use.
LEMMA SetField ==
  ASSUME NEW me, NEW h, Good(h, me), NEW d \in Addr, NEW b \in BOOLEAN,
         NEW P \in SUBSET Addr, NEW k \in Nat
  PROVE  /\ Good([h EXCEPT !.rt[d].armed = TRUE], me)
         /\ Good([h EXCEPT !.rt[d].hello = b], me)
         /\ Good([h EXCEPT !.rt[d].ack = b], me)
         /\ Good([h EXCEPT !.rt[d].hello_cnt = k], me)
         /\ Good([h EXCEPT !.rt[d].prec = P], me)
         /\ Good([h EXCEPT !.rt[d].flags = h.rt[d].flags \cup {"UNIDIR"}], me)
<1> DEFINE e == h.rt[d]
<1>0. e \in Entry /\ RouteOK(e)
  BY HostFields
<1>1. Good([h EXCEPT !.rt[d] = [e EXCEPT !.armed = TRUE]], me)
  BY <1>0, FieldReplaces, SetEntry
<1>2. Good([h EXCEPT !.rt[d] = [e EXCEPT !.hello = b]], me)
  BY <1>0, FieldReplaces, SetEntry
<1>3. Good([h EXCEPT !.rt[d] = [e EXCEPT !.ack = b]], me)
  BY <1>0, FieldReplaces, SetEntry
<1>4. Good([h EXCEPT !.rt[d] = [e EXCEPT !.hello_cnt = k]], me)
  BY <1>0, FieldReplaces, SetEntry
<1>5. Good([h EXCEPT !.rt[d] = [e EXCEPT !.prec = P]], me)
  BY <1>0, FieldReplaces, SetEntry
<1>6. Good([h EXCEPT !.rt[d] = [e EXCEPT !.flags = e.flags \cup {"UNIDIR"}]], me)
  BY <1>0, FieldReplaces, SetEntry
<1>7. h \in Host
  BY DEF Good
<1> QED BY <1>1, <1>2, <1>3, <1>4, <1>5, <1>6, <1>7 DEF Host

\* An entry that is not changed is a harmless replacement.
LEMMA ReplacesSelf ==
  ASSUME NEW e \in Entry, RouteOK(e) PROVE Replaces(e, e)
BY DEF Replaces

---------------------------------------------------------------------------
(* RoutingTable: sending *)

\* sendPacket keeps the host Good.
LEMMA SendPacketGood ==
  ASSUME NEW me, NEW h, Good(h, me), NEW dst \in Addr \cup {0, Bcast}, NEW ttl \in Nat,
         NEW m \in Message
  PROVE  Good(sendPacket(h, dst, ttl, m), me)
<1> DEFINE p == [dst |-> dst, ttl |-> ttl, msg |-> m,
                 ch |-> IF dst = Bcast THEN AllChannels ELSE h.channelNum]
<1>1. p \in Packet
  BY HostFields DEF Packet
<1>2. h.out \cup {p} \subseteq Packet
  BY <1>1, HostFields
<1> HIDE DEF p
<1>3. Good([h EXCEPT !.out = h.out \cup {p}], me)
  BY <1>2, SetOut
<1> QED BY <1>3 DEF sendPacket, p

\* aodv_socket_send keeps the host Good, whether or not it sends.
LEMMA SocketSendGood ==
  ASSUME NEW me, NEW h, Good(h, me), NEW dst \in Addr \cup {0, Bcast}, NEW ttl \in Nat,
         NEW m \in Message
  PROVE  Good(aodv_socket_send(h, dst, ttl, m), me)
BY SendPacketGood DEF aodv_socket_send

\* The destination of a RERR is an address or the broadcast address.
LEMMA RerrDstType ==
  ASSUME NEW h, NEW D, NEW prec
  PROVE  RerrDst(h, D, prec) \in Addr \cup {0, Bcast}
<1>1. CASE \E p \in Addr \ {0} : /\ present(h, p)
                                 /\ \E u \in D : D = {u} /\ prec[u] = {p}
  <2>1. \E p \in Addr \ {0} : \E u \in D : prec[u] = {p}
    BY <1>1
  <2>2. (CHOOSE p \in Addr \ {0} : \E u \in D : prec[u] = {p}) \in Addr \ {0}
    BY <2>1
  <2> QED BY <1>1, <2>2 DEF RerrDst
<1> QED BY <1>1 DEF RerrDst

\* Sending a RERR about entries of the table keeps the host Good.
LEMMA SendRerrGood ==
  ASSUME NEW me, NEW h, Good(h, me), NEW D \in SUBSET Addr, NEW first, D # {} => first \in Addr,
         NEW prec, NEW n \in BOOLEAN
  PROVE  Good(sendRerr(h, first, D, prec, n), me)
<1>1. CASE D # {}
  <2>1. Rerr(h, first, D, n) \in RERR
    <3>1. \A u \in D : h.rt[u].seqno \in Seqno
      BY HostFields, EntryFields
    <3> QED BY <1>1, <3>1 DEF Rerr, RERR, Udest
  <2>2. Rerr(h, first, D, n) \in Message
    BY <2>1 DEF Message
  <2> QED BY <1>1, <2>2, SocketSendGood, RerrDstType DEF sendRerr
<1> QED BY <1>1 DEF sendRerr

---------------------------------------------------------------------------
(* RoutingTable: timeouts, invalidation, deletion *)

\* rt_table_update_timeout only arms a timer.
LEMMA UpdateTimeoutGood ==
  ASSUME NEW me, NEW h, Good(h, me), NEW d PROVE Good(rt_table_update_timeout(h, d), me)
BY SetField DEF rt_table_update_timeout, present

\* Adding and removing precursors keeps the host Good.
LEMMA PrecursorGood ==
  ASSUME NEW me, NEW h, Good(h, me), NEW d, NEW a
  PROVE  Good(precursor_add(h, d, a), me) /\ Good(precursor_list_destroy(h, d), me)
<1>1. d \in Addr => h.rt[d].prec \subseteq Addr
  BY HostFields, EntryFields
<1>2. Good(precursor_add(h, d, a), me)
  <2>1. CASE present(h, d) /\ a \in Addr
    <3>1. h.rt[d].prec \cup {a} \in SUBSET Addr /\ d \in Addr
      BY <1>1, <2>1 DEF present
    <3>2. Good([h EXCEPT !.rt[d].prec = h.rt[d].prec \cup {a}], me)
      BY <3>1, SetField
    <3> QED BY <2>1, <3>2 DEF precursor_add
  <2> QED BY <2>1 DEF precursor_add
<1>3. Good(precursor_list_destroy(h, d), me)
  BY SetField DEF precursor_list_destroy, present
<1> QED BY <1>2, <1>3

\* rt_table_invalidate leaves an entry that will be deleted.
LEMMA InvalidateGood ==
  ASSUME NEW me, NEW h, Good(h, me), NEW d PROVE Good(rt_table_invalidate(h, d), me)
<1>1. CASE valid(h, d)
  <2> DEFINE t == [h.rt EXCEPT ![d] = invalidated(h.rt[d])]
             n == plus(h.num_active, -1)
  <2>1. d \in Addr /\ h \in Host
    BY <1>1 DEF valid, Good
  <2>2. t \in [Addr -> Entry] /\ \A u \in Addr : Replaces(t[u], h.rt[u])
    BY <2>1, HostFields, InvalidatedType DEF Replaces
  <2>3. n \in 0 .. CounterMod - 1
    BY HostFields, PlusType
  <2>4. Good([h EXCEPT !.rt = t, !.num_active = n, !.num_entries = h.num_entries], me)
    <3> HIDE DEF t, n
    <3> QED BY <2>2, <2>3, HostFields, SetTable
  <2> QED BY <1>1, <2>1, <2>4 DEF rt_table_invalidate, Host
<1> QED BY <1>1 DEF rt_table_invalidate

\* rt_table_delete makes no route usable.
LEMMA DeleteGood ==
  ASSUME NEW me, NEW h, Good(h, me), NEW d PROVE Good(rt_table_delete(h, d), me)
<1>1. CASE present(h, d)
  <2> DEFINE t == [h.rt EXCEPT ![d] = NoEntry]
             n == IF valid(h, d) THEN plus(h.num_active, -1) ELSE h.num_active
             en == plus(h.num_entries, -1)
  <2>1. d \in Addr /\ h \in Host
    BY <1>1 DEF present, Good
  <2>2. t \in [Addr -> Entry] /\ \A u \in Addr : Replaces(t[u], h.rt[u])
    <3>1. NoEntry.state = "none"
      BY DEF NoEntry
    <3> QED BY <2>1, <3>1, HostFields, NoEntryType DEF Replaces
  <2>3. n \in 0 .. CounterMod - 1 /\ en \in 0 .. CounterMod - 1
    <3>1. plus(h.num_active, -1) \in 0 .. CounterMod - 1
      BY HostFields, PlusType
    <3>2. plus(h.num_entries, -1) \in 0 .. CounterMod - 1
      BY HostFields, PlusType
    <3> QED BY <3>1, <3>2, HostFields
  <2>4. Good([h EXCEPT !.rt = t, !.num_active = n, !.num_entries = en], me)
    <3> HIDE DEF t, n, en
    <3> QED BY <2>2, <2>3, SetTable
  <2> QED BY <1>1, <2>1, <2>4 DEF rt_table_delete, Host
<1> QED BY <1>1 DEF rt_table_delete

\* The neighbour and every route through it are replaced by INVALID entries.
LEMMA LinkBreakGood ==
  ASSUME NEW me, NEW h, Good(h, me), NEW d PROVE Good(neighbor_link_break(h, d), me)
<1>1. CASE present(h, d) /\ h.rt[d].hcnt = 1
  <2> DEFINE rep   == "REPAIR" \in h.rt[d].flags
             users == {u \in Addr \ {d} : valid(h, u) /\ h.rt[u].next = d}
             kept  == {u \in users : rep /\ h.rt[u].hcnt <= MAX_REPAIR_TTL}
             lost  == (users \ kept) \cup (IF rep THEN {} ELSE {d})
             told  == {u \in lost : h.rt[u].prec # {}}
             prec  == [u \in Addr |-> h.rt[u].prec]
             broken(u) ==
               LET e == h.rt[u]
                   m == IF u \in kept THEN [e EXCEPT !.flags = @ \cup {"REPAIR"}] ELSE e
                   i == IF e.state = "valid" THEN invalidated(m) ELSE m
               IN  IF u \in lost THEN [i EXCEPT !.prec = {}] ELSE i
             t == [u \in Addr |-> IF u \in users \cup {d} THEN broken(u) ELSE h.rt[u]]
             n == plus(h.num_active, -Cardinality({u \in users \cup {d} : valid(h, u)}))
             h1 == [h EXCEPT !.rt = t, !.num_active = n]
  <2>1. d \in Addr /\ h \in Host
    BY <1>1 DEF present, Good
  <2>2. ~rep /\ kept = {}
    BY <2>1, HostFields DEF RouteOK
  <2>3. told \in SUBSET Addr
    BY <2>1
  <2>4. \A u \in Addr : Replaces(t[u], h.rt[u])
    <3> SUFFICES ASSUME NEW u \in Addr PROVE Replaces(t[u], h.rt[u])
      OBVIOUS
    <3> DEFINE e == h.rt[u]
               i == IF e.state = "valid" THEN invalidated(e) ELSE e
    <3>1. e \in Entry /\ RouteOK(e)
      BY HostFields
    <3>2. i \in Entry /\ RouteOK(i) /\ Replaces(i, e)
      BY <3>1, InvalidatedType DEF Replaces
    <3>3. Replaces([i EXCEPT !.prec = {}], i)
      <4> HIDE DEF i
      <4> QED BY <3>2, FieldReplaces
    <3>4. Replaces([i EXCEPT !.prec = {}], e)
      <4> HIDE DEF i, e
      <4> QED BY <3>2, <3>3 DEF Replaces
    <3>5. broken(u) = IF u \in lost THEN [i EXCEPT !.prec = {}] ELSE i
      BY <2>2
    <3>6. Replaces(e, e)
      BY <3>1, ReplacesSelf
    <3> HIDE DEF i, broken, lost, users
    <3> QED BY <3>2, <3>4, <3>5, <3>6
  <2>5. t \in [Addr -> Entry]
    BY <2>4 DEF Replaces
  <2>6. n \in 0 .. CounterMod - 1
    <3> DEFINE V == {u \in users \cup {d} : valid(h, u)}
    <3>1. V \subseteq Addr /\ IsFiniteSet(Addr)
      BY <2>1, AddrAssumption
    <3>2. Cardinality(V) \in Nat
      BY <3>1, FS_Subset, FS_CardinalityType
    <3> HIDE DEF V
    <3>3. plus(h.num_active, -Cardinality(V)) \in 0 .. CounterMod - 1
      BY <3>2, HostFields, PlusType
    <3> QED BY <3>3 DEF V
  <2>7. Good(h1, me)
    <3> HIDE DEF t, n
    <3>1. Good([h EXCEPT !.rt = t, !.num_active = n, !.num_entries = h.num_entries], me)
      BY <2>4, <2>5, <2>6, HostFields, SetTable
    <3> QED BY <2>1, <3>1 DEF Host
  <2>8. told # {} => (IF d \in told THEN d ELSE least(told)) \in Addr
    <3> HIDE DEF told
    <3> QED BY <2>1, <2>3, LeastExists, AddrAssumption
  <2>9. Good(sendRerr(h1, IF d \in told THEN d ELSE least(told), told, prec, FALSE), me)
    <3> HIDE DEF h1, told, prec
    <3> QED BY <2>3, <2>7, <2>8, SendRerrGood
  <2> QED BY <1>1, <2>9 DEF neighbor_link_break
<1> QED BY <1>1 DEF neighbor_link_break

---------------------------------------------------------------------------
(* The number of packets in the queue *)

Queue == [Addr -> [Origin -> Nat]]

\* A packet in the queue has a destination, an origin and a position.
LEMMA QueuedElements ==
  ASSUME NEW q
  PROVE  \A x : x \in Queued(q) <=>
           \E d \in Addr, o \in Origin : \E i \in 1 .. q[d][o] : x = <<d, o, i>>
<1> SUFFICES ASSUME NEW x
             PROVE  x \in Queued(q) <=>
                      \E d \in Addr, o \in Origin : \E i \in 1 .. q[d][o] : x = <<d, o, i>>
  OBVIOUS
<1> DEFINE Of(d, o) == {<<d, o, i>> : i \in 1 .. q[d][o]}
<1>1. x \in Queued(q) <=> \E S \in {Of(d, o) : d \in Addr, o \in Origin} : x \in S
  BY DEF Queued
<1>2. (\E S \in {Of(d, o) : d \in Addr, o \in Origin} : x \in S)
        <=> \E d \in Addr, o \in Origin : x \in Of(d, o)
  <2> HIDE DEF Of
  <2> QED OBVIOUS
<1>3. \A d, o : x \in Of(d, o) <=> \E i \in 1 .. q[d][o] : x = <<d, o, i>>
  OBVIOUS
<1> HIDE DEF Of
<1> QED BY <1>1, <1>2, <1>3

\* Disjoint sets have as many elements as the two together.
LEMMA DisjointUnion ==
  ASSUME NEW S, NEW T, IsFiniteSet(S), IsFiniteSet(T), S \cap T = {}
  PROVE  /\ IsFiniteSet(S \cup T)
         /\ Cardinality(S \cup T) = Cardinality(S) + Cardinality(T)
<1>1. /\ IsFiniteSet(S \cup T)
      /\ Cardinality(S \cup T) = Cardinality(S) + Cardinality(T) - Cardinality(S \cap T)
  BY FS_Union
<1>2. Cardinality(S \cap T) = 0
  BY FS_EmptySet
<1>3. Cardinality(S) \in Nat /\ Cardinality(T) \in Nat
  BY FS_CardinalityType
<1> QED BY <1>1, <1>2, <1>3

\* A packet more.
LEMMA OneMore ==
  ASSUME NEW q \in Queue, NEW d \in Addr, NEW o \in Origin, NEW n, Counted(q, n),
         n < MAX_QUEUE_LENGTH
  PROVE  Counted([q EXCEPT ![d][o] = q[d][o] + 1], n + 1)
<1> DEFINE k == q[d][o] + 1
           r == [q EXCEPT ![d][o] = k]
           x == <<d, o, k>>
<1>1. q[d][o] \in Nat /\ \A u \in Addr, w \in Origin : q[u][w] \in Nat
  BY DEF Queue
<1>2. /\ r[d][o] = k
      /\ \A u \in Addr, w \in Origin : <<u, w>> # <<d, o>> => r[u][w] = q[u][w]
  BY DEF Queue
<1> HIDE DEF r
<1>3. x \notin Queued(q)
  BY <1>1, QueuedElements
<1>4. Queued(r) = Queued(q) \cup {x}
  <2>1. ASSUME NEW y \in Queued(r) PROVE y \in Queued(q) \cup {x}
    <3>1. PICK u \in Addr, w \in Origin : \E j \in 1 .. r[u][w] : y = <<u, w, j>>
      BY <2>1, QueuedElements
    <3>2. PICK i \in 1 .. r[u][w] : y = <<u, w, i>>
      BY <3>1
    <3>3. CASE <<u, w>> = <<d, o>>
      <4>1. i \in 1 .. q[d][o] \/ i = k
        BY <1>1, <1>2, <3>2, <3>3
      <4> QED BY <3>2, <3>3, <4>1, QueuedElements
    <3>4. CASE <<u, w>> # <<d, o>>
      BY <1>2, <3>2, <3>4, QueuedElements
    <3> QED BY <3>3, <3>4
  <2>2. ASSUME NEW y \in Queued(q) PROVE y \in Queued(r)
    <3>1. PICK u \in Addr, w \in Origin : \E j \in 1 .. q[u][w] : y = <<u, w, j>>
      BY <2>2, QueuedElements
    <3>2. PICK i \in 1 .. q[u][w] : y = <<u, w, i>>
      BY <3>1
    <3>3. i \in 1 .. r[u][w]
      BY <1>1, <1>2, <3>2
    <3> QED BY <3>2, <3>3, QueuedElements
  <2>3. x \in Queued(r)
    <3>1. k \in 1 .. r[d][o]
      BY <1>1, <1>2
    <3> QED BY <3>1, QueuedElements
  <2> QED BY <2>1, <2>2, <2>3
<1>5. IsFiniteSet(Queued(r)) /\ Cardinality(Queued(r)) = n + 1
  BY <1>3, <1>4, FS_AddElement DEF Counted
<1>6. n \in Nat
  BY FS_CardinalityType DEF Counted
<1> HIDE DEF k
<1>7. Counted(r, n + 1)
  BY <1>5, <1>6, LimitAssumption DEF Counted
<1> QED BY <1>7 DEF r, k

\* A packet less.
LEMMA OneLess ==
  ASSUME NEW q \in Queue, NEW d \in Addr, NEW o \in Origin, NEW n, Counted(q, n),
         q[d][o] > 0
  PROVE  Counted([q EXCEPT ![d][o] = q[d][o] - 1], n - 1)
<1> DEFINE k == q[d][o]
           r == [q EXCEPT ![d][o] = k - 1]
           x == <<d, o, k>>
<1>1. k \in Nat /\ \A u \in Addr, w \in Origin : q[u][w] \in Nat
  BY DEF Queue
<1>2. /\ r[d][o] = k - 1
      /\ \A u \in Addr, w \in Origin : <<u, w>> # <<d, o>> => r[u][w] = q[u][w]
  BY DEF Queue
<1> HIDE DEF r
<1>3. x \in Queued(q)
  <2>1. k \in 1 .. q[d][o]
    BY <1>1
  <2> QED BY <2>1, QueuedElements
<1>4. Queued(r) = Queued(q) \ {x}
  <2>1. ASSUME NEW y \in Queued(r) PROVE y \in Queued(q) /\ y # x
    <3>1. PICK u \in Addr, w \in Origin : \E j \in 1 .. r[u][w] : y = <<u, w, j>>
      BY <2>1, QueuedElements
    <3>2. PICK i \in 1 .. r[u][w] : y = <<u, w, i>>
      BY <3>1
    <3>3. CASE <<u, w>> = <<d, o>>
      <4>1. i \in 1 .. q[d][o] /\ i # k
        BY <1>1, <1>2, <3>2, <3>3
      <4> QED BY <3>2, <3>3, <4>1, QueuedElements
    <3>4. CASE <<u, w>> # <<d, o>>
      BY <1>2, <3>2, <3>4, QueuedElements
    <3> QED BY <3>3, <3>4
  <2>2. ASSUME NEW y \in Queued(q), y # x PROVE y \in Queued(r)
    <3>1. PICK u \in Addr, w \in Origin : \E j \in 1 .. q[u][w] : y = <<u, w, j>>
      BY <2>2, QueuedElements
    <3>2. PICK i \in 1 .. q[u][w] : y = <<u, w, i>>
      BY <3>1
    <3>3. i \in 1 .. r[u][w]
      BY <1>1, <1>2, <2>2, <3>2
    <3> QED BY <3>2, <3>3, QueuedElements
  <2> QED BY <2>1, <2>2
<1>5. IsFiniteSet(Queued(r)) /\ Cardinality(Queued(r)) = n - 1
  <2>1. IsFiniteSet(Queued(q)) /\ n = Cardinality(Queued(q))
    BY DEF Counted
  <2>2. /\ IsFiniteSet(Queued(q) \ {x})
        /\ Cardinality(Queued(q) \ {x})
             = IF x \in Queued(q) THEN Cardinality(Queued(q)) - 1 ELSE Cardinality(Queued(q))
    BY <2>1, FS_RemoveElement
  <2> HIDE DEF x
  <2> QED BY <1>3, <1>4, <2>1, <2>2
<1>6. n \in Nat
  BY FS_CardinalityType DEF Counted
<1> HIDE DEF k
<1>7. Counted(r, n - 1)
  BY <1>5, <1>6, LimitAssumption DEF Counted
<1> QED BY <1>7 DEF r, k

\* The packets of one destination and origin are as many as the queue says.
LEMMA OfOrigin ==
  ASSUME NEW d, NEW o, NEW k \in Nat, NEW A,
         \A y : y \in A <=> \E i \in 1 .. k : y = <<d, o, i>>
  PROVE  IsFiniteSet(A) /\ Cardinality(A) = k
<1> DEFINE f == [i \in 1 .. k |-> <<d, o, i>>]
<1>1. f \in Bijection(1 .. k, A)
  BY DEF Bijection, Injection, Surjection, IsInjective
<1>2. ExistsBijection(1 .. k, A)
  <2> HIDE DEF f
  <2> QED BY <1>1 DEF ExistsBijection
<1>3. IsFiniteSet(1 .. k) /\ Cardinality(1 .. k) = k
  <2>1. IsFiniteSet(1 .. k) /\ Cardinality(1 .. k) = IF 1 > k THEN 0 ELSE k - 1 + 1
    BY FS_Interval
  <2> QED BY <2>1
<1> QED BY <1>2, <1>3, FS_Bijection


\* All packets of a destination leave.
LEMMA NoneLeft ==
  ASSUME NEW q \in Queue, NEW d \in Addr, NEW n, Counted(q, n)
  PROVE  Counted([q EXCEPT ![d] = [o \in Origin |-> 0]], n - (q[d]["own"] + q[d]["transit"]))
<1> DEFINE a == q[d]["own"]
           b == q[d]["transit"]
           r == [q EXCEPT ![d] = [o \in Origin |-> 0]]
           A == {<<d, "own", i>> : i \in 1 .. a}
           B == {<<d, "transit", i>> : i \in 1 .. b}
<1>1. a \in Nat /\ b \in Nat /\ \A u \in Addr, w \in Origin : q[u][w] \in Nat
  BY DEF Queue, Origin
<1>2. /\ \A w \in Origin : r[d][w] = 0
      /\ \A u \in Addr \ {d}, w \in Origin : r[u][w] = q[u][w]
  BY DEF Queue
<1> HIDE DEF r
<1>3. Queued(q) = Queued(r) \cup (A \cup B)
  <2>1. ASSUME NEW y \in Queued(q) PROVE y \in Queued(r) \cup (A \cup B)
    <3>1. PICK u \in Addr, w \in Origin : \E j \in 1 .. q[u][w] : y = <<u, w, j>>
      BY <2>1, QueuedElements
    <3>2. PICK i \in 1 .. q[u][w] : y = <<u, w, i>>
      BY <3>1
    <3>3. CASE u = d
      BY <3>2, <3>3 DEF Origin
    <3>4. CASE u # d
      BY <1>2, <3>2, <3>4, QueuedElements
    <3> QED BY <3>3, <3>4
  <2>2. ASSUME NEW y \in Queued(r) PROVE y \in Queued(q)
    <3>1. PICK u \in Addr, w \in Origin : \E j \in 1 .. r[u][w] : y = <<u, w, j>>
      BY <2>2, QueuedElements
    <3>2. PICK i \in 1 .. r[u][w] : y = <<u, w, i>>
      BY <3>1
    <3>3. u # d
      BY <1>2, <3>2
    <3> QED BY <1>2, <3>2, <3>3, QueuedElements
  <2>3. ASSUME NEW y \in A \cup B PROVE y \in Queued(q)
    BY <2>3, QueuedElements DEF Origin
  <2> QED BY <2>1, <2>2, <2>3
<1>4. A \cap B = {} /\ Queued(r) \cap (A \cup B) = {}
  <2>1. \A y \in Queued(r) : y \notin A /\ y \notin B
    <3> SUFFICES ASSUME NEW y \in Queued(r) PROVE y \notin A /\ y \notin B
      OBVIOUS
    <3>1. PICK u \in Addr, w \in Origin : \E j \in 1 .. r[u][w] : y = <<u, w, j>>
      BY QueuedElements
    <3>2. PICK i \in 1 .. r[u][w] : y = <<u, w, i>>
      BY <3>1
    <3>3. u # d
      BY <1>2, <3>2
    <3> QED BY <3>2, <3>3
  <2> QED BY <2>1
<1>5. IsFiniteSet(A) /\ Cardinality(A) = a /\ IsFiniteSet(B) /\ Cardinality(B) = b
  <2> DEFINE OfA == A
             OfB == B
  <2>1. \A y : y \in OfA <=> \E i \in 1 .. a : y = <<d, "own", i>>
    OBVIOUS
  <2>2. \A y : y \in OfB <=> \E i \in 1 .. b : y = <<d, "transit", i>>
    OBVIOUS
  <2> HIDE DEF OfA, OfB, A, B, a, b
  <2>3. IsFiniteSet(OfA) /\ Cardinality(OfA) = a
    BY <1>1, <2>1, OfOrigin
  <2>4. IsFiniteSet(OfB) /\ Cardinality(OfB) = b
    BY <1>1, <2>2, OfOrigin, ZenonT(60)
  <2> QED BY <2>3, <2>4 DEF OfA, OfB
<1> HIDE DEF A, B
<1>6. IsFiniteSet(A \cup B) /\ Cardinality(A \cup B) = a + b
  BY <1>4, <1>5, DisjointUnion
<1>7. IsFiniteSet(Queued(r))
  BY <1>3, FS_Subset DEF Counted
<1>8. n = Cardinality(Queued(r)) + (a + b)
  BY <1>3, <1>4, <1>6, <1>7, DisjointUnion DEF Counted
<1>9. Cardinality(Queued(r)) \in Nat
  BY <1>7, FS_CardinalityType
<1> HIDE DEF a, b
<1>10. Counted(r, n - (a + b))
  BY <1>1, <1>7, <1>8, <1>9, LimitAssumption DEF Counted
<1> QED BY <1>10 DEF r, a, b

---------------------------------------------------------------------------
(* RoutingTable: buffered packets *)

\* Good but for the one destination whose route has just become usable and
\* whose discovery is therefore about to end.
GoodButFor(h, d, me) ==
  /\ h \in Host
  /\ h.ipaddr = me
  /\ Counted(h.queue, h.pqlen)
  /\ \A u \in Addr : RouteOK(h.rt[u])
  /\ \A u \in Addr \ {d} : Unsought(h.rt[u], h.seek[u])
  /\ \A u \in Addr : Awaited(h.seek[u], h.queue[u])

\* pq_send after seek_list_remove, and pq_drop before it.
LEMMA ClearedGood ==
  ASSUME NEW me, NEW h, NEW d \in Addr, GoodButFor(h, d, me)
  PROVE  Good([cleared(h, d) EXCEPT !.seek[d] = NoSeek], me)
<1> DEFINE q == [o \in Origin |-> 0]
           g == [cleared(h, d) EXCEPT !.seek[d] = NoSeek]
           len == h.pqlen - buffered(h, d)
<1>1. h \in Host
  BY DEF GoodButFor
<1>2. q \in [Origin -> Nat] /\ q["own"] + q["transit"] = 0
  BY DEF Origin
<1>3. len \in Int
  BY <1>1 DEF buffered, Host, Origin
<1>4. g = [h EXCEPT !.queue[d] = q, !.pqlen = len, !.seek[d] = NoSeek]
  BY <1>1 DEF cleared, Host
<1>5. /\ g \in Host /\ g.ipaddr = h.ipaddr /\ g.rt = h.rt
      /\ g.seek = [h.seek EXCEPT ![d] = NoSeek]
      /\ g.queue = [h.queue EXCEPT ![d] = q] /\ g.pqlen = len
  <2> HIDE DEF g, q, len
  <2> QED BY <1>1, <1>2, <1>3, <1>4, NoSeekType, ZenonT(60) DEF Host
<1>6. \A u \in Addr : Unsought(g.rt[u], g.seek[u]) /\ Awaited(g.seek[u], g.queue[u])
  <2> SUFFICES ASSUME NEW u \in Addr
               PROVE  Unsought(g.rt[u], g.seek[u]) /\ Awaited(g.seek[u], g.queue[u])
    OBVIOUS
  <2> HIDE DEF g, q
  <2>1. CASE u = d
    <3>1. g.seek[u] = NoSeek /\ g.queue[u] = q
      BY <1>1, <1>5, <2>1 DEF Host
    <3>2. NoSeek.on = FALSE
      BY DEF NoSeek
    <3> QED BY <1>2, <3>1, <3>2 DEF Unsought, Awaited
  <2>2. CASE u # d
    <3>1. g.seek[u] = h.seek[u] /\ g.queue[u] = h.queue[u]
      BY <1>1, <1>5, <2>2 DEF Host
    <3> QED BY <1>5, <2>2, <3>1 DEF GoodButFor
  <2> QED BY <2>1, <2>2
<1>7. Counted(g.queue, g.pqlen)
  <2>1. h.queue \in Queue /\ Counted(h.queue, h.pqlen)
    BY <1>1 DEF GoodButFor, Host, Queue
  <2>2. Counted([h.queue EXCEPT ![d] = q], len)
    BY <2>1, NoneLeft DEF buffered
  <2> HIDE DEF g, q, len
  <2> QED BY <1>5, <2>2
<1>8. Good(g, me)
  <2> HIDE DEF g
  <2> QED BY <1>5, <1>6, <1>7 DEF Good, GoodButFor
<1> QED BY <1>8

\* A data packet is a message.
LEMMA DataType ==
  ASSUME NEW src \in Addr, NEW dest \in Addr
  PROVE  [type |-> "DATA", src |-> src, dest |-> dest] \in Message
BY DEF Message, DATA

\* A discovery that ends because its destination became usable.
LEMMA SeekFoundGood ==
  ASSUME NEW me, NEW h, NEW d \in Addr, GoodButFor(h, d, me)
  PROVE  Good(seek_found(h, d), me)
<1>0. h \in Host
  BY DEF GoodButFor
<1>1. CASE ~h.seek[d].on
  <2>1. Unsought(h.rt[d], h.seek[d])
    BY <1>1 DEF Unsought
  <2>2. Good(h, me)
    BY <2>1 DEF Good, GoodButFor
  <2> QED BY <1>1, <2>2 DEF seek_found
<1>2. CASE h.seek[d].on
  <2> DEFINE h0 == [h EXCEPT !.seek[d] = NoSeek]
             nh == h0.rt[d].next
             h1 == cleared(h0, d)
             h2 == IF h0.queue[d]["own"] = 0 THEN h1
                   ELSE sendPacket(h1, nh, MAXTTL,
                          [type |-> "DATA", src |-> h0.ipaddr, dest |-> d])
             h3 == IF valid(h2, d) THEN rt_table_update_timeout(h2, d) ELSE h2
             h4 == IF valid(h3, d) /\ valid(h3, nh) /\ nh # d
                   THEN rt_table_update_timeout(h3, nh) ELSE h3
  <2>1. h1 = [cleared(h, d) EXCEPT !.seek[d] = NoSeek]
    BY <1>0 DEF cleared, buffered, Host
  <2>2. Good(h1, me)
    <3> HIDE DEF h1
    <3> QED BY <2>1, ClearedGood
  <2>3. nh \in Addr \cup {0, Bcast} /\ h0.ipaddr \in Addr
    <3>1. h0.rt = h.rt /\ h0.ipaddr = h.ipaddr /\ h.rt[d] \in Entry
      BY <1>0 DEF Host
    <3> QED BY <1>0, <3>1, EntryFields DEF Host
  <2>4. Good(h2, me)
    <3> HIDE DEF h0, h1, nh
    <3>1. MAXTTL \in Nat
      BY DEF MAXTTL
    <3> QED BY <2>2, <2>3, <3>1, SendPacketGood, DataType
  <2>5. Good(h3, me)
    <3> HIDE DEF h2
    <3> QED BY <2>4, UpdateTimeoutGood
  <2>6. Good(h4, me)
    <3> HIDE DEF h3, nh
    <3> QED BY <2>5, UpdateTimeoutGood
  <2>7. seek_found(h, d) = h4
    BY <1>2 DEF seek_found, pq_send
  <2> HIDE DEF h4
  <2> QED BY <2>6, <2>7
<1> QED BY <1>1, <1>2

\* There is room in the queue, or a packet to drop.
Room(h, v, vo) == h.pqlen >= MAX_QUEUE_LENGTH => h.queue[v][vo] > 0

\* packet_queue_add changes only the queue, and by packets that were there.
LEMMA QueueAddType ==
  ASSUME NEW h \in Host, NEW d \in Addr, NEW o \in Origin, NEW v \in Addr, NEW vo \in Origin
  PROVE  LET g == packet_queue_add(h, d, o, v, vo)
         IN  /\ g \in Host /\ g.ipaddr = h.ipaddr /\ g.rt = h.rt /\ g.seek = h.seek
             /\ \A u \in Addr \ {d} : g.queue[u]["own"] + g.queue[u]["transit"]
                                        <= h.queue[u]["own"] + h.queue[u]["transit"]
             /\ Counted(h.queue, h.pqlen) /\ Room(h, v, vo) => Counted(g.queue, g.pqlen)
<1> DEFINE full == h.pqlen >= MAX_QUEUE_LENGTH /\ h.queue[v][vo] > 0
           q1 == IF full THEN [h.queue EXCEPT ![v][vo] = h.queue[v][vo] - 1] ELSE h.queue
           n1 == IF full THEN h.pqlen - 1 ELSE h.pqlen
           q2 == [q1 EXCEPT ![d][o] = q1[d][o] + 1]
           g == [h EXCEPT !.queue = q2, !.pqlen = n1 + 1]
<1>1. /\ h.queue \in [Addr -> [Origin -> Nat]] /\ h.pqlen \in Int
  BY DEF Host
<1>2. q1 \in [Addr -> [Origin -> Nat]] /\ n1 \in Int
  BY <1>1
<1>3. q2 \in [Addr -> [Origin -> Nat]] /\ n1 + 1 \in Int
  <2> HIDE DEF q1, n1
  <2> QED BY <1>2
<1>4. packet_queue_add(h, d, o, v, vo) = g
  BY <1>1, ZenonT(60) DEF packet_queue_add, Host
<1>5. \A u \in Addr : q1[u]["own"] + q1[u]["transit"]
                        <= h.queue[u]["own"] + h.queue[u]["transit"]
  <2> SUFFICES ASSUME NEW u \in Addr
               PROVE  q1[u]["own"] + q1[u]["transit"]
                        <= h.queue[u]["own"] + h.queue[u]["transit"]
    OBVIOUS
  <2>1. \A w \in Origin : q1[u][w] <= h.queue[u][w] /\ q1[u][w] \in Nat /\ h.queue[u][w] \in Nat
    BY <1>1, <1>2
  <2> HIDE DEF q1
  <2> QED BY <2>1 DEF Origin
<1>6. \A u \in Addr \ {d} : q2[u] = q1[u]
  <2> HIDE DEF q1
  <2> QED BY <1>2
<1>7. /\ g \in Host /\ g.ipaddr = h.ipaddr /\ g.rt = h.rt /\ g.seek = h.seek
      /\ g.queue = q2 /\ g.pqlen = n1 + 1
  <2> HIDE DEF q2, n1
  <2> QED BY <1>3 DEF Host
<1>9. ASSUME Counted(h.queue, h.pqlen), Room(h, v, vo) PROVE Counted(q2, n1 + 1)
  <2>1. h.pqlen <= MAX_QUEUE_LENGTH
    BY <1>9 DEF Counted
  <2>2. Counted(q1, n1) /\ n1 < MAX_QUEUE_LENGTH
    <3>1. CASE full
      <4>1. h.queue \in Queue /\ h.queue[v][vo] > 0
        BY <1>1, <3>1 DEF Queue
      <4>2. Counted([h.queue EXCEPT ![v][vo] = h.queue[v][vo] - 1], h.pqlen - 1)
        BY <1>9, <4>1, OneLess
      <4>3. h.pqlen - 1 < MAX_QUEUE_LENGTH
        BY <1>1, <2>1, LimitAssumption
      <4> QED BY <3>1, <4>2, <4>3
    <3>2. CASE ~full
      <4>1. h.pqlen < MAX_QUEUE_LENGTH
        BY <1>1, <1>9, <3>2, LimitAssumption DEF Room
      <4> QED BY <1>9, <3>2, <4>1
    <3> QED BY <3>1, <3>2
  <2>3. q1 \in Queue
    BY <1>2 DEF Queue
  <2> HIDE DEF q1, n1
  <2> QED BY <2>2, <2>3, OneMore
<1> HIDE DEF q1, q2, n1, g
<1>8. \A u \in Addr \ {d} : q2[u]["own"] + q2[u]["transit"]
                              <= h.queue[u]["own"] + h.queue[u]["transit"]
  BY <1>5, <1>6
<1> QED BY <1>4, <1>7, <1>8, <1>9

\* A packet may join the queue of a destination that is being sought.
LEMMA QueueAddGood ==
  ASSUME NEW me, NEW h, Good(h, me), NEW d \in Addr, NEW o \in Origin, NEW v \in Addr,
         NEW vo \in Origin, h.seek[d].on, Room(h, v, vo)
  PROVE  Good(packet_queue_add(h, d, o, v, vo), me)
<1>1. h \in Host
  BY DEF Good
<1> DEFINE g == packet_queue_add(h, d, o, v, vo)
           q == g.queue
<1>2. /\ g \in Host /\ g.ipaddr = h.ipaddr /\ g.rt = h.rt /\ g.seek = h.seek
      /\ \A u \in Addr \ {d} : q[u]["own"] + q[u]["transit"]
                                 <= h.queue[u]["own"] + h.queue[u]["transit"]
      /\ Counted(q, g.pqlen)
  BY <1>1, QueueAddType DEF Good
<1> HIDE DEF g
<1>3. q \in [Addr -> [Origin -> Nat]]
  BY <1>2 DEF Host
<1>4. \A u \in Addr : Awaited(h.seek[u], q[u])
  <2> SUFFICES ASSUME NEW u \in Addr PROVE Awaited(h.seek[u], q[u])
    OBVIOUS
  <2>1. CASE u = d
    BY <2>1 DEF Awaited
  <2>2. CASE u # d
    <3>1. /\ q[u]["own"] + q[u]["transit"] \in Nat
          /\ h.queue[u]["own"] + h.queue[u]["transit"] \in Nat
      BY <1>1, <1>3 DEF Host, Origin
    <3> HIDE DEF q
    <3> QED BY <1>2, <2>2, <3>1 DEF Awaited, Good
  <2> QED BY <2>1, <2>2
<1>5. Good(g, me)
  BY <1>2, <1>4 DEF Good
<1> QED BY <1>5 DEF g

---------------------------------------------------------------------------
(* RoutingTable: insertion and update *)

NoRepair == SUBSET {"UNIDIR"}

\* Flags taken over from a consistent entry do not ask for repair.
LEMMA NoRepairFlags ==
  ASSUME NEW e \in Entry, RouteOK(e) PROVE e.flags \in NoRepair
BY DEF Entry, RouteOK, NoRepair, Flag

\* A new entry for d, whatever it is, leaves the other destinations alone.
LEMMA SetAnyEntry ==
  ASSUME NEW me, NEW h, Good(h, me), NEW d \in Addr, NEW e \in Entry, RouteOK(e),
         NEW n \in 0 .. CounterMod - 1, NEW k \in 0 .. CounterMod - 1
  PROVE  /\ GoodButFor([h EXCEPT !.rt[d] = e, !.num_entries = k, !.num_active = n], d, me)
         /\ e.state # "valid"
              => Good([h EXCEPT !.rt[d] = e, !.num_entries = k, !.num_active = n], me)
<1> DEFINE g == [h EXCEPT !.rt[d] = e, !.num_entries = k, !.num_active = n]
<1>1. /\ g \in Host /\ g.ipaddr = me /\ g.seek = h.seek /\ g.queue = h.queue
      /\ g.rt = [h.rt EXCEPT ![d] = e] /\ g.pqlen = h.pqlen
  BY DEF Good, Host
<1> HIDE DEF g
<1>2. \A u \in Addr : RouteOK(g.rt[u])
  BY <1>1 DEF Good, Host
<1>3. \A u \in Addr \ {d} : Unsought(g.rt[u], g.seek[u])
  BY <1>1 DEF Good, Host
<1>4. e.state # "valid" => Unsought(g.rt[d], g.seek[d])
  BY <1>1 DEF Good, Host, Unsought
<1>5. GoodButFor(g, d, me)
  BY <1>1, <1>2, <1>3 DEF Good, GoodButFor
<1>6. e.state # "valid" => Good(g, me)
  BY <1>4, <1>5 DEF Good, GoodButFor
<1> QED BY <1>5, <1>6 DEF g

\* Either insertion ends the discovery of a route it makes valid.
LEMMA InsertEntryGood ==
  ASSUME NEW me, NEW h, Good(h, me), NEW d \in Addr, NEW next \in Addr, NEW hops \in Nat,
         NEW seqno \in Seqno, NEW life, NEW state \in {"valid", "invalid"},
         NEW flags \in NoRepair, NEW channel \in Channel \cup {NoChannel}, NEW cost \in Int
  PROVE  Good(insert_entry(h, d, next, hops, seqno, life, state, flags, channel, cost), me)
<1> DEFINE new == NewEntry(next, hops, seqno, flags, channel, cost)
           e   == IF state = "valid" THEN [new EXCEPT !.armed = (life # 0)]
                  ELSE [new EXCEPT !.state = "invalid", !.armed = TRUE,
                          !.handler = IF "REPAIR" \in flags THEN "repair" ELSE "delete"]
           k   == plus(h.num_entries, 1)
           n   == IF state = "valid" THEN plus(h.num_active, 1) ELSE h.num_active
           h1  == [h EXCEPT !.rt[d] = e, !.num_entries = k, !.num_active = n]
<1>1. new \in Entry /\ new.state = "valid" /\ new.handler = "expire" /\ "REPAIR" \notin new.flags
  BY DEF NewEntry, Entry, Handler, NoRepair, Flag
<1>2. e \in Entry /\ RouteOK(e) /\ e.state = state
  <2>1. CASE state = "valid"
    <3>1. e = [new EXCEPT !.armed = (life # 0)] /\ (life # 0) \in BOOLEAN
      BY <2>1
    <3> HIDE DEF e, new
    <3> QED BY <1>1, <2>1, <3>1 DEF Entry, RouteOK
  <2>2. CASE state = "invalid"
    <3>1. e = [new EXCEPT !.state = "invalid", !.armed = TRUE, !.handler = "delete"]
      BY <2>2 DEF NoRepair
    <3> HIDE DEF e, new
    <3> QED BY <1>1, <2>2, <3>1 DEF Entry, RouteOK, Handler
  <2> QED BY <2>1, <2>2
<1>3. k \in 0 .. CounterMod - 1
  BY HostFields, PlusType
<1>4. n \in 0 .. CounterMod - 1
  <2>1. plus(h.num_active, 1) \in 0 .. CounterMod - 1
    BY HostFields, PlusType
  <2> QED BY <2>1, HostFields
<1> HIDE DEF e, k, n
<1>5. GoodButFor(h1, d, me) /\ (state # "valid" => Good(h1, me))
  BY <1>2, <1>3, <1>4, SetAnyEntry
<1> HIDE DEF h1
<1>6. Good(IF state = "valid" THEN seek_found(h1, d) ELSE h1, me)
  BY <1>5, SeekFoundGood
<1> QED BY <1>6 DEF insert_entry, h1, e, k, n

\* The insertion that refuses the host's own address.
LEMMA InsertGood ==
  ASSUME NEW me, NEW h, Good(h, me), NEW d \in Addr, NEW next \in Addr, NEW hops \in Nat,
         NEW seqno \in Seqno, NEW life, NEW state \in {"valid", "invalid"},
         NEW flags \in NoRepair, NEW channel \in Channel \cup {NoChannel}, NEW cost \in Int
  PROVE  Good(rt_table_insert_with_channel(h, d, next, hops, seqno, life, state, flags,
                                           channel, cost), me)
BY InsertEntryGood DEF rt_table_insert_with_channel

\* Changing num_active within its width is harmless.
LEMMA SetCounter ==
  ASSUME NEW me, NEW h, Good(h, me), NEW n \in 0 .. CounterMod - 1
  PROVE  Good([h EXCEPT !.num_active = n], me)
BY DEF Good, Host

\* The link break inside an update keeps the host Good.
LEMMA NoLongerNeighborGood ==
  ASSUME NEW me, NEW h, Good(h, me), NEW d \in Addr, NEW hops
  PROVE  Good(no_longer_neighbor(h, d, hops), me)
<1> DEFINE g == [h EXCEPT !.rt[d].hello_cnt = 0]
           g1 == [g EXCEPT !.rt[d].hello = FALSE]
<1>1. Good(g, me)
  BY SetField
<1>2. Good(g1, me)
  <2> HIDE DEF g
  <2> QED BY <1>1, SetField
<1>3. Good(neighbor_link_break(g1, d), me)
  <2> HIDE DEF g1
  <2> QED BY <1>2, LinkBreakGood
<1>4. g1 = [h EXCEPT !.rt[d].hello_cnt = 0, !.rt[d].hello = FALSE]
  BY DEF Good, Host
<1> QED BY <1>3, <1>4 DEF no_longer_neighbor

\* rt_table_update_with_channel ends the discovery of the route it makes valid.
LEMMA UpdateGood ==
  ASSUME NEW me, NEW h, Good(h, me), NEW d \in Addr, NEW next \in Addr, NEW hops \in Nat,
         NEW seqno \in Seqno, NEW flags \in NoRepair,
         NEW channel \in Channel \cup {NoChannel}, NEW cost \in Int
  PROVE  Good(rt_table_update_with_channel(h, d, next, hops, seqno, flags, channel, cost), me)
<1> DEFINE revived == invalid(h, d)
           f  == IF revived /\ "REPAIR" \in h.rt[d].flags THEN flags \ {"REPAIR"} ELSE flags
           h1 == IF revived THEN [h EXCEPT !.num_active = plus(@, 1)] ELSE h
           h2 == no_longer_neighbor(h1, d, hops)
           e  == [h2.rt[d] EXCEPT !.flags = f, !.seqno = seqno, !.next = next, !.hcnt = hops,
                         !.channel = channel, !.cost = cost, !.handler = "expire",
                         !.armed = TRUE, !.state = "valid"]
           h3 == [h2 EXCEPT !.rt[d] = e]
<1>1. Good(h1, me)
  <2>1. plus(h.num_active, 1) \in 0 .. CounterMod - 1
    BY HostFields, PlusType
  <2> QED BY <2>1, SetCounter
<1>2. Good(h2, me)
  <2> HIDE DEF h1
  <2> QED BY <1>1, NoLongerNeighborGood
<1>3. f \in NoRepair
  BY DEF NoRepair
<1> HIDE DEF h2, f
<1>4. e \in Entry /\ RouteOK(e)
  <2>1. h2.rt[d] \in Entry
    BY <1>2, HostFields
  <2> QED BY <1>3, <2>1 DEF Entry, RouteOK, NoRepair, Flag, Handler
<1>5. h2 \in Host
  BY <1>2 DEF Good
<1>6. GoodButFor(h3, d, me)
  <2> HIDE DEF e
  <2>1. GoodButFor([h2 EXCEPT !.rt[d] = e, !.num_entries = h2.num_entries,
                              !.num_active = h2.num_active], d, me)
    BY <1>2, <1>4, HostFields, SetAnyEntry
  <2> QED BY <1>5, <2>1 DEF Host
<1>7. Good(seek_found(h3, d), me)
  <2> HIDE DEF h3
  <2> QED BY <1>6, SeekFoundGood
<1> QED BY <1>7 DEF rt_table_update_with_channel, h2, f

\* neighbor_add, by insertion or update, keeps the host Good.
LEMMA NeighborAddGood ==
  ASSUME NEW me, NEW h, Good(h, me), NEW src \in Addr PROVE Good(neighbor_add(h, src), me)
<1>1. 0 \in Seqno /\ {} \in NoRepair /\ DefaultCost \in Int
  BY WidthAssumption DEF Seqno, NoRepair, DefaultCost
<1>2. Good(rt_table_insert(h, src, src, 1, 0, 1, "valid", {}), me)
  BY <1>1, InsertEntryGood DEF rt_table_insert
<1>3. Good(rt_table_update(h, src, src, 1, h.rt[src].seqno, h.rt[src].flags), me)
  <2>1. h.rt[src] \in Entry /\ RouteOK(h.rt[src])
    BY HostFields
  <2> QED BY <2>1, EntryFields, NoRepairFlags, UpdateGood DEF rt_table_update
<1> QED BY <1>2, <1>3 DEF neighbor_add

\* Renewing one route for a data packet keeps the host Good.
LEMMA RenewRouteGood ==
  ASSUME NEW me, NEW h, Good(h, me), NEW d, NEW ll PROVE Good(RenewRoute(h, d, ll), me)
<1> DEFINE e == h.rt[d]
           h1 == IF ll \/ e.hcnt # 1 \/ e.hello THEN rt_table_update_timeout(h, d) ELSE h
           h2 == IF valid(h1, e.next) /\ e.next # d /\ (ll \/ e.hello)
                 THEN rt_table_update_timeout(h1, e.next) ELSE h1
<1>1. Good(h1, me)
  BY UpdateTimeoutGood
<1>2. Good(h2, me)
  <2> HIDE DEF h1
  <2> QED BY <1>1, UpdateTimeoutGood
<1> QED BY <1>2 DEF RenewRoute

\* Renewing routes leaves the packet queue alone.
LEMMA RenewKeepsQueue ==
  ASSUME NEW h \in Host, NEW dest, NEW src, NEW ll
  PROVE  LET g == rt_table_update_route_timeouts(h, dest, src, ll)
         IN  g.queue = h.queue /\ g.pqlen = h.pqlen
<1>1. \A x, d : /\ rt_table_update_timeout(x, d).queue = x.queue
                /\ rt_table_update_timeout(x, d).pqlen = x.pqlen
  BY DEF rt_table_update_timeout
<1>2. \A x, d : RenewRoute(x, d, ll).queue = x.queue /\ RenewRoute(x, d, ll).pqlen = x.pqlen
  BY <1>1 DEF RenewRoute
<1> QED BY <1>2 DEF rt_table_update_route_timeouts

\* rt_table_update_route_timeouts keeps the host Good.
LEMMA UpdateRouteTimeoutsGood ==
  ASSUME NEW me, NEW h, Good(h, me), NEW dest, NEW src, NEW ll
  PROVE  Good(rt_table_update_route_timeouts(h, dest, src, ll), me)
BY RenewRouteGood DEF rt_table_update_route_timeouts

---------------------------------------------------------------------------
(* AodvControl: route discovery *)

\* The RREQs of a flood are packets of the right type.
LEMMA FloodType ==
  ASSUME NEW h \in Host, NEW d \in Addr, NEW s \in Seqno, NEW ttl \in Nat, NEW g \in BOOLEAN
  PROVE  LET f == rreq_flood(h, d, s, ttl, g)
         IN  /\ f \in Host /\ f.ipaddr = h.ipaddr /\ f.rt = h.rt /\ f.seek = h.seek
             /\ f.queue = h.queue /\ f.pqlen = h.pqlen
<1> DEFINE rreq(i) ==
             [type |-> "RREQ", id |-> i, dest |-> d, dest_seqno |-> s,
              orig |-> h.ipaddr, orig_seqno |-> (h.seqno + 1) % SeqnoMod,
              hcnt |-> 0, g |-> g \/ rreq_gratuitous, cost |-> 0]
           P == h.out \cup {[dst |-> Bcast, ttl |-> ttl, ch |-> AllChannels,
                             msg |-> rreq(plus(h.rreq_id, c))] : c \in Channel}
           n == plus(h.rreq_id, Channel_Count)
           f == [h EXCEPT !.rreq_id = n, !.channelNum = Channel_Count - 1, !.out = P]
<1>0. /\ h.ipaddr \in Addr /\ h.seqno \in Seqno /\ h.rreq_id \in 0 .. CounterMod - 1
      /\ h.out \subseteq Packet
  BY DEF Host
<1>1. (h.seqno + 1) % SeqnoMod \in Seqno
  <2>1. h.seqno + 1 \in Nat
    BY <1>0, WidthAssumption DEF Seqno
  <2> QED BY <2>1, WidthAssumption DEF Seqno
<1>2. (g \/ rreq_gratuitous) \in BOOLEAN
  BY OptionAssumption
<1>3. \A c \in Channel : plus(h.rreq_id, c) \in 0 .. CounterMod - 1
  <2>1. \A c \in Channel : c \in Int
    BY ChannelAssumption DEF Channel
  <2> QED BY <1>0, <2>1, PlusType
<1>4. \A i \in 0 .. CounterMod - 1 : rreq(i) \in Message
  BY <1>0, <1>1, <1>2 DEF Message, RREQ
<1>5. P \subseteq Packet
  <2> HIDE DEF rreq
  <2> QED BY <1>0, <1>3, <1>4 DEF Packet
<1>6. n \in 0 .. CounterMod - 1
  BY <1>0, PlusType, ChannelAssumption
<1>7. Channel_Count - 1 \in Channel
  BY ChannelAssumption DEF Channel
<1>8. /\ f \in Host /\ f.ipaddr = h.ipaddr /\ f.rt = h.rt /\ f.seek = h.seek
      /\ f.queue = h.queue /\ f.pqlen = h.pqlen
  <2> HIDE DEF n, P
  <2> QED BY <1>5, <1>6, <1>7 DEF Host
<1>9. rreq_flood(h, d, s, ttl, g) = f
  BY DEF rreq_flood
<1> HIDE DEF f
<1> QED BY <1>8, <1>9

\* A flood changes only counters and what is sent.
LEMMA FloodGood ==
  ASSUME NEW me, NEW h, Good(h, me), NEW d \in Addr, NEW s \in Seqno, NEW ttl \in Nat, NEW g \in BOOLEAN
  PROVE  Good(rreq_flood(h, d, s, ttl, g), me)
BY FloodType DEF Good

\* rt_table_update_timeout leaves state, hop count and flags alone.
LEMMA UpdateTimeoutType ==
  ASSUME NEW h \in Host, NEW d \in Addr, RouteOK(h.rt[d])
  PROVE  LET g == rt_table_update_timeout(h, d)
         IN  /\ g \in Host /\ g.ipaddr = h.ipaddr /\ g.seek = h.seek /\ g.queue = h.queue
             /\ g.pqlen = h.pqlen
             /\ Replaces(g.rt[d], h.rt[d])
             /\ \A u \in Addr \ {d} : g.rt[u] = h.rt[u]
<1> DEFINE e == [h.rt[d] EXCEPT !.armed = TRUE]
           g == [h EXCEPT !.rt[d] = e]
<1>1. h.rt[d] \in Entry
  BY DEF Host
<1>2. Replaces(e, h.rt[d]) /\ Replaces(h.rt[d], h.rt[d]) /\ e \in Entry
  BY <1>1, FieldReplaces, ReplacesSelf DEF Replaces
<1>3. /\ g \in Host /\ g.ipaddr = h.ipaddr /\ g.seek = h.seek /\ g.queue = h.queue
      /\ g.rt[d] = e /\ g.pqlen = h.pqlen
      /\ \A u \in Addr \ {d} : g.rt[u] = h.rt[u]
  <2> HIDE DEF e
  <2> QED BY <1>2 DEF Host
<1>4. rt_table_update_timeout(h, d) = IF present(h, d) THEN g ELSE h
  BY DEF rt_table_update_timeout, Host
<1> HIDE DEF g, e
<1> QED BY <1>2, <1>3, <1>4

\* A discovery may start for a destination without a usable route, and the
\* packet that started it is in the queue by then.
LEMMA StartSeek ==
  ASSUME NEW h, NEW d \in Addr, NEW s \in Seek, s.on, NEW q \in Seqno,
         h \in Host, Counted(h.queue, h.pqlen),
         \A u \in Addr : RouteOK(h.rt[u]),
         \A u \in Addr \ {d} : Unsought(h.rt[u], h.seek[u]) /\ Awaited(h.seek[u], h.queue[u]),
         Unsought(h.rt[d], s)
  PROVE  Good([h EXCEPT !.seqno = q, !.seek[d] = s], h.ipaddr)
<1> DEFINE g == [h EXCEPT !.seqno = q, !.seek[d] = s]
<1>1. /\ g \in Host /\ g.ipaddr = h.ipaddr /\ g.rt = h.rt /\ g.queue = h.queue
      /\ g.seek = [h.seek EXCEPT ![d] = s] /\ g.pqlen = h.pqlen
  BY DEF Host
<1>2. \A u \in Addr : g.seek[u] = IF u = d THEN s ELSE h.seek[u]
  BY <1>1 DEF Host
<1> HIDE DEF g
<1>3. \A u \in Addr : Unsought(g.rt[u], g.seek[u]) /\ Awaited(g.seek[u], g.queue[u])
  BY <1>1, <1>2 DEF Awaited
<1>4. Good(g, h.ipaddr)
  BY <1>1, <1>3 DEF Good
<1> QED BY <1>4 DEF g

\* The ttls the code uses are natural numbers.
LEMMA TtlType == RREQ_TTL \in Nat /\ RETRY_TTL \in Nat /\ MAXTTL \in Nat
BY LimitAssumption DEF RREQ_TTL, RETRY_TTL, MAXTTL

\* A packet of this host without a usable route is queued and its destination
\* sought.
LEMMA DiscoveryGood ==
  ASSUME NEW me, NEW h, Good(h, me), NEW d \in Addr, NEW v \in Addr, NEW vo \in Origin,
         NEW tcp \in BOOLEAN, Room(h, v, vo),
         valid(h, d) => h.rt[d].hcnt = 1 /\ "UNIDIR" \in h.rt[d].flags
  PROVE  Good(rreq_route_discovery(packet_queue_add(h, d, "own", v, vo), d, tcp), me)
<1> DEFINE g == packet_queue_add(h, d, "own", v, vo)
<1>0. "own" \in Origin /\ h \in Host
  BY DEF Origin, Good
<1>1. CASE h.seek[d].on
  <2>1. Good(g, me)
    BY <1>0, <1>1, QueueAddGood
  <2>2. g.seek = h.seek
    BY <1>0, QueueAddType
  <2> HIDE DEF g
  <2>3. rreq_route_discovery(g, d, tcp) = g
    BY <1>1, <2>2 DEF rreq_route_discovery
  <2> QED BY <2>1, <2>3 DEF g
<1>2. CASE ~h.seek[d].on
  <2>1. /\ g \in Host /\ g.ipaddr = h.ipaddr /\ g.rt = h.rt /\ g.seek = h.seek
        /\ \A u \in Addr \ {d} : g.queue[u]["own"] + g.queue[u]["transit"]
                                   <= h.queue[u]["own"] + h.queue[u]["transit"]
        /\ Counted(g.queue, g.pqlen)
    BY <1>0, QueueAddType DEF Good
  <2> HIDE DEF g
  <2> DEFINE q  == IF present(g, d) THEN g.rt[d].seqno ELSE 0
             s  == [on |-> TRUE, seqno |-> q, reqs |-> 0, g |-> tcp]
             x  == rt_table_update_timeout(g, d)
             f  == rreq_flood(x, d, q, RREQ_TTL, tcp)
  <2>2. q \in Seqno
    <3>1. g.rt[d].seqno \in Seqno
      BY <2>1, EntryFields DEF Host
    <3>2. 0 \in Seqno
      BY WidthAssumption DEF Seqno
    <3> QED BY <3>1, <3>2
  <2>3. s \in Seek /\ s.on
    <3> HIDE DEF q
    <3> QED BY <2>2, LimitAssumption DEF Seek
  <2>4. /\ x \in Host /\ x.ipaddr = g.ipaddr /\ x.seek = g.seek /\ x.queue = g.queue
        /\ x.pqlen = g.pqlen
        /\ Replaces(x.rt[d], g.rt[d])
        /\ \A u \in Addr \ {d} : x.rt[u] = g.rt[u]
    BY <2>1, UpdateTimeoutType DEF Good
  <2>5. /\ f \in Host /\ f.ipaddr = x.ipaddr /\ f.rt = x.rt /\ f.seek = x.seek
        /\ f.queue = x.queue /\ f.pqlen = x.pqlen
    <3> HIDE DEF x, q
    <3> QED BY <2>2, <2>4, TtlType, FloodType
  <2> HIDE DEF x, f
  <2>6. \A u \in Addr \ {d} : Unsought(f.rt[u], f.seek[u]) /\ RouteOK(f.rt[u])
    BY <2>1, <2>4, <2>5 DEF Good
  <2>7. \A u \in Addr \ {d} : Awaited(f.seek[u], f.queue[u])
    <3> SUFFICES ASSUME NEW u \in Addr \ {d} PROVE Awaited(g.seek[u], g.queue[u])
      BY <2>4, <2>5
    <3>1. /\ g.queue[u]["own"] + g.queue[u]["transit"] \in Nat
          /\ h.queue[u]["own"] + h.queue[u]["transit"] \in Nat
      BY <1>0, <2>1 DEF Host, Origin
    <3> QED BY <2>1, <3>1 DEF Awaited, Good
  <2>8. RouteOK(f.rt[d]) /\ Unsought(f.rt[d], s)
    <3> HIDE DEF s
    <3> QED BY <2>1, <2>4, <2>5 DEF Unsought, valid, Replaces
  <2>9. seqno_incr(f.seqno) \in Seqno
    BY <2>5, SeqnoIncrType DEF Host
  <2>10. Good([f EXCEPT !.seqno = seqno_incr(f.seqno), !.seek[d] = s], me)
    <3>1. f \in Host /\ f.ipaddr = me /\ Counted(f.queue, f.pqlen)
      BY <2>1, <2>4, <2>5 DEF Good
    <3>2. \A u \in Addr : RouteOK(f.rt[u])
      BY <2>6, <2>8
    <3>3. \A u \in Addr \ {d} : Unsought(f.rt[u], f.seek[u]) /\ Awaited(f.seek[u], f.queue[u])
      BY <2>6, <2>7
    <3>4. Unsought(f.rt[d], s)
      BY <2>8
    <3> DEFINE r == seqno_incr(f.seqno)
    <3>5. r \in Seqno
      BY <2>9
    <3> HIDE DEF s, r
    <3>6. Good([f EXCEPT !.seqno = r, !.seek[d] = s], f.ipaddr)
      BY <2>3, <3>1, <3>2, <3>3, <3>4, <3>5, StartSeek
    <3> QED BY <3>1, <3>6 DEF r
  <2>11. rreq_route_discovery(g, d, tcp)
           = [f EXCEPT !.seqno = seqno_incr(f.seqno), !.seek[d] = s]
    BY <1>2, <2>1 DEF rreq_route_discovery, f, x
  <2> HIDE DEF s, q
  <2> QED BY <2>10, <2>11 DEF g
<1> QED BY <1>1, <1>2

\* route_discovery_timeout drops the packets when it gives up.
LEMMA SeekTimeoutGood ==
  ASSUME NEW me, NEW h, Good(h, me), NEW d \in Addr PROVE Good(route_discovery_timeout(h, d), me)
<1>0. h \in Host /\ h.seek[d] \in Seek
  BY DEF Good, Host
<1>1. CASE h.seek[d].reqs < RREQ_RETRIES
  <2> DEFINE s == [h.seek[d] EXCEPT !.reqs = h.seek[d].reqs + 1]
             g == [h EXCEPT !.seek[d] = s]
  <2>1. s \in Seek /\ s.on = h.seek[d].on
    BY <1>0, <1>1, LimitAssumption DEF Seek
  <2>2. Good(g, me)
    <3> HIDE DEF s
    <3>1. /\ g \in Host /\ g.ipaddr = me /\ g.rt = h.rt /\ g.queue = h.queue
          /\ g.pqlen = h.pqlen
      BY <2>1 DEF Good, Host
    <3>2. \A u \in Addr : g.seek[u].on = h.seek[u].on
      BY <1>0, <2>1 DEF Host
    <3> HIDE DEF g
    <3> QED BY <3>1, <3>2 DEF Good, Unsought, Awaited
  <2>3. h.seek[d].seqno \in Seqno /\ h.seek[d].g \in BOOLEAN
    BY <1>0 DEF Seek
  <2>4. Good(rreq_flood(rt_table_update_timeout(g, d), d, h.seek[d].seqno, RETRY_TTL,
                        h.seek[d].g), me)
    <3> HIDE DEF g
    <3> QED BY <2>2, <2>3, UpdateTimeoutGood, FloodGood, TtlType
  <2>5. g = [h EXCEPT !.seek[d].reqs = h.seek[d].reqs + 1]
    BY <1>0 DEF Host
  <2> QED BY <1>1, <2>4, <2>5 DEF route_discovery_timeout
<1>2. CASE ~(h.seek[d].reqs < RREQ_RETRIES)
  <2>1. GoodButFor(h, d, me)
    BY DEF Good, GoodButFor
  <2> QED BY <1>2, <2>1, ClearedGood DEF route_discovery_timeout, pq_drop
<1> QED BY <1>1, <1>2

---------------------------------------------------------------------------
(* AodvControl: route replies *)

\* rrep_create_with_cost builds a RREP.
LEMMA RrepType ==
  ASSUME NEW hcnt \in Nat, NEW dest \in Addr, NEW seqno \in Seqno, NEW orig \in Addr,
         NEW life \in {0, 1}, NEW ext \in BOOLEAN, NEW cost \in Int
  PROVE  Rrep(hcnt, dest, seqno, orig, life, ext, cost) \in RREP
BY DEF Rrep, RREP

\* The RREP-ACK request with its link break keeps the host Good.
LEMMA RequestAckGood ==
  ASSUME NEW me, NEW h, Good(h, me), NEW rev \in Addr PROVE Good(request_ack(h, rev), me)
<1> DEFINE n == h.rt[rev].next
           g == [h EXCEPT !.rt[n].flags = h.rt[n].flags \cup {"UNIDIR"}]
           g1 == [g EXCEPT !.rt[n].hello = FALSE]
<1>1. CASE valid(h, n)
  <2>1. n \in Addr
    BY <1>1 DEF valid
  <2> HIDE DEF n
  <2>2. Good(g, me)
    BY <2>1, SetField
  <2>3. Good(g1, me)
    <3> HIDE DEF g
    <3> QED BY <2>1, <2>2, SetField
  <2>4. Good(neighbor_link_break(g1, n), me)
    <3> HIDE DEF g1
    <3> QED BY <2>3, LinkBreakGood
  <2>5. Good([neighbor_link_break(g1, n) EXCEPT !.rt[n].ack = TRUE], me)
    <3> HIDE DEF g1
    <3> QED BY <2>1, <2>4, SetField
  <2>6. g1 = [h EXCEPT !.rt[n].flags = h.rt[n].flags \cup {"UNIDIR"}, !.rt[n].hello = FALSE]
    BY DEF Good, Host
  <2> HIDE DEF g1
  <2> QED BY <2>5, <2>6 DEF request_ack, n
<1> QED BY <1>1 DEF request_ack

\* rrep_send_with_channel keeps the host Good, whatever the buffer holds.
LEMMA RrepSendGood ==
  ASSUME NEW me, NEW h, Good(h, me), NEW rrep \in RREP, NEW rev \in Addr, NEW fwd,
         NEW channel \in Channel \cup {NoChannel}
  PROVE  Good(rrep_send_with_channel(h, rrep, rev, fwd, channel), me)
<1> DEFINE h1    == request_ack(h, rev)
           nh    == h.rt[rev].next
           fresh == {p.msg : p \in h1.out \ h.out}
           buf   == IF fresh = {} THEN rrep ELSE CHOOSE m \in fresh : TRUE
           x     == [h1 EXCEPT !.channelNum = channel]
           h2    == aodv_socket_send(x, nh, MAXTTL, buf)
<1>1. Good(h1, me)
  BY RequestAckGood
<1>2. nh \in Addr \cup {0, Bcast}
  BY HostFields, EntryFields
<1>3. buf \in Message
  <2>1. fresh \subseteq Message
    BY <1>1, HostFields DEF Packet
  <2>2. rrep \in Message
    BY DEF Message
  <2> HIDE DEF fresh
  <2>3. fresh # {} => (CHOOSE m \in fresh : TRUE) \in fresh
    OBVIOUS
  <2> QED BY <2>1, <2>2, <2>3
<1>4. Good(x, me)
  <2> HIDE DEF h1
  <2> QED BY <1>1, SetChannel
<1>5. Good(h2, me)
  <2> HIDE DEF x, nh, buf
  <2> QED BY <1>2, <1>3, <1>4, TtlType, SocketSendGood
<1>6. Good(precursor_add(precursor_add(h2, fwd, nh), rev, h.rt[fwd].next), me)
  <2> HIDE DEF h2
  <2> QED BY <1>5, PrecursorGood
<1> HIDE DEF h2
<1> QED BY <1>5, <1>6 DEF rrep_send_with_channel, h2

\* rrep_forward keeps the host Good.
LEMMA RrepForwardGood ==
  ASSUME NEW me, NEW h, Good(h, me), NEW rrep \in RREP, NEW rev \in Addr, NEW fwd \in Addr
  PROVE  Good(rrep_forward(h, rrep, rev, fwd), me)
<1> DEFINE nh == h.rt[rev].next
           m  == [rrep EXCEPT !.hcnt = h.rt[fwd].hcnt]
           h1 == aodv_socket_send(h, nh, MAXTTL, m)
<1>1. nh \in Addr \cup {0, Bcast} /\ h.rt[fwd].hcnt \in Nat
  BY HostFields, EntryFields
<1>2. m \in Message
  <2>1. m \in RREP
    BY <1>1 DEF RREP
  <2> QED BY <2>1 DEF Message
<1>3. Good(h1, me)
  <2> HIDE DEF m, nh
  <2> QED BY <1>1, <1>2, TtlType, SocketSendGood
<1>4. Good(rt_table_update_timeout(
             precursor_add(precursor_add(h1, fwd, nh), rev, h.rt[fwd].next), rev), me)
  <2> HIDE DEF h1
  <2> QED BY <1>3, PrecursorGood, UpdateTimeoutGood
<1> QED BY <1>4 DEF rrep_forward

\* The forward route of a RREP is inserted or updated consistently.
LEMMA RrepForwardRouteGood ==
  ASSUME NEW me, NEW h, Good(h, me), NEW m \in RREP, NEW src \in Addr, NEW channel \in Channel,
         NEW cost \in Int
  PROVE  Good(rrep_forward_route(h, m, src, channel, cost), me)
<1>1. m.dest \in Addr /\ m.hcnt + 1 \in Nat /\ m.seqno \in Seqno
  BY DEF RREP
<1>2. h.rt[m.dest].flags \in NoRepair /\ {} \in NoRepair
  BY <1>1, HostFields, NoRepairFlags DEF NoRepair
<1>3. Good(rt_table_insert_with_channel(h, m.dest, src, m.hcnt + 1, m.seqno, m.life,
                                        "valid", {}, channel, cost), me)
  BY <1>1, <1>2, InsertGood
<1>4. Good(rt_table_update_with_channel(h, m.dest, src, m.hcnt + 1, m.seqno,
                                        h.rt[m.dest].flags, channel, cost), me)
  BY <1>1, <1>2, UpdateGood
<1> QED BY <1>3, <1>4 DEF rrep_forward_route

\* rrep_process keeps the host Good.
LEMMA RrepProcessGood ==
  ASSUME NEW me, NEW h, Good(h, me), NEW m \in RREP, NEW src \in Addr, NEW channel \in Channel,
         NEW link \in Int
  PROVE  Good(rrep_process(h, m, src, channel, link), me)
<1> DEFINE cost == IF m.ext THEN m.cost + link ELSE NoExtCost
           h1   == rrep_forward_route(h, m, src, channel, cost)
           h2   == IF m.a THEN aodv_socket_send(h1, h1.rt[m.dest].next, MAXTTL,
                                                [type |-> "RREP_ACK"]) ELSE h1
           x    == [h2 EXCEPT !.channelNum = h2.rt[m.orig].channel]
           r    == [m EXCEPT !.a = FALSE, !.cost = IF m.ext THEN cost ELSE m.cost]
<1>1. m.dest \in Addr /\ m.orig \in Addr /\ m.cost \in Int
  BY DEF RREP
<1>2. cost \in Int
  BY <1>1 DEF NoExtCost
<1> HIDE DEF cost
<1>3. Good(h1, me)
  BY <1>2, RrepForwardRouteGood
<1> HIDE DEF h1
<1>4. Good(h2, me)
  <2>1. h1.rt[m.dest].next \in Addr \cup {0, Bcast}
    BY <1>1, <1>3, HostFields, EntryFields
  <2>2. [type |-> "RREP_ACK"] \in Message
    BY DEF Message, ACK
  <2> QED BY <1>3, <2>1, <2>2, TtlType, SocketSendGood
<1> HIDE DEF h2
<1>5. Good(x, me)
  BY <1>1, <1>4, HostFields, EntryFields, SetChannel
<1>6. r \in RREP
  BY <1>1, <1>2 DEF RREP
<1>7. Good(rrep_forward(x, r, m.orig, m.dest), me)
  <2> HIDE DEF x, r
  <2> QED BY <1>1, <1>5, <1>6, RrepForwardGood
<1> QED BY <1>4, <1>7 DEF rrep_process, h2, h1, cost

\* rrep_ack_process only stops a timer.
LEMMA AckGood ==
  ASSUME NEW me, NEW h, Good(h, me), NEW src \in Addr, NEW b
  PROVE  Good(rrep_ack_process(h, src, b), me)
BY SetField DEF rrep_ack_process

\* rrep_ack_timeout only blacklists.
LEMMA AckTimeoutGood ==
  ASSUME NEW me, NEW h, Good(h, me), NEW d \in Addr PROVE Good(rrep_ack_timeout(h, d), me)
<1> DEFINE g == [h EXCEPT !.rt[d].ack = FALSE]
<1>1. Good(g, me)
  BY SetField
<1>2. Good([g EXCEPT !.blacklist = g.blacklist \cup {d}], me)
  <2> HIDE DEF g
  <2> QED BY <1>1 DEF Good, Host
<1>3. [g EXCEPT !.blacklist = g.blacklist \cup {d}] = rrep_ack_timeout(h, d)
  BY DEF rrep_ack_timeout, Good, Host
<1> QED BY <1>2, <1>3

---------------------------------------------------------------------------
(* AodvControl: route requests *)

\* Changing the RREQ records is harmless.
LEMMA SetRecords ==
  ASSUME NEW me, NEW h, Good(h, me), NEW R \in SUBSET Record PROVE Good([h EXCEPT !.records = R], me)
BY DEF Good, Host

\* rreq_record_insert_with_cost adds a record.
LEMMA RecordInsertGood ==
  ASSUME NEW me, NEW h, Good(h, me), NEW m \in RREQ, NEW cost \in Int
  PROVE  Good(rreq_record_insert_with_cost(h, m, cost), me)
<1>1. [orig |-> m.orig, id |-> m.id, cost |-> cost] \in Record
  BY DEF RREQ, Record
<1>2. h.records \cup {[orig |-> m.orig, id |-> m.id, cost |-> cost]} \in SUBSET Record
  BY <1>1, HostFields
<1> QED BY <1>2, SetRecords DEF rreq_record_insert_with_cost

\* The reverse route of a RREQ is inserted or updated consistently.
LEMMA ReverseRouteGood ==
  ASSUME NEW me, NEW h, Good(h, me), NEW m \in RREQ, NEW src \in Addr, NEW channel \in Channel,
         NEW cost \in Int
  PROVE  Good(rreq_reverse_route(h, m, src, channel, cost), me)
<1> DEFINE life == PATH_DISCOVERY_TIME - 2 * (m.hcnt + 1) * NODE_TRAVERSAL_TIME
<1>1. m.orig \in Addr /\ m.hcnt + 1 \in Nat /\ m.orig_seqno \in Seqno
  BY DEF RREQ
<1>2. h.rt[m.orig].flags \in NoRepair /\ {} \in NoRepair
  BY <1>1, HostFields, NoRepairFlags DEF NoRepair
<1>3. Good(rt_table_insert_with_channel(h, m.orig, src, m.hcnt + 1, m.orig_seqno, life,
                                        "valid", {}, channel, cost), me)
  <2> HIDE DEF life
  <2> QED BY <1>1, <1>2, InsertGood
<1>4. Good(rt_table_update_with_channel(h, m.orig, src, m.hcnt + 1, m.orig_seqno,
                                        h.rt[m.orig].flags, channel, cost), me)
  BY <1>1, <1>2, UpdateGood
<1> QED BY <1>3, <1>4 DEF rreq_reverse_route

\* The answer of the destination keeps the host Good.
LEMMA AnswerAsDestGood ==
  ASSUME NEW me, NEW h, Good(h, me), NEW m \in RREQ, NEW channel \in Channel
  PROVE  Good(rreq_answer_as_dest(h, m, channel), me)
<1> DEFINE s  == rreq_own_seqno(h.seqno, m.dest_seqno)
           h1 == [h EXCEPT !.seqno = s]
<1>1. m.dest_seqno \in Seqno /\ m.orig \in Addr /\ h.seqno \in Seqno
  BY HostFields DEF RREQ
<1>2. s \in Seqno
  BY <1>1, SeqnoIncrType DEF rreq_own_seqno
<1> HIDE DEF s
<1>3. Good(h1, me)
  BY <1>2, SetSeqno
<1>4. h1.seqno = s
  BY DEF Good, Host
<1>5. Rrep(0, h.ipaddr, h1.seqno, m.orig, 1, TRUE, 0) \in RREP
  <2> HIDE DEF h1
  <2> QED BY <1>1, <1>2, <1>4, HostFields DEF Rrep, RREP
<1>6. Good(rrep_send_with_channel(h1, Rrep(0, h.ipaddr, h1.seqno, m.orig, 1, TRUE, 0),
                                  m.orig, Bcast, channel), me)
  <2> HIDE DEF h1
  <2> QED BY <1>1, <1>3, <1>5, RrepSendGood
<1> QED BY <1>6 DEF rreq_answer_as_dest, s

\* The answer of an intermediate node keeps the host Good.
LEMMA AnswerFromTableGood ==
  ASSUME NEW me, NEW h, Good(h, me), NEW m \in RREQ, NEW left \in {0, 1}
  PROVE  Good(rreq_answer_from_table(h, m, left), me)
<1> DEFINE f  == h.rt[m.dest]
           p  == Rrep(f.hcnt, m.dest, f.seqno, m.orig, left, TRUE, f.cost)
           h1 == rrep_send_with_channel(h, p, m.orig, m.dest, f.channel)
           r  == h1.rt[m.orig]
           q  == Rrep(r.hcnt, m.orig, r.seqno, m.dest, left, FALSE, 0)
<1>1. m.dest \in Addr /\ m.orig \in Addr
  BY DEF RREQ
<1>2. f.hcnt \in Nat /\ f.seqno \in Seqno /\ f.cost \in Int
      /\ f.channel \in Channel \cup {NoChannel}
  BY <1>1, HostFields, EntryFields
<1>3. p \in RREP
  <2> HIDE DEF f
  <2> QED BY <1>1, <1>2, RrepType
<1>4. Good(h1, me)
  <2> HIDE DEF p, f
  <2> QED BY <1>1, <1>2, <1>3, RrepSendGood
<1>5. q \in RREP
  <2> HIDE DEF h1
  <2>1. r.hcnt \in Nat /\ r.seqno \in Seqno
    BY <1>1, <1>4, HostFields, EntryFields
  <2> HIDE DEF r
  <2> QED BY <1>1, <2>1 DEF Rrep, RREP
<1>6. Good(rrep_send_with_channel(h1, q, m.dest, m.orig, f.channel), me)
  <2> HIDE DEF h1, q, f
  <2> QED BY <1>1, <1>2, <1>4, <1>5, RrepSendGood
<1> HIDE DEF h1
<1> QED BY <1>4, <1>6 DEF rreq_answer_from_table, h1

\* rreq_forward_with_channel only sends.
LEMMA RreqForwardGood ==
  ASSUME NEW me, NEW h, Good(h, me), NEW m \in RREQ, NEW cost \in Int, NEW ttl \in Nat
  PROVE  Good(rreq_forward_with_channel(h, m, cost, ttl), me)
<1> DEFINE s == IF present(h, m.dest) /\ newer(h.rt[m.dest].seqno, m.dest_seqno)
                THEN h.rt[m.dest].seqno ELSE m.dest_seqno
           x == [h EXCEPT !.channelNum = Channel_Count - 1]
           r == [m EXCEPT !.hcnt = m.hcnt + 1, !.dest_seqno = s, !.cost = cost]
<1>1. s \in Seqno
  <2>1. m.dest \in Addr /\ m.dest_seqno \in Seqno
    BY DEF RREQ
  <2> QED BY <2>1, HostFields, EntryFields
<1> HIDE DEF s
<1>2. r \in Message
  <2> DEFINE k == m.hcnt + 1
  <2>1. k \in Nat
    BY DEF RREQ
  <2>2. r \in RREQ
    <3> HIDE DEF k
    <3>1. [m EXCEPT !.hcnt = k, !.dest_seqno = s, !.cost = cost] \in RREQ
      BY <1>1, <2>1 DEF RREQ
    <3> QED BY <3>1 DEF k
  <2> QED BY <2>2 DEF Message
<1>3. Good(x, me)
  <2>1. Channel_Count - 1 \in Channel
    BY ChannelAssumption DEF Channel
  <2> QED BY <2>1, SetChannel
<1>4. CASE ttl > 1
  <2>1. ttl - 1 \in Nat
    BY <1>4
  <2>2. Good(aodv_socket_send(x, Bcast, ttl - 1, r), me)
    <3> HIDE DEF x, r
    <3> QED BY <1>2, <1>3, <2>1, SocketSendGood
  <2> QED BY <1>4, <2>2 DEF rreq_forward_with_channel, s
<1> QED BY <1>4 DEF rreq_forward_with_channel

\* An intermediate node stays Good: it deletes, answers or forwards.
LEMMA AsIntermediateGood ==
  ASSUME NEW me, NEW h, Good(h, me), NEW m \in RREQ, NEW cost \in Int, NEW ttl \in Nat, NEW left \in {0, 1}
  PROVE  Good(rreq_as_intermediate(h, m, cost, ttl, left), me)
<1> DEFINE h1 == IF present(h, m.dest) /\ h.rt[m.dest].channel = NoChannel
                 THEN rt_table_delete(h, m.dest) ELSE h
<1>1. Good(h1, me)
  BY DeleteGood
<1> HIDE DEF h1
<1>2. Good(rreq_answer_from_table(h1, m, left), me) /\ Good(rreq_forward_with_channel(h1, m, cost, ttl), me)
  BY <1>1, AnswerFromTableGood, RreqForwardGood
<1> QED BY <1>2 DEF rreq_as_intermediate, h1

\* rreq_process keeps the host Good.
LEMMA RreqProcessGood ==
  ASSUME NEW me, NEW h, Good(h, me), NEW m \in RREQ, NEW src \in Addr, NEW channel \in Channel,
         NEW ttl \in Nat, NEW link \in Int, NEW left \in {0, 1}
  PROVE  Good(rreq_process(h, m, src, channel, ttl, link, left), me)
<1> DEFINE cost == m.cost + link
           h1   == rreq_record_insert_with_cost(h, m, cost)
           h2   == rreq_reverse_route(h1, m, src, channel, cost)
<1>1. cost \in Int
  BY DEF RREQ
<1> HIDE DEF cost
<1>2. Good(h1, me)
  BY <1>1, RecordInsertGood
<1> HIDE DEF h1
<1>3. Good(h2, me)
  BY <1>1, <1>2, ReverseRouteGood
<1> HIDE DEF h2
<1>4. Good(rreq_answer_as_dest(h2, m, channel), me)
  BY <1>3, AnswerAsDestGood
<1>5. Good(rreq_as_intermediate(h2, m, cost, ttl, left), me)
  BY <1>1, <1>3, AsIntermediateGood
<1> QED BY <1>2, <1>4, <1>5 DEF rreq_process, h1, h2, cost

---------------------------------------------------------------------------
(* AodvControl: route errors *)

\* Whatever a receiver reads of a RERR, the sequence numbers have their type.
LEMMA RerrReadType ==
  ASSUME NEW m \in RERR
  PROVE  \A u \in rerr_read(m) : u.seqno \in Seqno
<1>1. \A u \in m.dests : u.seqno \in Seqno
  BY DEF RERR, Udest
<1>2. 0 \in Seqno
  BY WidthAssumption DEF Seqno
<1> QED BY <1>1, <1>2 DEF rerr_read

\* rerr_process invalidates consistently, whatever destinations it reads.
LEMMA RerrProcessGood ==
  ASSUME NEW me, NEW h, Good(h, me), NEW m \in RERR, NEW src
  PROVE  Good(rerr_process(h, m, src), me)
<1> DEFINE read == {u \in rerr_read(m) : valid(h, u.addr) /\ h.rt[u.addr].next = src}
           hit  == {u.addr : u \in read}
           seq(d) == (CHOOSE u \in read : u.addr = d).seqno
           told == {d \in hit : h.rt[d].prec # {} /\ "REPAIR" \notin h.rt[d].flags}
           prec == [d \in Addr |-> h.rt[d].prec]
           gone(e, s) == IF m.n THEN [e EXCEPT !.seqno = s]
                         ELSE [invalidated(e) EXCEPT !.seqno = s, !.prec = {}]
           t == [d \in Addr |-> IF d \in hit THEN gone(h.rt[d], seq(d)) ELSE h.rt[d]]
           c == IF m.n THEN h.num_active ELSE plus(h.num_active, -Cardinality(hit))
           h1 == [h EXCEPT !.rt = t, !.num_active = c]
           first == IF m.first \in told THEN m.first ELSE least(told)
<1>1. hit \subseteq Addr /\ told \in SUBSET Addr
  BY DEF valid
<1>2. \A d \in hit : seq(d) \in Seqno
  <2> SUFFICES ASSUME NEW d \in hit PROVE seq(d) \in Seqno
    OBVIOUS
  <2>1. \E u \in read : u.addr = d
    OBVIOUS
  <2>2. (CHOOSE u \in read : u.addr = d) \in read
    <3> HIDE DEF read
    <3> QED BY <2>1
  <2> QED BY <2>2, RerrReadType
<1>3. ASSUME NEW e \in Entry, RouteOK(e), NEW s \in Seqno
      PROVE  Replaces(gone(e, s), e)
  <2>1. Replaces([e EXCEPT !.seqno = s], e)
    BY <1>3 DEF Replaces, Entry, RouteOK
  <2> DEFINE i == invalidated(e)
  <2>2. i \in Entry /\ RouteOK(i) /\ i.state = "invalid"
    BY <1>3, InvalidatedType
  <2>3. Replaces([i EXCEPT !.seqno = s, !.prec = {}], e)
    <3> HIDE DEF i
    <3> QED BY <1>3, <2>2 DEF Replaces, Entry, RouteOK
  <2> HIDE DEF i
  <2> QED BY <2>1, <2>3 DEF i
<1>4. \A d \in Addr : Replaces(t[d], h.rt[d])
  <2> SUFFICES ASSUME NEW d \in Addr PROVE Replaces(t[d], h.rt[d])
    OBVIOUS
  <2>1. h.rt[d] \in Entry /\ RouteOK(h.rt[d])
    BY HostFields
  <2> HIDE DEF gone, seq, hit
  <2> QED BY <1>2, <1>3, <2>1, ReplacesSelf
<1>5. t \in [Addr -> Entry]
  BY <1>4 DEF Replaces
<1>6. c \in 0 .. CounterMod - 1
  <2> HIDE DEF hit
  <2>1. Cardinality(hit) \in Nat
    BY <1>1, AddrAssumption, FS_Subset, FS_CardinalityType
  <2>2. plus(h.num_active, -Cardinality(hit)) \in 0 .. CounterMod - 1
    BY <2>1, HostFields, PlusType
  <2> QED BY <2>2, HostFields
<1>7. Good(h1, me)
  <2> HIDE DEF t, c
  <2>1. Good([h EXCEPT !.rt = t, !.num_active = c, !.num_entries = h.num_entries], me)
    BY <1>4, <1>5, <1>6, HostFields, SetTable
  <2> QED BY <2>1 DEF Good, Host
<1>8. told # {} => first \in Addr
  <2> HIDE DEF told
  <2> QED BY <1>1, LeastExists, AddrAssumption
<1>9. Good(sendRerr(h1, first, told, prec, m.n), me)
  <2>1. m.n \in BOOLEAN
    BY DEF RERR
  <2> HIDE DEF h1, first, told, prec
  <2> QED BY <1>1, <1>7, <1>8, <2>1, SendRerrGood
<1> QED BY <1>9 DEF rerr_process

---------------------------------------------------------------------------
(* AodvControl: HELLO messages and timeouts *)

\* hello_process inserts or updates the neighbour consistently.
LEMMA HelloGood ==
  ASSUME NEW me, NEW h, Good(h, me), NEW d \in Addr, NEW seqno \in Seqno, NEW channel \in Channel,
         NEW listed \in BOOLEAN, NEW close \in BOOLEAN
  PROVE  Good(hello_process(h, d, seqno, channel, listed, close), me)
<1> DEFINE h1 == hello_ack(h, d, channel)
           f  == hello_flags(h, d, listed)
           e  == h.rt[d]
           st == IF receive_n_hellos > 0 THEN "invalid" ELSE "valid"
           cnt == IF close THEN h1.rt[d].hello_cnt + 1 ELSE 1
<1>1. Good(h1, me)
  <2>1. [type |-> "HELLO_ACK"] \in Message
    BY DEF Message, ACK
  <2>2. Good([h EXCEPT !.channelNum = channel], me)
    BY SetChannel
  <2> HIDE DEF h1
  <2> QED BY <2>1, <2>2, TtlType, SocketSendGood DEF h1, hello_ack
<1>2. f \in NoRepair
  <2>1. h.rt[d].flags \in NoRepair
    BY HostFields, NoRepairFlags
  <2> QED BY <2>1 DEF hello_flags, NoRepair
<1> HIDE DEF h1, f
<1>3. Good(rt_table_insert(h1, d, d, 1, seqno, 1, st, f), me)
  <2>1. st \in {"valid", "invalid"} /\ DefaultCost \in Int
    BY DEF DefaultCost
  <2> HIDE DEF st
  <2> QED BY <1>1, <1>2, <2>1, InsertEntryGood DEF rt_table_insert
<1>4. Good(rt_table_update(h1, d, d, 1, seqno, f), me)
  <2>1. h1.rt[d].channel \in Channel \cup {NoChannel} /\ h1.rt[d].cost \in Int
    BY <1>1, HostFields, EntryFields
  <2> QED BY <1>1, <1>2, <2>1, UpdateGood DEF rt_table_update
<1>5. Good([[rt_table_insert(h1, d, d, 1, seqno, 1, st, f) EXCEPT !.rt[d].hello_cnt = 1]
              EXCEPT !.rt[d].hello = TRUE], me)
  <2> DEFINE x == rt_table_insert(h1, d, d, 1, seqno, 1, st, f)
             y == [x EXCEPT !.rt[d].hello_cnt = 1]
  <2>1. Good(y, me)
    <3> HIDE DEF x
    <3> QED BY <1>3, SetField DEF x
  <2>2. Good([y EXCEPT !.rt[d].hello = TRUE], me)
    <3> HIDE DEF y
    <3> QED BY <2>1, SetField
  <2> QED BY <2>2
<1>6. Good([h1 EXCEPT !.rt[d].hello = TRUE], me)
  BY <1>1, SetField
<1>7. Good([h1 EXCEPT !.rt[d].hello_cnt = cnt], me)
  <2>1. cnt \in Nat
    BY <1>1, HostFields, EntryFields
  <2> HIDE DEF cnt
  <2> QED BY <1>1, <2>1, SetField
<1>8. Good([rt_table_update(h1, d, d, 1, seqno, f) EXCEPT !.rt[d].hello = TRUE], me)
  <2> DEFINE x == rt_table_update(h1, d, d, 1, seqno, f)
  <2> HIDE DEF x
  <2>1. Good([x EXCEPT !.rt[d].hello = TRUE], me)
    BY <1>4, SetField DEF x
  <2> QED BY <2>1 DEF x
<1> QED BY <1>5, <1>6, <1>7, <1>8 DEF hello_process, h1, f

\* hello_timeout keeps the host Good.
LEMMA HelloTimeoutGood ==
  ASSUME NEW me, NEW h, Good(h, me), NEW d \in Addr PROVE Good(hello_timeout(h, d), me)
<1> DEFINE g == [h EXCEPT !.rt[d].hello = FALSE]
<1>1. Good(g, me)
  BY SetField
<1> HIDE DEF g
<1>2. Good(neighbor_link_break(g, d), me)
  BY <1>1, LinkBreakGood
<1> QED BY <1>1, <1>2 DEF hello_timeout, g

\* The expiry timer that fires belongs to no INVALID entry, so that clearing it
\* breaks no promise.
LEMMA RouteExpireGood ==
  ASSUME NEW me, NEW h, Good(h, me), NEW d \in Addr, h.rt[d].handler = "expire"
  PROVE  Good(route_expire_timeout(h, d), me)
<1> DEFINE e == [h.rt[d] EXCEPT !.armed = FALSE]
           g == [h EXCEPT !.rt[d].armed = FALSE]
<1>1. h.rt[d] \in Entry /\ RouteOK(h.rt[d])
  BY HostFields
<1>2. Replaces(e, h.rt[d])
  BY <1>1 DEF Replaces, Entry, RouteOK
<1>3. g = [h EXCEPT !.rt[d] = e]
  BY DEF Good, Host
<1>4. Good(g, me)
  <2> HIDE DEF g, e
  <2> QED BY <1>2, <1>3, SetEntry
<1> HIDE DEF g
<1>5. Good(neighbor_link_break(g, d), me)
  BY <1>4, LinkBreakGood
<1>6. Good(precursor_list_destroy(rt_table_invalidate(g, d), d), me)
  BY <1>4, InvalidateGood, PrecursorGood
<1> QED BY <1>5, <1>6 DEF route_expire_timeout, g

\* Dropping an old packet keeps the host Good.
LEMMA GarbageCollectGood ==
  ASSUME NEW me, NEW h, Good(h, me), NEW v \in Addr, NEW vo \in Origin, h.queue[v][vo] > 0
  PROVE  Good(packet_queue_garbage_collect(h, v, vo), me)
<1> DEFINE g == packet_queue_garbage_collect(h, v, vo)
           q == [h.queue EXCEPT ![v][vo] = h.queue[v][vo] - 1]
           n == h.pqlen - 1
<1>0. h \in Host /\ h.queue \in [Addr -> [Origin -> Nat]]
  BY DEF Good, Host
<1>1. q \in [Addr -> [Origin -> Nat]] /\ n \in Int
  BY <1>0 DEF Host
<1>2. \A u \in Addr, w \in Origin : q[u][w] <= h.queue[u][w]
  BY <1>0
<1>3. g = [h EXCEPT !.queue = q, !.pqlen = n]
  BY <1>0 DEF packet_queue_garbage_collect, Host
<1> HIDE DEF q, n, g
<1>4. /\ g \in Host /\ g.ipaddr = h.ipaddr /\ g.rt = h.rt /\ g.seek = h.seek
      /\ g.queue = q /\ g.pqlen = n
  BY <1>0, <1>1, <1>3 DEF Host
<1>5. \A u \in Addr : Awaited(h.seek[u], q[u])
  <2> SUFFICES ASSUME NEW u \in Addr PROVE Awaited(h.seek[u], q[u])
    OBVIOUS
  <2>1. /\ q[u]["own"] \in Nat /\ q[u]["transit"] \in Nat
        /\ h.queue[u]["own"] \in Nat /\ h.queue[u]["transit"] \in Nat
        /\ q[u]["own"] <= h.queue[u]["own"] /\ q[u]["transit"] <= h.queue[u]["transit"]
    BY <1>0, <1>1, <1>2 DEF Origin
  <2> QED BY <2>1 DEF Awaited, Good
<1>6. Counted(q, n)
  <2>1. h.queue \in Queue /\ Counted(h.queue, h.pqlen)
    BY <1>0 DEF Good, Queue
  <2> QED BY <2>1, OneLess DEF q, n
<1>7. Good(g, me)
  BY <1>4, <1>5, <1>6 DEF Good
<1> QED BY <1>7 DEF g

---------------------------------------------------------------------------
(* AodvControl: data packets and the entry point *)

\* processPacket buffers a packet only together with a discovery.
LEMMA ProcessPacketGood ==
  ASSUME NEW me, NEW h, Good(h, me), NEW src \in Addr, NEW dest \in Addr, NEW tcp \in BOOLEAN,
         NEW v \in Addr, NEW vo \in Origin, Room(h, v, vo)
  PROVE  Good(processPacket(h, src, dest, tcp, v, vo), me)
<1> DEFINE h1 == rt_table_update_route_timeouts(h, dest, src, llfeedback)
           usable == valid(h1, dest)
                     /\ ~(h1.rt[dest].hcnt = 1 /\ "UNIDIR" \in h1.rt[dest].flags)
<1>1. Good(h1, me) /\ Room(h1, v, vo)
  BY UpdateRouteTimeoutsGood, RenewKeepsQueue DEF Good, Room
<1> HIDE DEF h1
<1>2. h1.rt[dest].next \in Addr \cup {0, Bcast}
  BY <1>1, HostFields, EntryFields
<1>3. Good(sendPacket(h1, h1.rt[dest].next, MAXTTL,
                      [type |-> "DATA", src |-> src, dest |-> dest]), me)
  BY <1>1, <1>2, TtlType, DataType, SendPacketGood
<1>4. Good(no_route_rerr(h1, src, dest), me)
  <2> DEFINE s   == IF present(h1, dest) THEN h1.rt[dest].seqno ELSE 0
             dst == IF valid(h1, src) THEN h1.rt[src].next ELSE Bcast
             m   == [type |-> "RERR", first |-> dest, n |-> FALSE,
                     dests |-> {[addr |-> dest, seqno |-> s]}]
  <2>1. s \in Seqno
    BY <1>1, HostFields, EntryFields, WidthAssumption DEF Seqno
  <2>2. dst \in Addr \cup {0, Bcast}
    BY <1>1, HostFields, EntryFields
  <2>3. m \in Message
    <3> HIDE DEF s
    <3> QED BY <2>1 DEF Message, RERR, Udest
  <2>4. Good(rt_table_update_timeout(h1, dest), me)
    BY <1>1, UpdateTimeoutGood
  <2>5. Good(aodv_socket_send(rt_table_update_timeout(h1, dest), dst, 1, m), me)
    <3> HIDE DEF dst, m
    <3> QED BY <2>2, <2>3, <2>4, SocketSendGood
  <2> QED BY <2>5 DEF no_route_rerr
<1>5. ~usable => Good(rreq_route_discovery(packet_queue_add(h1, dest, "own", v, vo), dest, tcp), me)
  BY <1>1, DiscoveryGood
<1> QED BY <1>1, <1>3, <1>4, <1>5 DEF processPacket, h1

\* packetFailed buffers a packet only for a sought destination.
LEMMA PacketFailedGood ==
  ASSUME NEW me, NEW h, Good(h, me), NEW dest \in Addr, NEW o \in Origin, NEW nh, NEW v \in Addr,
         NEW vo \in Origin, Room(h, v, vo)
  PROVE  Good(packetFailed(h, dest, o, nh, v, vo), me)
BY QueueAddGood, LinkBreakGood DEF packetFailed

\* Every control message keeps the host Good.
LEMMA ProcessGood ==
  ASSUME NEW me, NEW h, Good(h, me), NEW m \in RREQ \cup RREP \cup RERR \cup ACK, NEW src \in Addr,
         NEW channel \in Channel, NEW ttl \in Nat, NEW link \in Int, NEW left \in {0, 1}
  PROVE  Good(aodv_socket_process_packet(h, m, src, channel, ttl, link, left), me)
<1> DEFINE h1 == neighbor_add(h, src)
<1>1. Good(h1, me)
  BY NeighborAddGood
<1> HIDE DEF h1
<1>2. CASE m \in RREQ
  <2>1. m.type = "RREQ"
    BY <1>2 DEF RREQ
  <2>2. Good(rreq_process(h1, m, src, channel, ttl, link, left), me)
    BY <1>1, <1>2, RreqProcessGood
  <2> QED BY <2>1, <2>2 DEF aodv_socket_process_packet, h1
<1>3. CASE m \in RREP
  <2>1. m.type = "RREP"
    BY <1>3 DEF RREP
  <2>2. Good(rrep_process(h1, m, src, channel, link), me)
    BY <1>1, <1>3, RrepProcessGood
  <2> QED BY <2>1, <2>2 DEF aodv_socket_process_packet, h1
<1>4. CASE m \in RERR
  <2>1. m.type = "RERR"
    BY <1>4 DEF RERR
  <2>2. Good(rerr_process(h1, m, src), me)
    BY <1>1, <1>4, RerrProcessGood
  <2> QED BY <2>1, <2>2 DEF aodv_socket_process_packet, h1
<1>5. CASE m \in ACK
  <2>1. m.type = "RREP_ACK" \/ m.type = "HELLO_ACK"
    BY <1>5 DEF ACK
  <2>2. Good(rrep_ack_process(h1, src, TRUE), me) /\ Good(rrep_ack_process(h1, src, FALSE), me)
    BY <1>1, AckGood
  <2> QED BY <2>1, <2>2 DEF aodv_socket_process_packet, h1
<1> QED BY <1>2, <1>3, <1>4, <1>5

\* A host starts Good.
LEMMA InitHostGood ==
  ASSUME NEW a \in Addr, NEW b \in BOOLEAN PROVE Good(InitHost(a, b), a)
<1> DEFINE h == InitHost(a, b)
<1>1. 0 \in Channel /\ 1 \in Seqno /\ 0 \in 0 .. CounterMod - 1
  BY ChannelAssumption, WidthAssumption DEF Channel, Seqno
<1>2. h \in Host
  BY <1>1, NoEntryType, NoSeekType DEF InitHost, Host
<1>3. /\ h.ipaddr = a
      /\ \A d \in Addr : /\ h.rt[d] = NoEntry /\ h.seek[d] = NoSeek
                         /\ h.queue[d] = [o \in Origin |-> 0]
  BY DEF InitHost
<1>4. ~NoSeek.on
  BY DEF NoSeek
<1>5. [o \in Origin |-> 0]["own"] + [o \in Origin |-> 0]["transit"] = 0
  BY DEF Origin
<1>6. Counted(h.queue, h.pqlen)
  <2>1. h.pqlen = 0 /\ \A d \in Addr, o \in Origin : h.queue[d][o] = 0
    BY DEF InitHost
  <2> HIDE DEF h
  <2>2. Queued(h.queue) = {}
    BY <2>1, QueuedElements
  <2> QED BY <2>1, <2>2, FS_EmptySet, LimitAssumption DEF Counted
<1> HIDE DEF h
<1>7. Good(h, a)
  BY <1>2, <1>3, <1>4, <1>5, <1>6, NoEntryType DEF Good, Unsought, Awaited
<1> QED BY <1>7 DEF h
=============================================================================
