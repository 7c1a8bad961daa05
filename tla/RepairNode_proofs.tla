------------------------- MODULE RepairNode_proofs -------------------------
(***************************************************************************)
(* Proofs about RepairNode, for every set of addresses and messages and    *)
(* every history of the node.                                              *)
(*                                                                         *)
(* The invariant Kept says of every table entry that its timer fits its    *)
(* state and that an unlinked neighbour is in the set L (Lasting), of the  *)
(* packet queue that its length is counted right and bounded (Counted, of  *)
(* AodvNode_proofs), and that no reply to a repair is sent without its     *)
(* routes.  Every operation of RoutingTable, AodvControl and LocalRepair   *)
(* preserves it, one lemma each.  With L = Addr it is the invariant; with  *)
(* L the addresses without a VALID entry it tells which neighbours a step  *)
(* may lose. The handlers of LocalRepair walk lists with FoldLeft: that a  *)
(* walk preserves Kept follows from its steps by taking a smallest set of  *)
(* positions for which it would not (SmallestSubset). Three action         *)
(* properties follow from what the operations do to the routes: the routes *)
(* a reply leaves behind (RelayDelivers), the ones it mends (ReplyMends),  *)
(* and the ones that go with a link (LinkBreaksRepaired).                  *)
(***************************************************************************)
EXTENDS RepairNode, AodvNode_proofs

---------------------------------------------------------------------------
(* Finite sets of positions *)

\* A nonempty set of natural numbers has a least element.
LEMMA LeastNumber ==
  ASSUME NEW S, S \subseteq Nat, S # {} PROVE \E x \in S : \A y \in S : x <= y
<1> DEFINE R == OpToRel(<, Nat)
<1>1. IsWellFoundedOn(R, Nat)
  BY NatLessThanWellFounded
<1>2. \A x, y \in Nat : <<y, x>> \in R <=> y < x
  BY DEF OpToRel
<1> HIDE DEF R
<1>3. PICK x \in S : \A y \in S : ~(<<y, x>> \in R)
  BY <1>1, WFMin
<1>4. ASSUME NEW y \in S PROVE x <= y
  <2>1. x \in Nat /\ y \in Nat /\ ~(y < x)
    BY <1>2, <1>3
  <2> QED BY <2>1
<1> QED BY <1>4

\* Among some subsets of a finite set there is one such that no subset with one
\* element less is among them.
LEMMA SmallestSubset ==
  ASSUME NEW S, IsFiniteSet(S), NEW T, T \subseteq SUBSET S, T # {}
  PROVE  \E s \in T : \A x \in s : s \ {x} \notin T
<1> DEFINE K == {Cardinality(s) : s \in T}
<1>1. \A s \in T : IsFiniteSet(s) /\ Cardinality(s) \in Nat
  BY FS_Subset, FS_CardinalityType
<1>2. K \subseteq Nat /\ K # {}
  BY <1>1
<1>3. PICK k \in K : \A y \in K : k <= y
  <2> HIDE DEF K
  <2> QED BY <1>2, LeastNumber
<1>4. PICK s \in T : k = Cardinality(s)
  OBVIOUS
<1>5. ASSUME NEW x \in s PROVE s \ {x} \notin T
  <2> SUFFICES ASSUME s \ {x} \in T PROVE FALSE
    OBVIOUS
  <2>1. Cardinality(s \ {x}) = Cardinality(s) - 1
    BY <1>1, FS_RemoveElement
  <2>2. k <= Cardinality(s \ {x}) /\ k \in Nat
    BY <1>1, <1>3, <1>4
  <2> QED BY <1>4, <2>1, <2>2
<1> QED BY <1>5

\* A nonempty finite set of numbers has a greatest element.
LEMMA MaxExists ==
  ASSUME NEW S, IsFiniteSet(S), S \subseteq Nat, S # {}
  PROVE  Max(S) \in S /\ \A y \in S : y <= Max(S)
<1> DEFINE Good1(s) == \E x \in s : \A y \in s : x >= y
           T == {s \in SUBSET S : s # {} /\ ~Good1(s)}
<1>1. T = {}
  <2> SUFFICES ASSUME T # {} PROVE FALSE
    OBVIOUS
  <2>1. PICK s \in T : \A x \in s : s \ {x} \notin T
    <3> HIDE DEF Good1
    <3> QED BY SmallestSubset
  <2>2. PICK x \in s : TRUE
    OBVIOUS
  <2>3. x \in Nat /\ s \subseteq Nat
    OBVIOUS
  <2>4. CASE s \ {x} = {}
    <3>1. s = {x}
      BY <2>4
    <3> QED BY <2>3, <3>1
  <2>5. CASE s \ {x} # {}
    <3>1. Good1(s \ {x})
      BY <2>1, <2>5
    <3>2. PICK z \in s \ {x} : \A y \in s \ {x} : z >= y
      BY <3>1
    <3>3. CASE z >= x
      BY <3>2, <3>3
    <3>4. CASE ~(z >= x)
      <4>1. \A y \in s : x >= y
        BY <2>3, <3>2, <3>4
      <4> QED BY <4>1
    <3> QED BY <3>3, <3>4
  <2> QED BY <2>4, <2>5
<1>2. \E x \in S : \A y \in S : x >= y
  BY <1>1
<1>3. Max(S) \in S /\ \A y \in S : Max(S) >= y
  BY <1>2 DEF Max
<1>4. Max(S) \in Nat
  BY <1>3
<1> QED BY <1>3, <1>4

---------------------------------------------------------------------------
(* The invariant *)

\* The timer of the entry e of d fits its state: a route that is lost for good has
\* its deletion timer running.  Links are only suspected with unidir_hack; without
\* it only the neighbours of L may be lost.
Lasting(e, d, L) ==
  /\ {"state", "flags", "handler", "armed", "next", "hcnt", "prec"} \subseteq DOMAIN e
  /\ e.state = "invalid" /\ "REPAIR" \notin e.flags => e.armed /\ e.handler = "delete"
  /\ "UNIDIR" \in e.flags => unidir_hack
  /\ e.state = "invalid" /\ e.hcnt = 1 /\ e.next = d => d \in L \/ unidir_hack

\* Of the replies to repairs only the own ones are sent without a route to tell of.
Quiet(m) == "type" \in DOMAIN m /\ (m.type = "RREP_LR" => m.dest = Self)

Kept(h, L) ==
  /\ {"rt", "queue", "pqlen", "ipaddr", "out"} \subseteq DOMAIN h
  /\ DOMAIN h.rt = Addr
  /\ \A d \in Addr : Lasting(h.rt[d], d, L)
  /\ h.queue \in Queue
  /\ Counted(h.queue, h.pqlen)
  /\ h.ipaddr = Self
  /\ \A p \in h.out : Quiet(p.msg)

\* What the node sent in the last event is left out: see Relayed.
RepairInv == Kept(idle, Addr)

\* The length of the queue is a number.
LEMMA CountedType ==
  ASSUME NEW q, NEW n, Counted(q, n) PROVE n \in Nat
BY FS_CardinalityType DEF Counted

\* All but the table stays.
SameRest(g, h) ==
  /\ DOMAIN g = DOMAIN h /\ g.queue = h.queue /\ g.pqlen = h.pqlen
  /\ g.ipaddr = h.ipaddr /\ g.out = h.out

\* A step that leaves the table, the queue and the sent messages alone.
LEMMA KeptSame ==
  ASSUME NEW L, NEW h, Kept(h, L), NEW g, SameRest(g, h), g.rt = h.rt
  PROVE  Kept(g, L)
BY DEF Kept, SameRest

\* A step that only sends.
LEMMA KeptSent ==
  ASSUME NEW L, NEW h, Kept(h, L), NEW g, DOMAIN g = DOMAIN h, g.rt = h.rt, g.queue = h.queue,
         g.pqlen = h.pqlen, g.ipaddr = h.ipaddr, \A p \in g.out : Quiet(p.msg)
  PROVE  Kept(g, L)
BY DEF Kept

\* A step that leaves the rest alone and writes entries that fit.
LEMMA KeptTable ==
  ASSUME NEW L, NEW h, Kept(h, L), NEW g, SameRest(g, h),
         DOMAIN g.rt = Addr, \A d \in Addr : Lasting(g.rt[d], d, L)
  PROVE  Kept(g, L)
BY DEF Kept, SameRest

\* One entry is written.
LEMMA KeptEntry ==
  ASSUME NEW L, NEW h, Kept(h, L), NEW d, NEW e, d \in Addr => Lasting(e, d, L)
  PROVE  Kept([h EXCEPT !.rt[d] = e], L)
<1> DEFINE g == [h EXCEPT !.rt[d] = e]
<1>1. /\ SameRest(g, h)
      /\ DOMAIN g.rt = Addr
      /\ \A x \in Addr : g.rt[x] = IF x = d THEN e ELSE h.rt[x]
  BY DEF Kept, SameRest
<1>2. \A x \in Addr : Lasting(g.rt[x], x, L)
  BY <1>1 DEF Kept
<1> HIDE DEF g
<1>3. Kept(g, L)
  BY <1>1, <1>2, KeptTable
<1> QED BY <1>3 DEF g

\* More may be lost.
LEMMA KeptMore ==
  ASSUME NEW L, NEW M, NEW h, Kept(h, L), L \subseteq M \/ unidir_hack PROVE Kept(h, M)
<1>1. \A d \in Addr : Lasting(h.rt[d], d, M)
  BY DEF Kept, Lasting
<1> QED BY <1>1 DEF Kept

\* A neighbour that was lost gets a new entry.
LEMMA KeptAgain ==
  ASSUME NEW L, NEW h, NEW d \in Addr, Kept(h, L \cup {d}), NEW e, Lasting(e, d, L)
  PROVE  Kept([h EXCEPT !.rt[d] = e], L)
<1> DEFINE g == [h EXCEPT !.rt[d] = e]
<1>1. /\ SameRest(g, h)
      /\ DOMAIN g.rt = Addr
      /\ \A x \in Addr : g.rt[x] = IF x = d THEN e ELSE h.rt[x]
  BY DEF Kept, SameRest
<1>2. \A x \in Addr : Lasting(h.rt[x], x, L \cup {d})
  BY DEF Kept
<1>3. ASSUME NEW x \in Addr PROVE Lasting(g.rt[x], x, L)
  BY <1>1, <1>2 DEF Lasting
<1> HIDE DEF g
<1>4. Kept(g, L)
  BY <1>1, <1>3 DEF Kept, SameRest
<1> QED BY <1>4 DEF g

\* What was sent is forgotten.
KeptIdle(h, L) == Kept([h EXCEPT !.out = {}], L)

LEMMA OutKept ==
  ASSUME NEW L, NEW h, Kept(h, L) PROVE Kept([h EXCEPT !.out = {}], L)
<1> DEFINE g == [h EXCEPT !.out = {}]
<1>1. /\ DOMAIN g = DOMAIN h /\ g.rt = h.rt /\ g.queue = h.queue /\ g.pqlen = h.pqlen
      /\ g.ipaddr = h.ipaddr /\ g.out = {}
  BY DEF Kept
<1> HIDE DEF g
<1>2. Kept(g, L)
  BY <1>1, KeptSent
<1> QED BY <1>2 DEF g

LEMMA KeptIdleSame ==
  ASSUME NEW L, NEW h, KeptIdle(h, L), NEW g, SameRest(g, h), g.rt = h.rt PROVE KeptIdle(g, L)
<1> DEFINE x == [h EXCEPT !.out = {}]
           y == [g EXCEPT !.out = {}]
<1>1. Kept(x, L) /\ DOMAIN x = DOMAIN h
  BY DEF KeptIdle
<1>2. SameRest(y, x) /\ y.rt = x.rt
  BY <1>1 DEF SameRest, Kept
<1> HIDE DEF x, y
<1>3. Kept(y, L)
  BY <1>1, <1>2, KeptSame
<1> QED BY <1>3 DEF KeptIdle, y

\* An empty bucket, an invalidated entry and a new one fit.
LEMMA NoEntryLasting == \A d, L : Lasting(NoEntry, d, L)
BY DEF Lasting, NoEntry

LEMMA InvalidatedLasting ==
  ASSUME NEW L, NEW d, NEW e, Lasting(e, d, L),
         e.hcnt = 1 /\ e.next = d => d \in L \/ unidir_hack
  PROVE  Lasting(invalidated(e), d, L) /\ DOMAIN invalidated(e) = DOMAIN e
         /\ invalidated(e).flags = e.flags
<1>1. DOMAIN invalidated(e) = DOMAIN e /\ invalidated(e).flags = e.flags
  BY DEF Lasting, invalidated
<1>2. /\ invalidated(e).armed
      /\ "REPAIR" \notin e.flags => invalidated(e).handler = "delete"
  BY DEF Lasting, invalidated
<1>3. invalidated(e).hcnt = e.hcnt /\ invalidated(e).next = e.next
  BY DEF Lasting, invalidated
<1> QED BY <1>1, <1>2, <1>3 DEF Lasting

---------------------------------------------------------------------------
(* RoutingTable *)

\* A message leaves.
LEMMA SendPacketKept ==
  ASSUME NEW L, NEW h, Kept(h, L), NEW dst, NEW ttl, NEW m, Quiet(m)
  PROVE  Kept(sendPacket(h, dst, ttl, m), L)
<1> DEFINE g == sendPacket(h, dst, ttl, m)
<1>1. /\ DOMAIN g = DOMAIN h /\ g.rt = h.rt /\ g.queue = h.queue /\ g.pqlen = h.pqlen
      /\ g.ipaddr = h.ipaddr
      /\ g.out = h.out \cup {[dst |-> dst, ttl |-> ttl, msg |-> m,
                              ch |-> IF dst = Bcast THEN AllChannels ELSE h.channelNum]}
  BY DEF sendPacket, Kept
<1>2. \A p \in g.out : Quiet(p.msg)
  <2>1. \A p \in h.out : Quiet(p.msg)
    BY DEF Kept
  <2> HIDE DEF g
  <2> QED BY <1>1, <2>1
<1> HIDE DEF g
<1>3. Kept(g, L)
  BY <1>1, <1>2, KeptSent
<1> QED BY <1>3 DEF g

LEMMA SocketSendKept ==
  ASSUME NEW L, NEW h, Kept(h, L), NEW dst, NEW ttl, NEW m, Quiet(m)
  PROVE  Kept(aodv_socket_send(h, dst, ttl, m), L)
BY SendPacketKept DEF aodv_socket_send

\* A RERR leaves.
LEMMA RerrQuiet == \A h, first, dests, n : Quiet(Rerr(h, first, dests, n))
BY DEF Quiet, Rerr

LEMMA SendRerrKept ==
  ASSUME NEW L, NEW h, Kept(h, L), NEW first, NEW dests, NEW prec, NEW n
  PROVE  Kept(sendRerr(h, first, dests, prec, n), L)
BY SocketSendKept, RerrQuiet DEF sendRerr

\* A timer is armed.
LEMMA UpdateTimeoutKept ==
  ASSUME NEW L, NEW h, Kept(h, L), NEW d
  PROVE  Kept(rt_table_update_timeout(h, d), L)
<1>1. CASE present(h, d)
  <2> DEFINE e == [h.rt[d] EXCEPT !.armed = TRUE]
  <2>1. Lasting(h.rt[d], d, L)
    BY <1>1 DEF Kept, present
  <2>2. Lasting(e, d, L)
    BY <2>1 DEF Lasting
  <2>3. rt_table_update_timeout(h, d) = [h EXCEPT !.rt[d] = e]
    BY <1>1, <2>1 DEF rt_table_update_timeout, Kept, Lasting
  <2> HIDE DEF e
  <2> QED BY <2>2, <2>3, KeptEntry
<1>2. CASE ~present(h, d)
  BY <1>2 DEF rt_table_update_timeout
<1> QED BY <1>1, <1>2

\* The precursors of an entry are changed.
LEMMA PrecursorAddKept ==
  ASSUME NEW L, NEW h, Kept(h, L), NEW d, NEW a
  PROVE  Kept(precursor_add(h, d, a), L)
<1>1. CASE present(h, d) /\ a \in Addr
  <2> DEFINE e == [h.rt[d] EXCEPT !.prec = h.rt[d].prec \cup {a}]
  <2>1. Lasting(e, d, L)
    BY <1>1 DEF Lasting, Kept, present
  <2>2. precursor_add(h, d, a) = [h EXCEPT !.rt[d] = e]
    BY <1>1 DEF precursor_add
  <2> HIDE DEF e
  <2> QED BY <2>1, <2>2, KeptEntry
<1>2. CASE ~(present(h, d) /\ a \in Addr)
  BY <1>2 DEF precursor_add
<1> QED BY <1>1, <1>2

LEMMA PrecursorsDestroyKept ==
  ASSUME NEW L, NEW h, Kept(h, L), NEW d
  PROVE  Kept(precursor_list_destroy(h, d), L)
<1>1. CASE present(h, d)
  <2> DEFINE e == [h.rt[d] EXCEPT !.prec = {}]
  <2>1. Lasting(e, d, L)
    BY <1>1 DEF Lasting, Kept, present
  <2>2. precursor_list_destroy(h, d) = [h EXCEPT !.rt[d] = e]
    BY <1>1 DEF precursor_list_destroy
  <2> HIDE DEF e
  <2> QED BY <2>1, <2>2, KeptEntry
<1>2. CASE ~present(h, d)
  BY <1>2 DEF precursor_list_destroy
<1> QED BY <1>1, <1>2

\* A route is invalidated.
LEMMA InvalidateKept ==
  ASSUME NEW L, NEW h, Kept(h, L), NEW d, d \in L
  PROVE  Kept(rt_table_invalidate(h, d), L)
<1>1. CASE valid(h, d)
  <2> DEFINE g == [h EXCEPT !.rt[d] = invalidated(h.rt[d])]
             k == rt_table_invalidate(h, d)
  <2>1. Lasting(invalidated(h.rt[d]), d, L)
    BY <1>1, InvalidatedLasting DEF Kept, valid
  <2>2. Kept(g, L)
    BY <2>1, KeptEntry
  <2>3. SameRest(k, g) /\ k.rt = g.rt
    BY <1>1 DEF rt_table_invalidate, Kept, SameRest
  <2> HIDE DEF g, k
  <2>4. Kept(k, L)
    BY <2>2, <2>3, KeptSame
  <2> QED BY <2>4 DEF k
<1>2. CASE ~valid(h, d)
  BY <1>2 DEF rt_table_invalidate
<1> QED BY <1>1, <1>2

\* An entry is deleted.
LEMMA DeleteKept ==
  ASSUME NEW L, NEW h, Kept(h, L), NEW d
  PROVE  Kept(rt_table_delete(h, d), L)
<1>1. CASE present(h, d)
  <2> DEFINE g == [h EXCEPT !.rt[d] = NoEntry]
             k == rt_table_delete(h, d)
  <2>1. Kept(g, L)
    BY NoEntryLasting, KeptEntry
  <2>2. SameRest(k, g) /\ k.rt = g.rt
    BY <1>1 DEF rt_table_delete, Kept, SameRest
  <2> HIDE DEF g, k
  <2>3. Kept(k, L)
    BY <2>1, <2>2, KeptSame
  <2> QED BY <2>3 DEF k
<1>2. CASE ~present(h, d)
  BY <1>2 DEF rt_table_delete
<1> QED BY <1>1, <1>2

\* A link breaks: the entries written are invalidated or marked ones.
LEMMA LinkBreakKept ==
  ASSUME NEW L, NEW h, Kept(h, L), NEW d, d \in L
  PROVE  Kept(neighbor_link_break(h, d), L)
<1>1. CASE ~present(h, d) \/ h.rt[d].hcnt # 1
  BY <1>1 DEF neighbor_link_break
<1>2. CASE ~(~present(h, d) \/ h.rt[d].hcnt # 1)
  <2> DEFINE rep   == "REPAIR" \in h.rt[d].flags
             users == {u \in Addr \ {d} : valid(h, u) /\ h.rt[u].next = d}
             kept  == {u \in users : rep /\ h.rt[u].hcnt <= MAX_REPAIR_TTL}
             lost  == (users \ kept) \cup (IF rep THEN {} ELSE {d})
             told  == {u \in lost : h.rt[u].prec # {}}
             prec  == [u \in Addr |-> h.rt[u].prec]
             marked(u) == IF u \in kept
                          THEN [h.rt[u] EXCEPT !.flags = h.rt[u].flags \cup {"REPAIR"}]
                          ELSE h.rt[u]
             inval(u) == IF h.rt[u].state = "valid" THEN invalidated(marked(u)) ELSE marked(u)
             broken(u) == IF u \in lost THEN [inval(u) EXCEPT !.prec = {}] ELSE inval(u)
             h1 == [h EXCEPT
                      !.rt = [u \in Addr |->
                                IF u \in users \cup {d} THEN broken(u) ELSE h.rt[u]],
                      !.num_active =
                        plus(h.num_active, -Cardinality({u \in users \cup {d} : valid(h, u)}))]
  <2>1. neighbor_link_break(h, d)
          = sendRerr(h1, IF d \in told THEN d ELSE least(told), told, prec, FALSE)
    BY <1>2 DEF neighbor_link_break
  <2>2. ASSUME NEW u \in Addr, u \in users \cup {d} PROVE Lasting(broken(u), u, L)
    <3>5. u # d => h.rt[u].next = d
      BY <2>2
    <3> HIDE DEF kept, lost, users
    <3>1. Lasting(h.rt[u], u, L)
      BY DEF Kept
    <3>2. Lasting(marked(u), u, L)
      BY <3>1 DEF Lasting
    <3>6. marked(u).next = h.rt[u].next
      BY <3>1 DEF Lasting
    <3>3. Lasting(inval(u), u, L)
      <4> HIDE DEF marked
      <4> QED BY <3>2, <3>5, <3>6, InvalidatedLasting
    <3> HIDE DEF inval
    <3>4. Lasting([inval(u) EXCEPT !.prec = {}], u, L)
      BY <3>3 DEF Lasting
    <3> QED BY <3>3, <3>4
  <2>3. Kept(h1, L)
    <3> HIDE DEF broken, users
    <3>1. /\ SameRest(h1, h)
          /\ h1.rt = [u \in Addr |-> IF u \in users \cup {d} THEN broken(u) ELSE h.rt[u]]
      BY DEF Kept, SameRest
    <3>2. \A u \in Addr : Lasting(h1.rt[u], u, L)
      BY <2>2, <3>1 DEF Kept
    <3>3. DOMAIN h1.rt = Addr
      BY <3>1
    <3> HIDE DEF h1
    <3> QED BY <3>1, <3>2, <3>3, KeptTable
  <2> HIDE DEF h1, told, prec
  <2> QED BY <2>1, <2>3, SendRerrKept
<1> QED BY <1>1, <1>2

---------------------------------------------------------------------------
(* What the routes are *)

\* Entries that fit, of every address.
Tabled(h) ==
  /\ {"rt", "queue", "pqlen", "ipaddr", "out"} \subseteq DOMAIN h
  /\ DOMAIN h.rt = Addr
  /\ \A d \in Addr : Lasting(h.rt[d], d, Addr)

\* The same route: only timers, precursors and the like differ.
SameRoute(e, f) ==
  e.state = f.state /\ e.next = f.next /\ e.hcnt = f.hcnt /\ e.flags = f.flags

SameRoutes(g, h) == \A d \in Addr : SameRoute(g.rt[d], h.rt[d])

LEMMA TimeoutRoutes ==
  ASSUME NEW h, Tabled(h), NEW d
  PROVE  /\ Tabled(rt_table_update_timeout(h, d)) /\ SameRest(rt_table_update_timeout(h, d), h)
         /\ SameRoutes(rt_table_update_timeout(h, d), h)
<1> DEFINE g == rt_table_update_timeout(h, d)
<1>1. ASSUME present(h, d) PROVE Tabled(g) /\ SameRest(g, h) /\ SameRoutes(g, h)
  <2> DEFINE e == [h.rt[d] EXCEPT !.armed = TRUE]
  <2>1. Lasting(h.rt[d], d, Addr)
    BY <1>1 DEF Tabled, present
  <2>2. Lasting(e, d, Addr) /\ SameRoute(e, h.rt[d])
    BY <2>1 DEF Lasting, SameRoute
  <2>3. /\ SameRest(g, h) /\ DOMAIN g.rt = Addr
        /\ \A x \in Addr : g.rt[x] = IF x = d THEN e ELSE h.rt[x]
    BY <1>1, <2>1 DEF rt_table_update_timeout, Tabled, SameRest, Lasting
  <2> HIDE DEF g, e
  <2> QED BY <2>2, <2>3 DEF Tabled, SameRest, SameRoutes, SameRoute
<1>2. ASSUME ~present(h, d) PROVE g = h
  BY <1>2 DEF rt_table_update_timeout
<1>3. SameRest(h, h) /\ SameRoutes(h, h)
  BY DEF SameRest, SameRoutes, SameRoute
<1> HIDE DEF g
<1>4. Tabled(g) /\ SameRest(g, h) /\ SameRoutes(g, h)
  BY <1>1, <1>2, <1>3
<1> QED BY <1>4 DEF g

LEMMA PrecursorRoutes ==
  ASSUME NEW h, Tabled(h), NEW d, NEW a
  PROVE  /\ Tabled(precursor_add(h, d, a)) /\ SameRest(precursor_add(h, d, a), h)
         /\ SameRoutes(precursor_add(h, d, a), h)
<1> DEFINE g == precursor_add(h, d, a)
<1>1. ASSUME present(h, d) /\ a \in Addr PROVE Tabled(g) /\ SameRest(g, h) /\ SameRoutes(g, h)
  <2> DEFINE e == [h.rt[d] EXCEPT !.prec = h.rt[d].prec \cup {a}]
  <2>1. Lasting(h.rt[d], d, Addr)
    BY <1>1 DEF Tabled, present
  <2>2. Lasting(e, d, Addr) /\ SameRoute(e, h.rt[d])
    BY <2>1 DEF Lasting, SameRoute
  <2>3. /\ SameRest(g, h) /\ DOMAIN g.rt = Addr
        /\ \A x \in Addr : g.rt[x] = IF x = d THEN e ELSE h.rt[x]
    BY <1>1 DEF precursor_add, Tabled, SameRest
  <2> HIDE DEF g, e
  <2> QED BY <2>2, <2>3 DEF Tabled, SameRest, SameRoutes, SameRoute
<1>2. ASSUME ~(present(h, d) /\ a \in Addr) PROVE g = h
  BY <1>2 DEF precursor_add
<1>3. SameRest(h, h) /\ SameRoutes(h, h)
  BY DEF SameRest, SameRoutes, SameRoute
<1> HIDE DEF g
<1>4. Tabled(g) /\ SameRest(g, h) /\ SameRoutes(g, h)
  BY <1>1, <1>2, <1>3
<1> QED BY <1>4 DEF g

---------------------------------------------------------------------------
(* The packet queue *)

\* All packets of a destination leave the queue.
LEMMA ClearedKept ==
  ASSUME NEW L, NEW h, Kept(h, L), NEW d \in Addr
  PROVE  Kept(cleared(h, d), L)
<1> DEFINE g == cleared(h, d)
           q == [h.queue EXCEPT ![d] = [o \in Origin |-> 0]]
<1>1. /\ DOMAIN g = DOMAIN h /\ g.rt = h.rt /\ g.queue = q
      /\ g.pqlen = h.pqlen - buffered(h, d) /\ g.ipaddr = h.ipaddr /\ g.out = h.out
  BY DEF cleared, Kept
<1>2. q \in Queue
  BY DEF Queue, Kept, Origin
<1>3. Counted(q, h.pqlen - buffered(h, d))
  BY NoneLeft DEF Kept, buffered
<1> HIDE DEF g, q
<1>4. Kept(g, L)
  BY <1>1, <1>2, <1>3 DEF Kept
<1> QED BY <1>4 DEF g

\* They are sent, or dropped.
LEMMA PqSendKept ==
  ASSUME NEW L, NEW h, Kept(h, L), NEW d \in Addr
  PROVE  Kept(pq_send(h, d), L)
<1> DEFINE nh == h.rt[d].next
           h1 == cleared(h, d)
           h2 == IF h.queue[d]["own"] = 0 THEN h1
                 ELSE sendPacket(h1, nh, MAXTTL,
                        [type |-> "DATA", src |-> h.ipaddr, dest |-> d])
           h3 == IF valid(h2, d) THEN rt_table_update_timeout(h2, d) ELSE h2
           h4 == IF valid(h3, d) /\ valid(h3, nh) /\ nh # d
                 THEN rt_table_update_timeout(h3, nh) ELSE h3
<1>1. pq_send(h, d) = h4
  BY DEF pq_send
<1>2. Kept(h1, L)
  BY ClearedKept
<1> HIDE DEF h1, nh
<1>3. Kept(h2, L)
  <2>1. Quiet([type |-> "DATA", src |-> h.ipaddr, dest |-> d])
    BY DEF Quiet
  <2> QED BY <1>2, <2>1, SendPacketKept
<1> HIDE DEF h2
<1>4. Kept(h3, L)
  BY <1>3, UpdateTimeoutKept
<1> HIDE DEF h3
<1>5. Kept(h4, L)
  BY <1>4, UpdateTimeoutKept
<1> HIDE DEF h4
<1> QED BY <1>1, <1>5

\* A discovery ends.
LEMMA SeekFoundKept ==
  ASSUME NEW L, NEW h, Kept(h, L), NEW d \in Addr
  PROVE  Kept(seek_found(h, d), L)
<1> DEFINE g == [h EXCEPT !.seek[d] = NoSeek]
<1>1. SameRest(g, h) /\ g.rt = h.rt
  BY DEF Kept, SameRest
<1>2. seek_found(h, d) = IF h.seek[d].on THEN pq_send(g, d) ELSE h
  BY DEF seek_found
<1> HIDE DEF g
<1> QED BY <1>1, <1>2, KeptSame, PqSendKept

\* A packet joins the queue when there is room or one to drop.
LEMMA QueueAddKept ==
  ASSUME NEW L, NEW h, Kept(h, L), NEW d \in Addr, NEW o \in Origin, NEW v \in Addr,
         NEW vo \in Origin, Room(h, v, vo)
  PROVE  LET g == packet_queue_add(h, d, o, v, vo)
         IN  Kept(g, L) /\ g.rt = h.rt /\ DOMAIN g = DOMAIN h
<1> DEFINE full == h.pqlen >= MAX_QUEUE_LENGTH /\ h.queue[v][vo] > 0
           q1 == IF full THEN [h.queue EXCEPT ![v][vo] = h.queue[v][vo] - 1] ELSE h.queue
           n1 == IF full THEN h.pqlen - 1 ELSE h.pqlen
           q2 == [q1 EXCEPT ![d][o] = q1[d][o] + 1]
           g == packet_queue_add(h, d, o, v, vo)
<1>1. h.queue \in Queue /\ Counted(h.queue, h.pqlen)
  BY DEF Kept
<1>2. h.pqlen \in Nat
  BY <1>1, CountedType
<1>3. q1 \in Queue
  BY <1>1 DEF Queue
<1>4. q2 \in Queue
  <2> HIDE DEF q1
  <2> QED BY <1>3 DEF Queue
<1>5. /\ DOMAIN g = DOMAIN h /\ g.rt = h.rt /\ g.queue = q2 /\ g.pqlen = n1 + 1
      /\ g.ipaddr = h.ipaddr /\ g.out = h.out
  BY DEF packet_queue_add, Kept
<1>6. Counted(q1, n1) /\ n1 < MAX_QUEUE_LENGTH
  <2>1. h.pqlen <= MAX_QUEUE_LENGTH
    BY <1>1 DEF Counted
  <2>2. CASE full
    <3>1. Counted([h.queue EXCEPT ![v][vo] = h.queue[v][vo] - 1], h.pqlen - 1)
      BY <1>1, <2>2, OneLess
    <3>2. h.pqlen - 1 < MAX_QUEUE_LENGTH
      BY <1>2, <2>1, LimitAssumption
    <3> QED BY <2>2, <3>1, <3>2
  <2>3. CASE ~full
    <3>1. h.pqlen < MAX_QUEUE_LENGTH
      BY <1>2, <2>3, LimitAssumption DEF Room
    <3> QED BY <1>1, <2>3, <3>1
  <2> QED BY <2>2, <2>3
<1> HIDE DEF q1, n1
<1>7. Counted(q2, n1 + 1)
  BY <1>3, <1>6, OneMore
<1> HIDE DEF q2, g
<1>8. Kept(g, L)
  BY <1>4, <1>5, <1>7 DEF Kept
<1> QED BY <1>5, <1>8 DEF g

---------------------------------------------------------------------------
(* Insertion and update *)

\* Any of the insertions.
LEMMA InsertEntryKept ==
  ASSUME NEW L, NEW h, Kept(h, L), NEW d \in Addr, NEW next, NEW hops, NEW seqno, NEW life,
         NEW state \in {"valid", "invalid"}, NEW flags, "UNIDIR" \in flags => unidir_hack,
         NEW channel, NEW cost,
         present(h, d) \/ state = "valid" \/ d \in L
  PROVE  Kept(insert_entry(h, d, next, hops, seqno, life, state, flags, channel, cost), L)
<1>1. CASE present(h, d)
  BY <1>1 DEF insert_entry
<1>2. CASE ~present(h, d)
  <2> DEFINE new == NewEntry(next, hops, seqno, flags, channel, cost)
             e   == IF state = "valid" THEN [new EXCEPT !.armed = (life # 0)]
                    ELSE [new EXCEPT !.state = "invalid", !.armed = TRUE,
                            !.handler = IF "REPAIR" \in flags THEN "repair" ELSE "delete"]
             g   == [h EXCEPT !.rt[d] = e]
             h1  == [h EXCEPT !.rt[d] = e, !.num_entries = plus(@, 1),
                              !.num_active = IF state = "valid" THEN plus(@, 1) ELSE @]
  <2>1. Lasting(e, d, L)
    BY <1>2 DEF Lasting, NewEntry
  <2>2. Kept(g, L)
    <3> HIDE DEF e
    <3> QED BY <2>1, KeptEntry
  <2>3. SameRest(h1, g) /\ h1.rt = g.rt
    <3> HIDE DEF e
    <3> QED BY DEF Kept, SameRest
  <2>4. insert_entry(h, d, next, hops, seqno, life, state, flags, channel, cost)
          = IF state = "valid" THEN seek_found(h1, d) ELSE h1
    BY <1>2 DEF insert_entry, SameRest
  <2> HIDE DEF g, h1
  <2>5. Kept(h1, L)
    BY <2>2, <2>3, KeptSame
  <2> QED BY <2>4, <2>5, SeekFoundKept
<1> QED BY <1>1, <1>2

LEMMA InsertKept ==
  ASSUME NEW L, NEW h, Kept(h, L), NEW d \in Addr, NEW next, NEW hops, NEW seqno, NEW life,
         NEW state \in {"valid", "invalid"}, NEW flags, "UNIDIR" \in flags => unidir_hack,
         NEW channel, NEW cost, present(h, d) \/ state = "valid" \/ d \in L
  PROVE  /\ Kept(rt_table_insert(h, d, next, hops, seqno, life, state, flags), L)
         /\ Kept(rt_table_insert_with_channel(h, d, next, hops, seqno, life, state, flags,
                                              channel, cost), L)
BY InsertEntryKept DEF rt_table_insert, rt_table_insert_with_channel

\* A field of an entry that does not matter to Lasting is written.
LEMMA KeptField ==
  ASSUME NEW L, NEW h, Kept(h, L), NEW d, NEW x
  PROVE  /\ Kept([h EXCEPT !.rt[d].hello = x], L) /\ Kept([h EXCEPT !.rt[d].ack = x], L)
         /\ Kept([h EXCEPT !.rt[d].seqno = x], L) /\ Kept([h EXCEPT !.rt[d].hello_cnt = x], L)
<1>1. Kept([h EXCEPT !.rt[d] = [h.rt[d] EXCEPT !.hello = x]], L)
  <2>1. d \in Addr => Lasting([h.rt[d] EXCEPT !.hello = x], d, L)
    BY DEF Kept, Lasting
  <2> QED BY <2>1, KeptEntry
<1>2. Kept([h EXCEPT !.rt[d] = [h.rt[d] EXCEPT !.ack = x]], L)
  <2>1. d \in Addr => Lasting([h.rt[d] EXCEPT !.ack = x], d, L)
    BY DEF Kept, Lasting
  <2> QED BY <2>1, KeptEntry
<1>3. Kept([h EXCEPT !.rt[d] = [h.rt[d] EXCEPT !.seqno = x]], L)
  <2>1. d \in Addr => Lasting([h.rt[d] EXCEPT !.seqno = x], d, L)
    BY DEF Kept, Lasting
  <2> QED BY <2>1, KeptEntry
<1>4. Kept([h EXCEPT !.rt[d] = [h.rt[d] EXCEPT !.hello_cnt = x]], L)
  <2>1. d \in Addr => Lasting([h.rt[d] EXCEPT !.hello_cnt = x], d, L)
    BY DEF Kept, Lasting
  <2> QED BY <2>1, KeptEntry
<1> QED BY <1>1, <1>2, <1>3, <1>4

\* A flag is added to an entry.
LEMMA KeptFlag ==
  ASSUME NEW L, NEW h, Kept(h, L), NEW d, NEW f, "UNIDIR" \in f => unidir_hack
  PROVE  Kept([h EXCEPT !.rt[d].flags = @ \cup f], L)
<1> DEFINE e == [h.rt[d] EXCEPT !.flags = h.rt[d].flags \cup f]
<1>1. d \in Addr => Lasting(e, d, L)
  BY DEF Kept, Lasting
<1>2. [h EXCEPT !.rt[d].flags = @ \cup f] = [h EXCEPT !.rt[d] = e]
  OBVIOUS
<1> HIDE DEF e
<1> QED BY <1>1, <1>2, KeptEntry

\* A neighbour moves away.
LEMMA NoLongerNeighborKept ==
  ASSUME NEW L, NEW h, Kept(h, L), NEW d, NEW hops
  PROVE  Kept(no_longer_neighbor(h, d, hops), L \cup {d})
<1>1. Kept([h EXCEPT !.rt[d].hello_cnt = 0, !.rt[d].hello = FALSE], L)
  <2> DEFINE g == [h EXCEPT !.rt[d].hello_cnt = 0]
  <2>1. Kept(g, L)
    BY KeptField
  <2>2. [h EXCEPT !.rt[d].hello_cnt = 0, !.rt[d].hello = FALSE]
          = [g EXCEPT !.rt[d].hello = FALSE]
    OBVIOUS
  <2> HIDE DEF g
  <2> QED BY <2>1, <2>2, KeptField
<1>2. Kept([h EXCEPT !.rt[d].hello_cnt = 0, !.rt[d].hello = FALSE], L \cup {d})
  BY <1>1, KeptMore
<1>3. Kept(h, L \cup {d})
  BY KeptMore
<1> QED BY <1>2, <1>3, LinkBreakKept DEF no_longer_neighbor

\* The flags of an entry may be written to an entry.
LEMMA FlagsKept ==
  ASSUME NEW L, NEW h, Kept(h, L), NEW d \in Addr PROVE "UNIDIR" \in h.rt[d].flags => unidir_hack
BY DEF Kept, Lasting

\* A route is updated.
LEMMA UpdateKept ==
  ASSUME NEW L, NEW h, Kept(h, L), NEW d \in Addr, NEW next, NEW hops, NEW seqno, NEW flags,
         "UNIDIR" \in flags => unidir_hack, NEW channel, NEW cost
  PROVE  Kept(rt_table_update_with_channel(h, d, next, hops, seqno, flags, channel, cost), L)
<1> DEFINE revived == invalid(h, d)
           f  == IF revived /\ "REPAIR" \in h.rt[d].flags THEN flags \ {"REPAIR"} ELSE flags
           h1 == IF revived THEN [h EXCEPT !.num_active = plus(@, 1)] ELSE h
           h2 == no_longer_neighbor(h1, d, hops)
           e  == [h2.rt[d] EXCEPT
                    !.flags = f, !.seqno = seqno, !.next = next, !.hcnt = hops,
                    !.channel = channel, !.cost = cost, !.handler = "expire",
                    !.armed = TRUE, !.state = "valid"]
           h3 == [h2 EXCEPT !.rt[d] = e]
<1>1. rt_table_update_with_channel(h, d, next, hops, seqno, flags, channel, cost)
        = seek_found(h3, d)
  BY DEF rt_table_update_with_channel
<1>2. Kept(h1, L)
  <2>1. SameRest(h1, h) /\ h1.rt = h.rt
    BY DEF Kept, SameRest
  <2> HIDE DEF h1
  <2> QED BY <2>1, KeptSame
<1>6. "UNIDIR" \in f => unidir_hack
  OBVIOUS
<1> HIDE DEF h1, f
<1>3. Kept(h2, L \cup {d})
  BY <1>2, NoLongerNeighborKept
<1> HIDE DEF h2
<1>4. Lasting(e, d, L)
  BY <1>3, <1>6 DEF Kept, Lasting
<1> HIDE DEF e
<1>5. Kept(h3, L)
  BY <1>3, <1>4, KeptAgain
<1> HIDE DEF h3
<1> QED BY <1>1, <1>5, SeekFoundKept

LEMMA UpdateRouteKept ==
  ASSUME NEW L, NEW h, Kept(h, L), NEW d \in Addr, NEW next, NEW hops, NEW seqno, NEW flags,
         "UNIDIR" \in flags => unidir_hack
  PROVE  Kept(rt_table_update(h, d, next, hops, seqno, flags), L)
BY UpdateKept DEF rt_table_update

\* Any message shows a neighbour.
LEMMA NeighborAddKept ==
  ASSUME NEW L, NEW h, Kept(h, L), NEW src \in Addr
  PROVE  Kept(neighbor_add(h, src), L)
<1>1. Kept(rt_table_insert(h, src, src, 1, 0, 1, "valid", {}), L)
  BY InsertKept
<1>2. Kept(rt_table_update(h, src, src, 1, h.rt[src].seqno, h.rt[src].flags), L)
  BY FlagsKept, UpdateRouteKept
<1> QED BY <1>1, <1>2 DEF neighbor_add

\* A data packet renews the timers of its routes.
LEMMA RenewRouteKept ==
  ASSUME NEW L, NEW h, Kept(h, L), NEW d
  PROVE  Kept(RenewRoute(h, d, llfeedback), L)
<1> DEFINE e  == h.rt[d]
           h1 == IF llfeedback \/ e.hcnt # 1 \/ e.hello
                 THEN rt_table_update_timeout(h, d) ELSE h
           h2 == IF valid(h1, e.next) /\ e.next # d /\ (llfeedback \/ e.hello)
                 THEN rt_table_update_timeout(h1, e.next) ELSE h1
<1>1. RenewRoute(h, d, llfeedback) = IF ~valid(h, d) THEN h ELSE h2
  BY DEF RenewRoute
<1> HIDE DEF e
<1>2. Kept(h1, L)
  BY UpdateTimeoutKept
<1> HIDE DEF h1
<1>3. Kept(h2, L)
  BY <1>2, UpdateTimeoutKept
<1> HIDE DEF h2
<1> QED BY <1>1, <1>3

LEMMA RenewRoutesKept ==
  ASSUME NEW L, NEW h, Kept(h, L), NEW dest, NEW src
  PROVE  Kept(rt_table_update_route_timeouts(h, dest, src, llfeedback), L)
BY RenewRouteKept DEF rt_table_update_route_timeouts

---------------------------------------------------------------------------
(* AodvControl: discovery and replies *)

\* A flood and the start of a discovery.
LEMMA FloodKept ==
  ASSUME NEW L, NEW h, Kept(h, L), NEW d, NEW s, NEW ttl, NEW g
  PROVE  Kept(rreq_flood(h, d, s, ttl, g), L)
<1> DEFINE rreq(i) == [type |-> "RREQ", id |-> i, dest |-> d, dest_seqno |-> s,
                       orig |-> h.ipaddr, orig_seqno |-> (h.seqno + 1) % SeqnoMod,
                       hcnt |-> 0, g |-> g \/ rreq_gratuitous, cost |-> 0]
           k == rreq_flood(h, d, s, ttl, g)
<1>1. /\ DOMAIN k = DOMAIN h /\ k.rt = h.rt /\ k.queue = h.queue /\ k.pqlen = h.pqlen
      /\ k.ipaddr = h.ipaddr
      /\ k.out = h.out \cup {[dst |-> Bcast, ttl |-> ttl, ch |-> AllChannels,
                              msg |-> rreq(plus(h.rreq_id, c))] : c \in Channel}
  BY DEF rreq_flood, Kept
<1>2. \A i : Quiet(rreq(i))
  BY DEF Quiet
<1> HIDE DEF k, rreq
<1>3. \A p \in k.out : Quiet(p.msg)
  <2>1. \A p \in h.out : Quiet(p.msg)
    BY DEF Kept
  <2> QED BY <1>1, <1>2, <2>1
<1>4. Kept(k, L)
  BY <1>1, <1>3, KeptSent
<1> QED BY <1>4 DEF k

LEMMA DiscoveryKept ==
  ASSUME NEW L, NEW h, Kept(h, L), NEW d, NEW g
  PROVE  Kept(rreq_route_discovery(h, d, g), L)
<1> DEFINE s  == IF present(h, d) THEN h.rt[d].seqno ELSE 0
           h1 == rreq_flood(rt_table_update_timeout(h, d), d, s, RREQ_TTL, g)
           h2 == [h1 EXCEPT !.seqno = seqno_incr(@),
                            !.seek[d] = [on |-> TRUE, seqno |-> s, reqs |-> 0, g |-> g]]
<1>1. rreq_route_discovery(h, d, g) = IF h.seek[d].on THEN h ELSE h2
  BY DEF rreq_route_discovery
<1>2. Kept(h1, L)
  BY UpdateTimeoutKept, FloodKept
<1> HIDE DEF h1, s
<1>3. SameRest(h2, h1) /\ h2.rt = h1.rt
  BY <1>2 DEF Kept, SameRest
<1> HIDE DEF h2
<1> QED BY <1>1, <1>2, <1>3, KeptSame

\* A RREP leaves; the RREP-ACK test may break a link.
LEMMA RequestAckKept ==
  ASSUME NEW L, NEW h, Kept(h, L), NEW rev
  PROVE  Kept(request_ack(h, rev), L)
<1> DEFINE n  == h.rt[rev].next
           g  == [h EXCEPT !.rt[n].flags = @ \cup {"UNIDIR"}]
           h1 == [h EXCEPT !.rt[n].flags = @ \cup {"UNIDIR"}, !.rt[n].hello = FALSE]
           h2 == neighbor_link_break(h1, n)
           h3 == [h2 EXCEPT !.rt[n].ack = TRUE]
<1>1. request_ack(h, rev) = h \/ (unidir_hack /\ request_ack(h, rev) = h3)
  <2>1. valid(h, rev) /\ "UNIDIR" \in h.rt[rev].flags => unidir_hack
    BY FlagsKept DEF valid
  <2> QED BY <2>1 DEF request_ack
<1> SUFFICES ASSUME unidir_hack PROVE Kept(h3, L)
  BY <1>1
<1> HIDE DEF n
<1>2. Kept(g, L)
  BY KeptFlag
<1>3. h1 = [g EXCEPT !.rt[n].hello = FALSE]
  OBVIOUS
<1> HIDE DEF g, h1
<1>4. Kept(h1, L)
  BY <1>2, <1>3, KeptField
<1>6. Kept(h1, L \cup {n})
  BY <1>4, KeptMore
<1>5. Kept(h2, L)
  <2>1. Kept(h2, L \cup {n})
    BY <1>6, LinkBreakKept
  <2> HIDE DEF h2
  <2> QED BY <2>1, KeptMore
<1> HIDE DEF h2
<1> QED BY <1>5, KeptField

LEMMA KeptChannel ==
  ASSUME NEW L, NEW h, Kept(h, L), NEW c PROVE Kept([h EXCEPT !.channelNum = c], L)
<1> DEFINE g == [h EXCEPT !.channelNum = c]
<1>1. SameRest(g, h) /\ g.rt = h.rt
  BY DEF Kept, SameRest
<1> HIDE DEF g
<1>2. Kept(g, L)
  BY <1>1, KeptSame
<1> QED BY <1>2 DEF g

LEMMA RrepSendKept ==
  ASSUME NEW L, NEW h, Kept(h, L), NEW rrep, Quiet(rrep), NEW rev, NEW fwd, NEW channel
  PROVE  Kept(rrep_send_with_channel(h, rrep, rev, fwd, channel), L)
<1> DEFINE h1    == request_ack(h, rev)
           nh    == h.rt[rev].next
           fresh == {p.msg : p \in h1.out \ h.out}
           buf   == IF fresh = {} THEN rrep ELSE CHOOSE m \in fresh : TRUE
           hc    == [h1 EXCEPT !.channelNum = channel]
           h2    == aodv_socket_send(hc, nh, MAXTTL, buf)
           h3    == precursor_add(h2, fwd, nh)
           h4    == precursor_add(h3, rev, h.rt[fwd].next)
<1>1. rrep_send_with_channel(h, rrep, rev, fwd, channel) = IF fwd \in Addr THEN h4 ELSE h2
  BY DEF rrep_send_with_channel
<1>2. Kept(h1, L)
  BY RequestAckKept
<1> HIDE DEF h1
<1>3. Kept(hc, L)
  BY <1>2, KeptChannel
<1>7. Quiet(buf)
  <2>1. \A m \in fresh : Quiet(m)
    BY <1>2 DEF Kept
  <2> HIDE DEF fresh
  <2> QED BY <2>1
<1> HIDE DEF hc, nh, buf
<1>4. Kept(h2, L)
  BY <1>3, <1>7, SocketSendKept
<1> HIDE DEF h2
<1>5. Kept(h3, L)
  BY <1>4, PrecursorAddKept
<1> HIDE DEF h3
<1>6. Kept(h4, L)
  BY <1>5, PrecursorAddKept
<1> HIDE DEF h4
<1> QED BY <1>1, <1>4, <1>6

LEMMA RrepForwardKept ==
  ASSUME NEW L, NEW h, Kept(h, L), NEW rrep, NEW rev, NEW fwd,
         Quiet([rrep EXCEPT !.hcnt = h.rt[fwd].hcnt])
  PROVE  Kept(rrep_forward(h, rrep, rev, fwd), L)
<1> DEFINE nh == h.rt[rev].next
           h1 == aodv_socket_send(h, nh, MAXTTL, [rrep EXCEPT !.hcnt = h.rt[fwd].hcnt])
           h2 == precursor_add(h1, fwd, nh)
           h3 == precursor_add(h2, rev, h.rt[fwd].next)
           h4 == rt_table_update_timeout(h3, rev)
<1>1. rrep_forward(h, rrep, rev, fwd) = h4
  BY DEF rrep_forward
<1>2. Kept(h1, L)
  BY SocketSendKept
<1> HIDE DEF h1, nh
<1>3. Kept(h2, L)
  BY <1>2, PrecursorAddKept
<1> HIDE DEF h2
<1>4. Kept(h3, L)
  BY <1>3, PrecursorAddKept
<1> HIDE DEF h3
<1>5. Kept(h4, L)
  BY <1>4, UpdateTimeoutKept
<1> HIDE DEF h4
<1> QED BY <1>1, <1>5

LEMMA RrepForwardRouteKept ==
  ASSUME NEW L, NEW h, Kept(h, L), NEW m, m.dest \in Addr, NEW src, NEW channel, NEW cost
  PROVE  Kept(rrep_forward_route(h, m, src, channel, cost), L)
BY InsertKept, UpdateKept, FlagsKept DEF rrep_forward_route

LEMMA RrepProcessKept ==
  ASSUME NEW L, NEW h, Kept(h, L), NEW m \in RREP, NEW src, NEW channel, NEW link
  PROVE  Kept(rrep_process(h, m, src, channel, link), L)
<1> DEFINE cost == IF m.ext THEN m.cost + link ELSE NoExtCost
           h1 == rrep_forward_route(h, m, src, channel, cost)
           h2 == IF m.a THEN aodv_socket_send(h1, h1.rt[m.dest].next, MAXTTL,
                                              [type |-> "RREP_ACK"]) ELSE h1
           hc == [h2 EXCEPT !.channelNum = h2.rt[m.orig].channel]
           mc == [m EXCEPT !.a = FALSE, !.cost = IF m.ext THEN cost ELSE @]
           h3 == rrep_forward(hc, mc, m.orig, m.dest)
<1>1. rrep_process(h, m, src, channel, link) \in {h, h2, h3}
  BY DEF rrep_process
<1>2. Kept(h1, L)
  BY RrepForwardRouteKept DEF RREP
<1> HIDE DEF h1, cost
<1>3. Kept(h2, L)
  <2>1. Quiet([type |-> "RREP_ACK"])
    BY DEF Quiet
  <2> QED BY <1>2, <2>1, SocketSendKept
<1> HIDE DEF h2
<1>4. Kept(hc, L)
  BY <1>3, KeptChannel
<1>6. \A k : Quiet([mc EXCEPT !.hcnt = k])
  <2>1. mc.type = "RREP" /\ "type" \in DOMAIN mc
    BY DEF RREP
  <2> HIDE DEF mc
  <2> QED BY <2>1 DEF Quiet
<1> HIDE DEF hc, mc
<1>5. Kept(h3, L)
  BY <1>4, <1>6, RrepForwardKept
<1> HIDE DEF h3
<1> QED BY <1>1, <1>3, <1>5

---------------------------------------------------------------------------
(* AodvControl: requests, errors and HELLOs *)

LEMMA KeptSeqno ==
  ASSUME NEW L, NEW h, Kept(h, L), NEW s PROVE Kept([h EXCEPT !.seqno = s], L)
<1> DEFINE g == [h EXCEPT !.seqno = s]
<1>1. SameRest(g, h) /\ g.rt = h.rt
  BY DEF Kept, SameRest
<1> HIDE DEF g
<1>2. Kept(g, L)
  BY <1>1, KeptSame
<1> QED BY <1>2 DEF g

LEMMA KeptRecords ==
  ASSUME NEW L, NEW h, Kept(h, L), NEW r PROVE Kept([h EXCEPT !.records = r], L)
<1> DEFINE g == [h EXCEPT !.records = r]
<1>1. SameRest(g, h) /\ g.rt = h.rt
  BY DEF Kept, SameRest
<1> HIDE DEF g
<1>2. Kept(g, L)
  BY <1>1, KeptSame
<1> QED BY <1>2 DEF g

LEMMA RrepQuiet ==
  \A hcnt, dest, seqno, orig, life, ext, cost :
    Quiet(Rrep(hcnt, dest, seqno, orig, life, ext, cost))
BY DEF Quiet, Rrep

\* An answer from the table: two RREPs at most.
LEMMA AnswerFromTableKept ==
  ASSUME NEW L, NEW h, Kept(h, L), NEW m, NEW left
  PROVE  Kept(rreq_answer_from_table(h, m, left), L)
<1> DEFINE f  == h.rt[m.dest]
           h1 == rrep_send_with_channel(
                   h, Rrep(f.hcnt, m.dest, f.seqno, m.orig, left, TRUE, f.cost),
                   m.orig, m.dest, f.channel)
           r  == h1.rt[m.orig]
           h2 == rrep_send_with_channel(
                   h1, Rrep(r.hcnt, m.orig, r.seqno, m.dest, left, FALSE, 0),
                   m.dest, m.orig, f.channel)
<1>1. rreq_answer_from_table(h, m, left) = IF ~m.g THEN h1 ELSE h2
  BY DEF rreq_answer_from_table
<1> HIDE DEF f
<1>2. Kept(h1, L)
  BY RrepQuiet, RrepSendKept
<1> HIDE DEF h1, r
<1>3. Kept(h2, L)
  BY <1>2, RrepQuiet, RrepSendKept
<1> HIDE DEF h2
<1> QED BY <1>1, <1>2, <1>3

\* A request is passed on.
LEMMA RreqForwardKept ==
  ASSUME NEW L, NEW h, Kept(h, L), NEW m \in RREQ, NEW cost, NEW ttl
  PROVE  Kept(rreq_forward_with_channel(h, m, cost, ttl), L)
<1>1. \A k, s, c : Quiet([m EXCEPT !.hcnt = k, !.dest_seqno = s, !.cost = c])
  BY DEF RREQ, Quiet
<1> QED BY <1>1, KeptChannel, SocketSendKept DEF rreq_forward_with_channel

LEMMA AsIntermediateKept ==
  ASSUME NEW L, NEW h, Kept(h, L), NEW m \in RREQ, NEW cost, NEW ttl, NEW left
  PROVE  Kept(rreq_as_intermediate(h, m, cost, ttl, left), L)
<1> DEFINE h1 == IF present(h, m.dest) /\ h.rt[m.dest].channel = NoChannel
                 THEN rt_table_delete(h, m.dest) ELSE h
<1>1. Kept(h1, L)
  BY DeleteKept
<1>2. \/ rreq_as_intermediate(h, m, cost, ttl, left) = rreq_answer_from_table(h1, m, left)
      \/ rreq_as_intermediate(h, m, cost, ttl, left)
           = rreq_forward_with_channel(h1, m, cost, ttl)
  BY DEF rreq_as_intermediate
<1> HIDE DEF h1
<1> QED BY <1>1, <1>2, AnswerFromTableKept, RreqForwardKept

LEMMA RreqProcessKept ==
  ASSUME NEW L, NEW h, Kept(h, L), NEW m \in RREQ, NEW src, NEW channel, NEW ttl, NEW link,
         NEW left
  PROVE  Kept(rreq_process(h, m, src, channel, ttl, link, left), L)
<1> DEFINE cost == m.cost + link
           h1 == rreq_record_insert_with_cost(h, m, cost)
           h2 == rreq_reverse_route(h1, m, src, channel, cost)
           h3 == rreq_answer_as_dest(h2, m, channel)
           h4 == rreq_as_intermediate(h2, m, cost, ttl, left)
<1>1. rreq_process(h, m, src, channel, ttl, link, left) \in {h, h1, h3, h4}
  BY DEF rreq_process
<1>2. Kept(h1, L)
  BY KeptRecords DEF rreq_record_insert_with_cost
<1> HIDE DEF h1, cost
<1>3. Kept(h2, L)
  <2>1. m.orig \in Addr
    BY DEF RREQ
  <2> QED BY <1>2, <2>1, InsertKept, UpdateKept, FlagsKept DEF rreq_reverse_route
<1> HIDE DEF h2
<1>4. Kept(h3, L)
  BY <1>3, KeptSeqno, RrepQuiet, RrepSendKept DEF rreq_answer_as_dest
<1>5. Kept(h4, L)
  BY <1>3, AsIntermediateKept
<1> HIDE DEF h3, h4
<1> QED BY <1>1, <1>2, <1>4, <1>5

\* A RERR rewrites the entries it hits.
LEMMA RerrProcessKept ==
  ASSUME NEW L, NEW h, Kept(h, L), NEW m, NEW src,
         src \in L \/ \A u \in rerr_read(m) : u.addr # src
  PROVE  Kept(rerr_process(h, m, src), L)
<1> DEFINE read == {u \in rerr_read(m) : valid(h, u.addr) /\ h.rt[u.addr].next = src}
           hit  == {u.addr : u \in read}
           seq(d) == (CHOOSE u \in read : u.addr = d).seqno
           told == {d \in hit : h.rt[d].prec # {} /\ "REPAIR" \notin h.rt[d].flags}
           prec == [d \in Addr |-> h.rt[d].prec]
           gone(e, s) == IF m.n THEN [e EXCEPT !.seqno = s]
                         ELSE [invalidated(e) EXCEPT !.seqno = s, !.prec = {}]
           h1 == [h EXCEPT
                    !.rt = [d \in Addr |-> IF d \in hit THEN gone(h.rt[d], seq(d)) ELSE h.rt[d]],
                    !.num_active = IF m.n THEN @ ELSE plus(@, -Cardinality(hit))]
<1>1. rerr_process(h, m, src)
        = sendRerr(h1, IF m.first \in told THEN m.first ELSE least(told), told, prec, m.n)
  BY DEF rerr_process
<1> HIDE DEF told, prec
<1>6. \A d \in hit : d \in L \/ h.rt[d].next # d
  BY DEF read
<1>2. ASSUME NEW d \in hit, d \in Addr, NEW s PROVE Lasting(gone(h.rt[d], s), d, L)
  <2>1. Lasting(h.rt[d], d, L)
    BY <1>2 DEF Kept
  <2>2. Lasting([h.rt[d] EXCEPT !.seqno = s], d, L)
    BY <2>1 DEF Lasting
  <2>3. Lasting(invalidated(h.rt[d]), d, L)
    BY <1>6, <2>1, InvalidatedLasting
  <2>4. Lasting([invalidated(h.rt[d]) EXCEPT !.seqno = s, !.prec = {}], d, L)
    BY <2>3 DEF Lasting
  <2> QED BY <2>2, <2>4
<1> HIDE DEF gone, seq, read, hit
<1>3. /\ SameRest(h1, h)
      /\ h1.rt = [d \in Addr |-> IF d \in hit THEN gone(h.rt[d], seq(d)) ELSE h.rt[d]]
  BY DEF Kept, SameRest
<1> HIDE DEF h1
<1>4. DOMAIN h1.rt = Addr /\ \A d \in Addr : Lasting(h1.rt[d], d, L)
  BY <1>2, <1>3 DEF Kept
<1>5. Kept(h1, L)
  BY <1>3, <1>4, KeptTable
<1> QED BY <1>1, <1>5, SendRerrKept

\* A HELLO is acknowledged, and its sender entered or refreshed.
LEMMA HelloKept ==
  ASSUME NEW L, NEW h, Kept(h, L), NEW d \in Addr, NEW seqno, NEW channel, NEW listed, NEW close,
         present(h, d) \/ d \in L
  PROVE  Kept(hello_process(h, d, seqno, channel, listed, close), L)
<1> DEFINE h1  == hello_ack(h, d, channel)
           f   == hello_flags(h, d, listed)
           st  == IF receive_n_hellos > 0 THEN "invalid" ELSE "valid"
           in  == rt_table_insert(h1, d, d, 1, seqno, 1, st, f)
           in1 == [in EXCEPT !.rt[d].hello_cnt = 1]
           up  == rt_table_update(h1, d, d, 1, seqno, f)
           r1  == [in1 EXCEPT !.rt[d].hello = TRUE]
           r2  == [h1 EXCEPT !.rt[d].hello = TRUE]
           r3  == [h1 EXCEPT !.rt[d].hello_cnt = IF close THEN @ + 1 ELSE 1]
           r4  == [up EXCEPT !.rt[d].hello = TRUE]
<1>1. hello_process(h, d, seqno, channel, listed, close) \in {r1, r2, r3, r4}
  BY DEF hello_process
<1>2. Kept(h1, L)
  <2>1. Quiet([type |-> "HELLO_ACK"])
    BY DEF Quiet
  <2> QED BY <2>1, KeptChannel, SocketSendKept DEF hello_ack
<1>7. "UNIDIR" \in f => unidir_hack
  BY FlagsKept DEF hello_flags
<1>8. present(h1, d) \/ d \in L
  BY DEF hello_ack, aodv_socket_send, sendPacket, Kept, present
<1> HIDE DEF h1, f
<1>3. Kept(in, L) /\ Kept(up, L)
  BY <1>2, <1>7, <1>8, InsertKept, UpdateRouteKept
<1> HIDE DEF in, up
<1>4. Kept(in1, L)
  BY <1>3, KeptField
<1> HIDE DEF in1
<1>5. Kept(r1, L) /\ Kept(r2, L) /\ Kept(r4, L)
  BY <1>2, <1>3, <1>4, KeptField
<1>6. Kept(r3, L)
  <2> DEFINE x == IF close THEN h1.rt[d].hello_cnt + 1 ELSE 1
  <2>1. r3 = [h1 EXCEPT !.rt[d].hello_cnt = x]
    OBVIOUS
  <2> HIDE DEF x, r3
  <2> QED BY <1>2, <2>1, KeptField
<1> HIDE DEF r1, r2, r3, r4
<1> QED BY <1>1, <1>5, <1>6

---------------------------------------------------------------------------
(* AodvControl: timeouts and data packets *)

\* The timer of a VALID entry, or of one under repair, expires: what is left
\* INVALID is under repair or has a new timer.
LEMMA RouteExpireKept ==
  ASSUME NEW L, NEW h, Kept(h, L), NEW d \in Addr, h.rt[d].handler = "expire",
         d \in L
  PROVE  Kept(route_expire_timeout(h, d), L)
<1> DEFINE e  == [h.rt[d] EXCEPT !.armed = FALSE]
           h1 == [h EXCEPT !.rt[d] = e]
           h2 == rt_table_invalidate(h1, d)
<1>1. route_expire_timeout(h, d) = IF h.rt[d].hcnt = 1 THEN neighbor_link_break(h1, d)
                                   ELSE precursor_list_destroy(h2, d)
  BY DEF route_expire_timeout
<1>2. Lasting(e, d, L)
  <2>1. Lasting(h.rt[d], d, L)
    BY DEF Kept
  <2> QED BY <2>1 DEF Lasting
<1> HIDE DEF e
<1>3. Kept(h1, L)
  BY <1>2, KeptEntry
<1> HIDE DEF h1
<1>4. Kept(h2, L)
  BY <1>3, InvalidateKept
<1> HIDE DEF h2
<1> QED BY <1>1, <1>3, <1>4, LinkBreakKept, PrecursorsDestroyKept

LEMMA NoRouteRerrKept ==
  ASSUME NEW L, NEW h, Kept(h, L), NEW src, NEW dest
  PROVE  Kept(no_route_rerr(h, src, dest), L)
<1>1. \A s : Quiet([type |-> "RERR", first |-> dest, n |-> FALSE,
                     dests |-> {[addr |-> dest, seqno |-> s]}])
  BY DEF Quiet
<1> QED BY <1>1, UpdateTimeoutKept, SocketSendKept DEF no_route_rerr

\* The timers of routes are renewed without regard to the queue.
LEMMA RenewRoutesQueue ==
  ASSUME NEW L, NEW h, Kept(h, L), NEW dest, NEW src
  PROVE  LET g == rt_table_update_route_timeouts(h, dest, src, llfeedback)
         IN  g.queue = h.queue /\ g.pqlen = h.pqlen
<1>1. ASSUME NEW x, Kept(x, L), NEW d
      PROVE  LET g == rt_table_update_timeout(x, d)
             IN  g.queue = x.queue /\ g.pqlen = x.pqlen
  BY <1>1 DEF rt_table_update_timeout, Kept
<1>2. ASSUME NEW x, Kept(x, L), NEW d
      PROVE  LET g == RenewRoute(x, d, llfeedback)
             IN  g.queue = x.queue /\ g.pqlen = x.pqlen
  <2> DEFINE e  == x.rt[d]
             h1 == IF llfeedback \/ e.hcnt # 1 \/ e.hello
                   THEN rt_table_update_timeout(x, d) ELSE x
             h2 == IF valid(h1, e.next) /\ e.next # d /\ (llfeedback \/ e.hello)
                   THEN rt_table_update_timeout(h1, e.next) ELSE h1
  <2>1. RenewRoute(x, d, llfeedback) = IF ~valid(x, d) THEN x ELSE h2
    BY DEF RenewRoute
  <2> HIDE DEF e
  <2>2. Kept(h1, L) /\ h1.queue = x.queue /\ h1.pqlen = x.pqlen
    BY <1>1, <1>2, UpdateTimeoutKept
  <2> HIDE DEF h1
  <2>3. h2.queue = x.queue /\ h2.pqlen = x.pqlen
    BY <1>1, <2>2
  <2> HIDE DEF h2
  <2> QED BY <2>1, <2>3
<1>3. Kept(RenewRoute(h, dest, llfeedback), L)
  BY RenewRouteKept
<1> QED BY <1>2, <1>3 DEF rt_table_update_route_timeouts

\* The data path.
LEMMA ProcessPacketKept ==
  ASSUME NEW L, NEW h, Kept(h, L), NEW src, NEW dest \in Addr, NEW tcp, NEW v \in Addr,
         NEW vo \in Origin, Room(h, v, vo)
  PROVE  Kept(processPacket(h, src, dest, tcp, v, vo), L)
<1> DEFINE h1 == rt_table_update_route_timeouts(h, dest, src, llfeedback)
           h2 == packet_queue_add(h1, dest, "own", v, vo)
           r1 == sendPacket(h1, h1.rt[dest].next, MAXTTL,
                            [type |-> "DATA", src |-> src, dest |-> dest])
           r2 == no_route_rerr(h1, src, dest)
           r3 == rreq_route_discovery(h2, dest, tcp)
<1>1. processPacket(h, src, dest, tcp, v, vo) \in {h1, r1, r2, r3}
  BY DEF processPacket
<1>2. Kept(h1, L)
  BY RenewRoutesKept
<1>3. Room(h1, v, vo)
  BY RenewRoutesQueue DEF Room
<1> HIDE DEF h1
<1>4. Kept(h2, L)
  BY <1>2, <1>3, QueueAddKept DEF Origin
<1> HIDE DEF h2
<1>5. Kept(r1, L) /\ Kept(r2, L) /\ Kept(r3, L)
  <2>1. Quiet([type |-> "DATA", src |-> src, dest |-> dest])
    BY DEF Quiet
  <2> QED BY <1>2, <1>4, <2>1, SendPacketKept, NoRouteRerrKept, DiscoveryKept
<1> HIDE DEF r1, r2, r3
<1> QED BY <1>1, <1>2, <1>5

---------------------------------------------------------------------------
(* LocalRepair: the seek list and the repair of a route *)

LEMMA WithSeeksKept ==
  ASSUME NEW L, NEW h, Kept(h, L), NEW d, NEW list PROVE Kept(with_seeks(h, d, list), L)
<1> DEFINE g == with_seeks(h, d, list)
<1>1. SameRest(g, h) /\ g.rt = h.rt
  BY DEF with_seeks, Kept, SameRest
<1> HIDE DEF g
<1>2. Kept(g, L)
  BY <1>1, KeptSame
<1> QED BY <1>2 DEF g

LEMMA SettledSame ==
  ASSUME NEW h, {"rt", "queue", "pqlen", "ipaddr", "out"} \subseteq DOMAIN h
  PROVE  LET g == settled(h)
         IN  SameRest(g, h) /\ g.rt = h.rt
BY DEF settled, SameRest

LEMMA SettledKept ==
  ASSUME NEW L, NEW h, Kept(h, L) PROVE Kept(settled(h), L)
<1> DEFINE g == settled(h)
<1>1. SameRest(g, h) /\ g.rt = h.rt
  BY SettledSame DEF Kept, SameRest
<1> HIDE DEF g
<1>2. Kept(g, L)
  BY <1>1, KeptSame
<1> QED BY <1>2 DEF g

\* Every entry through the lost next hop is marked.
LEMMA LocalRepairKept ==
  ASSUME NEW L, NEW h, Kept(h, L), NEW d
  PROVE  Kept(rreq_local_repair(h, d), L)
<1> DEFINE n     == h.rt[d].next
           group == {u \in Addr : present(h, u) /\ h.rt[u].next = n} \cup {d}
           far   == greatest({h.rt[u].hcnt : u \in group})
           s     == IF n \in group \ {d} THEN h.rt[n].seqno ELSE 0
           marked(u) == [h.rt[u] EXCEPT !.flags = h.rt[u].flags \cup {"REPAIR"},
                                        !.handler = "expire", !.armed = TRUE]
           h1    == [h EXCEPT
                       !.rt = [u \in Addr |-> IF u \notin group THEN h.rt[u] ELSE marked(u)],
                       !.seqno = seqno_incr(@), !.rreq_id = plus(@, 1)]
           rreq  == [type |-> "RREQ_LR", id |-> h.rreq_id, dest |-> n, dest_seqno |-> s,
                     orig |-> h.ipaddr, orig_seqno |-> h1.seqno, hcnt |-> 0,
                     udests |-> udest_list(h, behind(d, n, group))]
           entry == [on |-> TRUE, seqno |-> s, reqs |-> 0, g |-> TRUE,
                     ttl |-> far + LOCAL_ADD_TTL]
           h2    == aodv_socket_send(h1, Bcast, far + 1, rreq)
           h3    == with_seeks(h2, n, <<entry>> \o seeks(h, n))
<1>1. rreq_local_repair(h, d) = IF "REPAIR" \notin h.rt[d].flags THEN h ELSE h3
  BY DEF rreq_local_repair
<1>2. ASSUME NEW u \in Addr PROVE Lasting(marked(u), u, L)
  <2>1. Lasting(h.rt[u], u, L)
    BY DEF Kept
  <2> QED BY <2>1 DEF Lasting
<1> HIDE DEF marked, group
<1>3. /\ SameRest(h1, h)
      /\ h1.rt = [u \in Addr |-> IF u \notin group THEN h.rt[u] ELSE marked(u)]
  BY DEF Kept, SameRest
<1> HIDE DEF h1
<1>4. DOMAIN h1.rt = Addr /\ \A u \in Addr : Lasting(h1.rt[u], u, L)
  BY <1>2, <1>3 DEF Kept
<1>5. Kept(h1, L)
  BY <1>3, <1>4, KeptTable
<1>8. Quiet(rreq)
  BY DEF Quiet
<1> HIDE DEF rreq, far, entry, n, s
<1>6. Kept(h2, L)
  BY <1>5, <1>8, SocketSendKept
<1> HIDE DEF h2
<1>7. Kept(h3, L)
  BY <1>6, WithSeeksKept
<1> HIDE DEF h3
<1> QED BY <1>1, <1>7

\* A failed repair: the mark goes, and the deletion timer starts in the same step.
LEMMA RepairTimeoutKept ==
  ASSUME NEW L, NEW h, Kept(h, L), NEW d \in Addr
  PROVE  Kept(local_repair_timeout(h, d), L)
<1> DEFINE prec == h.rt[d].prec
           dst  == IF Cardinality(prec) = 1 THEN CHOOSE p \in prec : TRUE ELSE Bcast
           h1   == [h EXCEPT !.rt[d].flags = @ \ {"REPAIR"}]
           r    == Rerr(h1, d, {d}, FALSE)
           h2   == IF prec = {} THEN h1 ELSE aodv_socket_send(h1, dst, 1, r)
           e    == [h2.rt[d] EXCEPT !.prec = {}, !.handler = "delete", !.armed = TRUE]
           h3   == [h2 EXCEPT !.rt[d] = e]
           k    == IF prec = {} THEN h ELSE aodv_socket_send(h, dst, 1, r)
<1>1. local_repair_timeout(h, d) = h3
  BY DEF local_repair_timeout
<1>2. /\ SameRest(h1, h)
      /\ DOMAIN h1.rt = Addr
      /\ \A x \in Addr : x # d => h1.rt[x] = h.rt[x]
      /\ DOMAIN h1.rt[d] = DOMAIN h.rt[d]
      /\ h1.rt[d].flags \subseteq h.rt[d].flags
      /\ h1.rt[d].state = h.rt[d].state
      /\ h1.rt[d].next = h.rt[d].next /\ h1.rt[d].hcnt = h.rt[d].hcnt
  BY DEF Kept, Lasting, SameRest
<1>3. Kept(k, L)
  BY RerrQuiet, SocketSendKept
<1>4. SameRest(h2, k) /\ h2.rt = h1.rt
  <2>1. h1 = [h EXCEPT !.rt = h1.rt]
    BY DEF Kept
  <2> DEFINE t == h1.rt
  <2> HIDE DEF h1, dst, r, t
  <2>2. /\ SameRest([h EXCEPT !.rt = t], h) /\ [h EXCEPT !.rt = t].rt = t
        /\ LET x == aodv_socket_send([h EXCEPT !.rt = t], dst, 1, r)
           IN  SameRest(x, aodv_socket_send(h, dst, 1, r)) /\ x.rt = t
    BY DEF aodv_socket_send, sendPacket, Kept, SameRest
  <2> QED BY <2>1, <2>2 DEF t
<1> HIDE DEF h1, h2, k
<1>5. Lasting(e, d, L)
  <2>1. Lasting(h.rt[d], d, L)
    BY DEF Kept
  <2>2. DOMAIN h2.rt[d] = DOMAIN h.rt[d] /\ h2.rt[d].flags \subseteq h.rt[d].flags
        /\ h2.rt[d].state = h.rt[d].state
        /\ h2.rt[d].next = h.rt[d].next /\ h2.rt[d].hcnt = h.rt[d].hcnt
    BY <1>2, <1>4
  <2>3. /\ e.armed /\ e.handler = "delete" /\ DOMAIN e = DOMAIN h.rt[d]
        /\ e.flags \subseteq h.rt[d].flags /\ e.state = h.rt[d].state
        /\ e.next = h.rt[d].next /\ e.hcnt = h.rt[d].hcnt
    BY <2>1, <2>2 DEF Lasting
  <2> HIDE DEF e
  <2> QED BY <2>1, <2>3 DEF Lasting
<1> HIDE DEF e
<1>6. /\ SameRest(h3, k)
      /\ DOMAIN h3.rt = Addr
      /\ \A x \in Addr : h3.rt[x] = IF x = d THEN e ELSE h.rt[x]
  BY <1>2, <1>3, <1>4 DEF Kept, SameRest
<1> HIDE DEF h3
<1>7. \A x \in Addr : Lasting(h3.rt[x], x, L)
  BY <1>5, <1>6 DEF Kept
<1> QED BY <1>1, <1>3, <1>6, <1>7, KeptTable

\* seek_timer: another flood, or the end of the repair.
LEMMA SeekTimeoutKept ==
  ASSUME NEW L, NEW h, Kept(h, L), NEW d \in Addr, NEW i
  PROVE  Kept(route_discovery_timeout_lr(h, d, i), L)
<1> DEFINE s    == seeks(h, d)[i]
           ring == expanding_ring_search /\ ttl_of(s) < TTL_THRESHOLD
           more == IF ring THEN [s EXCEPT !.ttl = @ + TTL_INCREMENT]
                   ELSE [s EXCEPT !.reqs = @ + 1]
           ttl  == IF ring THEN more.ttl
                   ELSE IF expanding_ring_search THEN NET_DIAMETER ELSE ttl_of(s)
           h1   == with_seeks(h, d, ReplaceAt(seeks(h, d), i, more))
           h2   == with_seeks(pq_drop(h, d), d, RemoveAt(seeks(h, d), i))
           r1   == rreq_flood(rt_table_update_timeout(h1, d), d, s.seqno, ttl, s.g)
           r2   == local_repair_timeout(h2, d)
<1>1. route_discovery_timeout_lr(h, d, i) \in {r1, r2, h2}
  BY DEF route_discovery_timeout_lr
<1>2. Kept(h1, L)
  BY WithSeeksKept
<1>3. Kept(h2, L)
  BY ClearedKept, WithSeeksKept DEF pq_drop
<1> HIDE DEF h1, h2, s, ttl
<1>4. Kept(r1, L)
  BY <1>2, UpdateTimeoutKept, FloodKept
<1>5. Kept(r2, L)
  BY <1>3, RepairTimeoutKept
<1> HIDE DEF r1, r2
<1> QED BY <1>1, <1>3, <1>4, <1>5

---------------------------------------------------------------------------
(* LocalRepair: the events that start a repair *)

LEMMA MarkRepairKept ==
  ASSUME NEW L, NEW h, Kept(h, L), NEW d PROVE Kept(mark_repair(h, d), L)
BY KeptFlag DEF mark_repair

\* A packet of the interface queue is buffered, if there is one.
LEMMA InterfaceQueueKept ==
  ASSUME NEW L, NEW h, Kept(h, L), NEW q, q = <<>> \/ (q[1] \in Addr /\ q[2] \in Origin),
         NEW v \in Addr, NEW vo \in Origin, Room(h, v, vo)
  PROVE  Kept(interfaceQueue(h, q, v, vo), L)
BY QueueAddKept DEF interfaceQueue

\* packetFailed.
LEMMA PacketFailedKept ==
  ASSUME NEW L, NEW h, Kept(h, L), NEW dest \in Addr, NEW o \in Origin, NEW nh, nh \in L,
         NEW q, q = <<>> \/ (q[1] \in Addr /\ q[2] \in Origin),
         NEW v \in Addr, NEW vo \in Origin, NEW w \in Addr, NEW wo \in Origin,
         Room(h, v, vo), Room(packet_queue_add(h, dest, o, v, vo), w, wo)
  PROVE  Kept(packetFailed_lr(h, dest, o, nh, q, v, vo, w, wo), L)
<1> DEFINE h1 == packet_queue_add(h, dest, o, v, vo)
           h2 == interfaceQueue(h1, q, w, wo)
           h3 == mark_repair(h2, nh)
           h4 == neighbor_link_break(h3, nh)
           r1 == neighbor_link_break(h, nh)
           r2 == rreq_local_repair(h4, dest)
<1>1. packetFailed_lr(h, dest, o, nh, q, v, vo, w, wo) \in {h1, h, r1, r2}
  BY DEF packetFailed_lr
<1>2. Kept(h1, L)
  BY QueueAddKept
<1> HIDE DEF h1
<1>3. Kept(h2, L)
  BY <1>2, InterfaceQueueKept DEF h1
<1> HIDE DEF h2
<1>4. Kept(h3, L)
  BY <1>3, MarkRepairKept
<1> HIDE DEF h3
<1>5. Kept(h4, L) /\ Kept(r1, L)
  BY <1>4, LinkBreakKept
<1> HIDE DEF h4, r1
<1>6. Kept(r2, L)
  BY <1>5, LocalRepairKept
<1> HIDE DEF r2
<1> QED BY <1>1, <1>2, <1>5, <1>6

\* hello_timer.
LEMMA HelloTimeoutKept ==
  ASSUME NEW L, NEW h, Kept(h, L), NEW d, d \in L, NEW q, q = <<>> \/ (q[1] \in Addr /\ q[2] \in Origin),
         NEW v \in Addr, NEW vo \in Origin, Room(h, v, vo)
  PROVE  Kept(hello_timeout_lr(h, d, q, v, vo), L)
<1> DEFINE h1 == [h EXCEPT !.rt[d].hello = FALSE]
           h2 == interfaceQueue(h1, q, v, vo)
           h3 == mark_repair(h2, d)
           r1 == neighbor_link_break(h1, d)
           r2 == neighbor_link_break(h3, d)
<1>1. hello_timeout_lr(h, d, q, v, vo) \in {h1, r1, r2}
  BY DEF hello_timeout_lr
<1>2. Kept(h1, L)
  BY KeptField
<1>3. Room(h1, v, vo)
  BY DEF Kept, Room
<1> HIDE DEF h1
<1>4. Kept(h2, L)
  BY <1>2, <1>3, InterfaceQueueKept
<1> HIDE DEF h2
<1>5. Kept(h3, L)
  BY <1>4, MarkRepairKept
<1> HIDE DEF h3
<1>6. Kept(r1, L) /\ Kept(r2, L)
  BY <1>2, <1>5, LinkBreakKept
<1> HIDE DEF r1, r2
<1> QED BY <1>1, <1>2, <1>6

\* processPacket.
LEMMA ProcessPacketLrKept ==
  ASSUME NEW L, NEW h, Kept(h, L), NEW src, NEW dest \in Addr, NEW tcp, NEW v \in Addr,
         NEW vo \in Origin, Room(h, v, vo)
  PROVE  Kept(processPacket_lr(h, src, dest, tcp, v, vo), L)
<1> DEFINE h1 == rt_table_update_route_timeouts(h, dest, src, llfeedback)
           o  == IF src = h.ipaddr THEN "own" ELSE "transit"
           h2 == packet_queue_add(h1, dest, o, v, vo)
           r1 == rreq_local_repair(h2, dest)
           r2 == processPacket(h, src, dest, tcp, v, vo)
<1>1. processPacket_lr(h, src, dest, tcp, v, vo) \in {r1, r2}
  BY DEF processPacket_lr
<1>2. Kept(h1, L) /\ Room(h1, v, vo)
  BY RenewRoutesKept, RenewRoutesQueue DEF Room
<1>3. o \in Origin
  BY DEF Origin
<1> HIDE DEF h1, o
<1>4. Kept(h2, L)
  BY <1>2, <1>3, QueueAddKept
<1> HIDE DEF h2
<1>5. Kept(r1, L) /\ Kept(r2, L)
  BY <1>4, LocalRepairKept, ProcessPacketKept
<1> HIDE DEF r1, r2
<1> QED BY <1>1, <1>5

---------------------------------------------------------------------------
(* LocalRepair: RREQ_LR *)

LEMMA ReverseRouteLrKept ==
  ASSUME NEW L, NEW h, Kept(h, L), NEW m, m.orig \in Addr, NEW src
  PROVE  Kept(rreq_reverse_route_lr(h, m, src), L)
BY InsertKept, UpdateRouteKept, FlagsKept DEF rreq_reverse_route_lr

LEMMA RrepSendLrKept ==
  ASSUME NEW L, NEW h, Kept(h, L), NEW m, NEW U
  PROVE  Kept(rrep_send_lr(h, m, U), L)
<1>1. Quiet([type |-> "RREP_LR", hcnt |-> 0, dest |-> h.ipaddr, seqno |-> h.seqno,
             orig |-> m.orig, udests |-> U])
  BY DEF Quiet, Kept
<1> QED BY <1>1, RrepSendKept DEF rrep_send_lr

LEMMA AnswerAsUdestKept ==
  ASSUME NEW L, NEW h, Kept(h, L), NEW m
  PROVE  Kept(rreq_answer_as_udest(h, m), L)
<1> DEFINE own == {u \in ToSet(m.udests) : u.addr = h.ipaddr}
           s   == rreq_own_seqno(h.seqno, (CHOOSE u \in own : TRUE).seqno)
           h1  == [h EXCEPT !.seqno = s]
           U   == <<[addr |-> h.ipaddr, seqno |-> h1.seqno]>>
<1>1. rreq_answer_as_udest(h, m) = IF own = {} THEN h ELSE rrep_send_lr(h1, m, U)
  BY DEF rreq_answer_as_udest
<1> HIDE DEF s
<1>2. Kept(h1, L)
  BY KeptSeqno
<1> HIDE DEF h1, U
<1> QED BY <1>1, <1>2, RrepSendLrKept

LEMMA RreqForwardLrKept ==
  ASSUME NEW L, NEW h, Kept(h, L), NEW m \in RREQ_LR, NEW ttl
  PROVE  Kept(rreq_forward_lr(h, m, ttl), L)
<1>1. \A k, s : Quiet([m EXCEPT !.hcnt = k, !.dest_seqno = s])
  BY DEF RREQ_LR, Quiet
<1> QED BY <1>1, KeptChannel, SocketSendKept DEF rreq_forward_lr

LEMMA RreqProcessLrKept ==
  ASSUME NEW L, NEW h, Kept(h, L), NEW m \in RREQ_LR, NEW src, NEW ttl
  PROVE  Kept(rreq_process_lr(h, m, src, ttl), L)
<1> DEFINE h1 == [h EXCEPT !.records = @ \cup {[orig |-> m.orig, id |-> m.id, cost |-> 0]}]
           h2 == settled(rreq_reverse_route_lr(h1, m, src))
           h3 == rreq_answer_as_udest(h2, m)
           h4 == [h3 EXCEPT !.seqno = rreq_own_seqno(@, m.dest_seqno)]
           r1 == rrep_send_lr(h4, m, m.udests)
           r2 == rreq_forward_lr(h3, m, ttl)
<1>1. rreq_process_lr(h, m, src, ttl) \in {h, r1, r2}
  BY DEF rreq_process_lr
<1>2. Kept(h1, L)
  BY KeptRecords
<1> HIDE DEF h1
<1>3. Kept(h2, L)
  BY <1>2, ReverseRouteLrKept, SettledKept DEF RREQ_LR
<1> HIDE DEF h2
<1>4. Kept(h3, L)
  BY <1>3, AnswerAsUdestKept
<1> HIDE DEF h3
<1>5. Kept(h4, L)
  BY <1>4, KeptSeqno
<1> HIDE DEF h4
<1>6. Kept(r1, L) /\ Kept(r2, L)
  BY <1>4, <1>5, RrepSendLrKept, RreqForwardLrKept
<1> HIDE DEF r1, r2
<1> QED BY <1>1, <1>6

---------------------------------------------------------------------------
(* Walks over a list *)

\* The addresses of a set, each once and in ascending order.
LEMMA OrderedElement ==
  ASSUME NEW S, IsFiniteSet(S), S \subseteq Nat
  PROVE  /\ DOMAIN ordered(S) = 1 .. Cardinality(S)
         /\ \A i \in DOMAIN ordered(S) : ordered(S)[i] \in S
         /\ \A x \in S : \E i \in DOMAIN ordered(S) : ordered(S)[i] = x
         /\ \A i, j \in DOMAIN ordered(S) : i < j => ordered(S)[i] < ordered(S)[j]
<1> DEFINE Below(x) == {y \in S : y < x}
           rank == [x \in S |-> Cardinality(Below(x))]
           n == Cardinality(S)
<1>1. n \in Nat
  BY FS_CardinalityType
<1>2. \A x \in S : IsFiniteSet(Below(x)) /\ Below(x) \subseteq S \ {x}
  BY FS_Subset
<1>3. \A x \in S : rank[x] \in 0 .. n - 1
  <2>1. ASSUME NEW x \in S PROVE Cardinality(Below(x)) \in 0 .. n - 1
    <3>1. IsFiniteSet(S \ {x}) /\ Cardinality(S \ {x}) = n - 1
      BY FS_RemoveElement
    <3>2. Cardinality(Below(x)) <= n - 1 /\ Cardinality(Below(x)) \in Nat
      BY <1>2, <3>1, FS_Subset, FS_CardinalityType
    <3> HIDE DEF n, Below
    <3> QED BY <1>1, <3>2
  <2> QED BY <2>1
<1>4. ASSUME NEW x \in S, NEW y \in S, x < y PROVE rank[x] # rank[y]
  <2>1. x \in Nat /\ y \in Nat
    OBVIOUS
  <2>2. Below(x) \subseteq Below(y) \ {x} /\ x \in Below(y)
    <3>1. ASSUME NEW z \in S, z < x PROVE z < y /\ z # x
      <4>1. z \in Nat
        OBVIOUS
      <4> QED BY <1>4, <2>1, <3>1, <4>1
    <3> QED BY <1>4, <3>1
  <2>3. IsFiniteSet(Below(y) \ {x}) /\ Cardinality(Below(y) \ {x}) = Cardinality(Below(y)) - 1
    BY <1>2, <2>2, FS_RemoveElement
  <2>4. Cardinality(Below(x)) <= Cardinality(Below(y)) - 1
    BY <2>2, <2>3, FS_Subset
  <2>5. Cardinality(Below(x)) \in Nat /\ Cardinality(Below(y)) \in Nat
    BY <1>2, FS_CardinalityType
  <2> HIDE DEF Below
  <2> QED BY <2>4, <2>5
<1>5. rank \in Injection(S, 0 .. n - 1)
  <2>1. \A x, y \in S : rank[x] = rank[y] => x = y
    <3> SUFFICES ASSUME NEW x \in S, NEW y \in S, rank[x] = rank[y], x # y PROVE FALSE
      OBVIOUS
    <3>1. x \in Nat /\ y \in Nat
      OBVIOUS
    <3> HIDE DEF rank
    <3> QED BY <1>4, <3>1
  <2>2. rank \in [S -> 0 .. n - 1]
    BY <1>3
  <2> HIDE DEF rank
  <2> QED BY <2>1, <2>2 DEF Injection, IsInjective
<1>6. ASSUME NEW i \in 1 .. n PROVE \E x \in S : Cardinality(Below(x)) = i - 1
  <2>1. IsFiniteSet(0 .. n - 1) /\ Cardinality(0 .. n - 1) = n
    <3>1. 0 \in Int /\ n - 1 \in Int /\ n \in Nat
      BY <1>1
    <3> HIDE DEF n
    <3>2. /\ IsFiniteSet(0 .. n - 1)
          /\ Cardinality(0 .. n - 1) = IF 0 > n - 1 THEN 0 ELSE n - 1 - 0 + 1
      BY <3>1, FS_Interval
    <3> QED BY <3>1, <3>2
  <2>2. rank \in Surjection(S, 0 .. n - 1)
    <3> HIDE DEF rank
    <3> QED BY <1>5, <2>1, FS_Injection
  <2>3. i - 1 \in 0 .. n - 1
    BY <1>1
  <2>4. PICK x \in S : rank[x] = i - 1
    <3> HIDE DEF rank
    <3> QED BY <2>2, <2>3 DEF Surjection
  <2> QED BY <2>4
<1>7. DOMAIN ordered(S) = 1 .. n
  BY DEF ordered
<1>8. ASSUME NEW i \in 1 .. n PROVE ordered(S)[i] \in S /\ rank[ordered(S)[i]] = i - 1
  <2>1. ordered(S)[i] \in S /\ Cardinality(Below(ordered(S)[i])) = i - 1
    BY <1>6 DEF ordered
  <2> QED BY <2>1
<1>9. \A x, y \in S : rank[x] = rank[y] => x = y
  BY <1>5 DEF Injection, IsInjective
<1>10. ASSUME NEW x \in S PROVE \E i \in 1 .. n : ordered(S)[i] = x
  <2>1. rank[x] + 1 \in 1 .. n /\ rank[x] \in Nat
    BY <1>1, <1>3
  <2>2. rank[ordered(S)[rank[x] + 1]] = rank[x]
    BY <1>8, <2>1
  <2> HIDE DEF rank
  <2> QED BY <1>8, <1>9, <2>1, <2>2
<1>11. ASSUME NEW i \in 1 .. n, NEW j \in 1 .. n, i < j
       PROVE  ordered(S)[i] < ordered(S)[j]
  <2> DEFINE x == ordered(S)[i]
             y == ordered(S)[j]
  <2>1. x \in S /\ y \in S /\ Cardinality(Below(x)) = i - 1 /\ Cardinality(Below(y)) = j - 1
    BY <1>8
  <2>2. x \in Nat /\ y \in Nat
    BY <2>1
  <2> HIDE DEF x, y
  <2>3. y <= x => Cardinality(Below(y)) <= Cardinality(Below(x))
    <3> SUFFICES ASSUME y <= x PROVE Below(y) \subseteq Below(x)
      BY <1>2, <2>1, FS_Subset
    <3>1. ASSUME NEW z \in S, z < y PROVE z < x
      <4>1. z \in Nat
        OBVIOUS
      <4> QED BY <2>2, <3>1, <4>1
    <3> QED BY <3>1
  <2> HIDE DEF Below
  <2>4. ~(y <= x)
    BY <1>1, <1>11, <2>1, <2>3
  <2> QED BY <2>2, <2>4 DEF x, y
<1> HIDE DEF n
<1> QED BY <1>7, <1>8, <1>10, <1>11 DEF n

\* What is in the send buffer while routes are mended is a RERR.
IsError(m) == "type" \in DOMAIN m /\ m.type \in {"RERR", "RERR_LR"}

Mending(t, L) ==
  /\ {"h", "rerr"} \subseteq DOMAIN t /\ Kept(t.h, L)
  /\ \A r \in t.rerr : IsError(r)

\* The four walks of LocalRepair and RepairNode, by what they do at one element.
\* A walk carries a host, or a record with the host in its field h.
Visit(w, x, a) ==
  CASE w.kind = "route"   -> lr_route(x, w.m, w.src, a)
    [] w.kind = "mend"    -> mend(x, a, w.m, w.src)
    [] w.kind = "lose"    -> lose_lr(x, a, w.src)
    [] w.kind = "history" -> [Handled(x, a, Bcast) EXCEPT !.out = {}]

Carries(w, L, x) ==
  CASE w.kind = "mend"    -> Mending(x, L)
    [] w.kind = "lose"    -> "h" \in DOMAIN x /\ Kept(x.h, L)
    [] w.kind = "route"   -> Kept(x, L)
    [] w.kind = "history" -> Kept(x, L) /\ x.out = {}

\* f[s] is the result of the walk over the positions s of the list.
VisitLast(w, base, list, f, s) ==
  IF s = {} THEN base ELSE Visit(w, f[s \ {Max(s)}], list[Max(s)])

IsWalk(w, base, list, f) ==
  f = [s \in SUBSET DOMAIN list |-> VisitLast(w, base, list, f, s)]

\* There is a walk over every list: one over the sets of at most k positions,
\* for every k.
LEMMA WalkExists ==
  ASSUME NEW w, NEW base, NEW list, IsFiniteSet(DOMAIN list), DOMAIN list \subseteq Nat
  PROVE  \E f : IsWalk(w, base, list, f)
<1> DEFINE D      == DOMAIN list
           Lev(k) == {s \in SUBSET D : Cardinality(s) <= k}
           Sol(k, f) == f = [s \in Lev(k) |-> VisitLast(w, base, list, f, s)]
           Bad    == {k \in Nat : \A f : ~Sol(k, f)}
<1>1. \A s \in SUBSET D : IsFiniteSet(s) /\ Cardinality(s) \in Nat
  BY FS_Subset, FS_CardinalityType
<1>2. ASSUME NEW s \in SUBSET D, s # {}
      PROVE  /\ Max(s) \in s /\ s \ {Max(s)} \in SUBSET D
             /\ Cardinality(s \ {Max(s)}) = Cardinality(s) - 1
  <2>1. Max(s) \in s
    BY <1>1, <1>2, MaxExists
  <2> QED BY <1>1, <2>1, FS_RemoveElement
<1>3. Bad = {}
  <2> SUFFICES ASSUME Bad # {} PROVE FALSE
    OBVIOUS
  <2>1. PICK k \in Bad : \A y \in Bad : k <= y
    <3> HIDE DEF Sol
    <3>1. Bad \subseteq Nat
      OBVIOUS
    <3> HIDE DEF Bad
    <3> QED BY <3>1, LeastNumber
  <2>2. k \in Nat /\ \A f : ~Sol(k, f)
    OBVIOUS
  <2>3. CASE k = 0
    <3> DEFINE g == [s \in Lev(0) |-> base]
    <3>1. \A s \in Lev(0) : s = {}
      BY <1>1, FS_EmptySet, FS_CardinalityType
    <3>2. Sol(0, g)
      BY <3>1 DEF VisitLast
    <3> QED BY <2>2, <2>3, <3>2
  <2>4. CASE k # 0
    <3>1. k - 1 \in Nat /\ k - 1 \notin Bad
      BY <2>1, <2>2, <2>4
    <3>2. PICK f : Sol(k - 1, f)
      BY <3>1
    <3> DEFINE g == [s \in Lev(k) |-> VisitLast(w, base, list, f, s)]
    <3>3. ASSUME NEW s \in Lev(k)
          PROVE  VisitLast(w, base, list, f, s) = VisitLast(w, base, list, g, s)
      <4>1. CASE s = {}
        BY <4>1 DEF VisitLast
      <4>2. CASE s # {}
        <5> DEFINE r == s \ {Max(s)}
        <5>1. r \in SUBSET D /\ Cardinality(r) = Cardinality(s) - 1
              /\ Cardinality(s) \in Nat /\ Cardinality(s) <= k
          BY <1>1, <1>2, <4>2
        <5>2. r \in Lev(k - 1) /\ r \in Lev(k)
          <6> HIDE DEF r
          <6> QED BY <5>1, <2>2
        <5> HIDE DEF r, Lev
        <5>3. f[r] = g[r]
          BY <3>2, <5>2
        <5> HIDE DEF g
        <5> QED BY <4>2, <5>3 DEF VisitLast, r
      <4> QED BY <4>1, <4>2
    <3>4. g = [s \in Lev(k) |-> VisitLast(w, base, list, g, s)]
      <4> HIDE DEF Lev
      <4> QED BY <3>3
    <3>5. Sol(k, g)
      BY <3>4
    <3> QED BY <2>2, <3>5
  <2> QED BY <2>3, <2>4
<1> DEFINE n == Cardinality(D)
<1>4. n \in Nat
  BY FS_CardinalityType
<1>5. Lev(n) = SUBSET D
  BY FS_Subset, <1>1
<1>8. n \notin Bad
  BY <1>3
<1>6. PICK f : Sol(n, f)
  <2> HIDE DEF Sol, n
  <2> QED BY <1>4, <1>8
<1> HIDE DEF Lev, n
<1>7. IsWalk(w, base, list, f)
  BY <1>5, <1>6 DEF IsWalk
<1> QED BY <1>7

\* A walk over 1 .. n goes from one position to the next.
LEMMA WalkSteps ==
  ASSUME NEW w, NEW base, NEW list, NEW n \in Nat, DOMAIN list = 1 .. n,
         NEW f, IsWalk(w, base, list, f)
  PROVE  /\ f[1 .. 0] = base
         /\ \A i \in 1 .. n : f[1 .. i] = Visit(w, f[1 .. (i - 1)], list[i])
<1>1. \A s \in SUBSET (1 .. n) : f[s] = VisitLast(w, base, list, f, s)
  <2> DEFINE V(s) == VisitLast(w, base, list, f, s)
  <2>1. f = [s \in SUBSET (1 .. n) |-> V(s)]
    BY DEF IsWalk
  <2> HIDE DEF V
  <2>2. \A s \in SUBSET (1 .. n) : f[s] = V(s)
    BY <2>1
  <2> QED BY <2>2 DEF V
<1>2. f[1 .. 0] = base
  <2>1. 1 .. 0 = {}
    OBVIOUS
  <2> QED BY <1>1, <2>1 DEF VisitLast
<1>3. ASSUME NEW i \in 1 .. n PROVE f[1 .. i] = Visit(w, f[1 .. (i - 1)], list[i])
  <2>1. /\ IsFiniteSet(1 .. i) /\ 1 .. i \subseteq Nat /\ 1 .. i # {}
        /\ 1 .. i \in SUBSET (1 .. n) /\ i \in 1 .. i
    <3>1. i \in Nat /\ i <= n /\ i \in 1 .. i
      OBVIOUS
    <3>2. IsFiniteSet(1 .. i)
      BY FS_Interval
    <3>3. 1 .. i \subseteq Nat /\ 1 .. i \in SUBSET (1 .. n)
      BY <3>1
    <3> QED BY <3>1, <3>2, <3>3
  <2>2. Max(1 .. i) \in 1 .. i /\ \A y \in 1 .. i : y <= Max(1 .. i)
    BY <2>1, MaxExists
  <2>3. Max(1 .. i) = i
    BY <2>1, <2>2
  <2>4. (1 .. i) \ {i} = 1 .. (i - 1)
    OBVIOUS
  <2> QED BY <1>1, <2>1, <2>3, <2>4 DEF VisitLast
<1> QED BY <1>2, <1>3

\* What every visit keeps, the walk keeps.
LEMMA WalkKept ==
  ASSUME NEW L, NEW w, NEW base, NEW list, NEW n \in Nat, DOMAIN list = 1 .. n,
         NEW f, IsWalk(w, base, list, f), Carries(w, L, base),
         \A i \in 1 .. n : \A x : Carries(w, L, x) => Carries(w, L, Visit(w, x, list[i]))
  PROVE  Carries(w, L, f[DOMAIN list])
<1> DEFINE Bad == {i \in 0 .. n : ~Carries(w, L, f[1 .. i])}
<1>1. Bad = {}
  <2> SUFFICES ASSUME Bad # {} PROVE FALSE
    OBVIOUS
  <2>1. PICK i \in Bad : \A y \in Bad : i <= y
    <3>1. Bad \subseteq Nat
      OBVIOUS
    <3> HIDE DEF Bad
    <3> QED BY <3>1, LeastNumber
  <2>2. i # 0
    BY WalkSteps
  <2>3. i \in 1 .. n /\ i - 1 \in 0 .. n /\ ~(i <= i - 1)
    BY <2>2
  <2>4. Carries(w, L, f[1 .. (i - 1)])
    BY <2>1, <2>3
  <2>5. f[1 .. i] = Visit(w, f[1 .. (i - 1)], list[i])
    BY <2>3, WalkSteps
  <2> QED BY <2>3, <2>4, <2>5
<1>2. n \in 0 .. n
  OBVIOUS
<1> QED BY <1>1, <1>2

\* The four walks are walks in this sense.
RouteFold(h, m, src, list) == FoldLeft(LAMBDA x, d : lr_route(x, m, src, d), h, list)
MendFold(t, m, src, list)  == FoldLeft(LAMBDA x, u : mend(x, u, m, src), t, list)
LoseFold(t, src, list)     == FoldLeft(LAMBDA x, u : lose_lr(x, u, src), t, list)
HistoryFold(h0, list) ==
  FoldLeft(LAMBDA h, a : [Handled(h, a, Bcast) EXCEPT !.out = {}], h0, list)

LEMMA RouteWalk ==
  ASSUME NEW h, NEW m, NEW src, NEW list, IsFiniteSet(DOMAIN list), DOMAIN list \subseteq Nat
  PROVE  \E f : /\ IsWalk([kind |-> "route", m |-> m, src |-> src], h, list, f)
                /\ RouteFold(h, m, src, list) = f[DOMAIN list]
<1> DEFINE w    == [kind |-> "route", m |-> m, src |-> src]
           F(f) == f = [s \in SUBSET DOMAIN list |->
                          IF s = {} THEN h
                          ELSE lr_route(f[s \ {Max(s)}], m, src, list[Max(s)])]
<1>1. \A x, d : Visit(w, x, d) = lr_route(x, m, src, d)
  BY DEF Visit
<1>2. \A f : IsWalk(w, h, list, f) <=> F(f)
  <2> HIDE DEF w
  <2> QED BY <1>1 DEF IsWalk, VisitLast
<1>3. RouteFold(h, m, src, list) = (CHOOSE f : F(f))[DOMAIN list]
  BY DEF RouteFold, FoldLeft, MapThenFoldSet
<1> HIDE DEF F
<1>4. \E f : F(f)
  BY <1>2, WalkExists
<1>5. F(CHOOSE f : F(f))
  BY <1>4
<1> QED BY <1>2, <1>3, <1>5

LEMMA MendWalk ==
  ASSUME NEW t, NEW m, NEW src, NEW list, IsFiniteSet(DOMAIN list), DOMAIN list \subseteq Nat
  PROVE  \E f : /\ IsWalk([kind |-> "mend", m |-> m, src |-> src], t, list, f)
                /\ MendFold(t, m, src, list) = f[DOMAIN list]
<1> DEFINE w    == [kind |-> "mend", m |-> m, src |-> src]
           F(f) == f = [s \in SUBSET DOMAIN list |->
                          IF s = {} THEN t
                          ELSE mend(f[s \ {Max(s)}], list[Max(s)], m, src)]
<1>1. \A x, d : Visit(w, x, d) = mend(x, d, m, src)
  BY DEF Visit
<1>2. \A f : IsWalk(w, t, list, f) <=> F(f)
  <2> HIDE DEF w
  <2> QED BY <1>1 DEF IsWalk, VisitLast
<1>3. MendFold(t, m, src, list) = (CHOOSE f : F(f))[DOMAIN list]
  BY DEF MendFold, FoldLeft, MapThenFoldSet
<1> HIDE DEF F
<1>4. \E f : F(f)
  BY <1>2, WalkExists
<1>5. F(CHOOSE f : F(f))
  BY <1>4
<1> QED BY <1>2, <1>3, <1>5

LEMMA LoseWalk ==
  ASSUME NEW t, NEW src, NEW list, IsFiniteSet(DOMAIN list), DOMAIN list \subseteq Nat
  PROVE  \E f : /\ IsWalk([kind |-> "lose", src |-> src], t, list, f)
                /\ LoseFold(t, src, list) = f[DOMAIN list]
<1> DEFINE w    == [kind |-> "lose", src |-> src]
           F(f) == f = [s \in SUBSET DOMAIN list |->
                          IF s = {} THEN t
                          ELSE lose_lr(f[s \ {Max(s)}], list[Max(s)], src)]
<1>1. \A x, d : Visit(w, x, d) = lose_lr(x, d, src)
  BY DEF Visit
<1>2. \A f : IsWalk(w, t, list, f) <=> F(f)
  <2> HIDE DEF w
  <2> QED BY <1>1 DEF IsWalk, VisitLast
<1>3. LoseFold(t, src, list) = (CHOOSE f : F(f))[DOMAIN list]
  BY DEF LoseFold, FoldLeft, MapThenFoldSet
<1> HIDE DEF F
<1>4. \E f : F(f)
  BY <1>2, WalkExists
<1>5. F(CHOOSE f : F(f))
  BY <1>4
<1> QED BY <1>2, <1>3, <1>5

LEMMA HistoryWalk ==
  ASSUME NEW h0, NEW list, IsFiniteSet(DOMAIN list), DOMAIN list \subseteq Nat
  PROVE  \E f : /\ IsWalk([kind |-> "history"], h0, list, f)
                /\ HistoryFold(h0, list) = f[DOMAIN list]
<1> DEFINE w    == [kind |-> "history"]
           F(f) == f = [s \in SUBSET DOMAIN list |->
                          IF s = {} THEN h0
                          ELSE [Handled(f[s \ {Max(s)}], list[Max(s)], Bcast)
                                  EXCEPT !.out = {}]]
<1>1. \A x, a : Visit(w, x, a) = [Handled(x, a, Bcast) EXCEPT !.out = {}]
  BY DEF Visit
<1>2. \A f : IsWalk(w, h0, list, f) <=> F(f)
  <2> HIDE DEF w
  <2> QED BY <1>1 DEF IsWalk, VisitLast
<1>3. HistoryFold(h0, list) = (CHOOSE f : F(f))[DOMAIN list]
  BY DEF HistoryFold, FoldLeft, MapThenFoldSet
<1> HIDE DEF F
<1>4. \E f : F(f)
  BY <1>2, WalkExists
<1>5. F(CHOOSE f : F(f))
  BY <1>4
<1> QED BY <1>2, <1>3, <1>5

---------------------------------------------------------------------------
(* LocalRepair: RREP_LR *)

\* The reply passes on: a route to each destination it names.
LEMMA LrRouteKept ==
  ASSUME NEW L, NEW h, Kept(h, L), NEW m, NEW src, NEW d \in Addr
  PROVE  Kept(lr_route(h, m, src, d), L)
<1> DEFINE h1 == settled(rt_table_update(h, d, src, m.hcnt + 1, m.seqno, h.rt[d].flags))
           h2 == settled(rt_table_insert(h, d, src, m.hcnt + 1, m.seqno, 1, "valid", {}))
           h3 == settled(rt_table_update(h2, d, src, m.hcnt + 1, m.seqno, {}))
<1>1. lr_route(h, m, src, d) = IF present(h, d) THEN h1 ELSE h3
  BY DEF lr_route
<1>2. Kept(h1, L)
  BY UpdateRouteKept, FlagsKept, SettledKept
<1>3. Kept(h2, L)
  BY InsertKept, SettledKept
<1> HIDE DEF h1, h2
<1>4. Kept(h3, L)
  BY <1>3, UpdateRouteKept, SettledKept
<1> HIDE DEF h3
<1> QED BY <1>1, <1>2, <1>4

\* The destinations of a reply in the order of the message, the one found last.
Names(m) == [i \in DOMAIN m.udests |-> m.udests[i].addr] \o <<m.dest>>

LEMMA NamedList ==
  ASSUME NEW m \in RREP_LR, NEW c, c = Len(m.udests)
  PROVE  /\ c \in Nat /\ DOMAIN m.udests = 1 .. c /\ DOMAIN Names(m) = 1 .. c + 1
         /\ \A i \in 1 .. c + 1 : Names(m)[i] \in Addr
         /\ \A i \in 1 .. c : Names(m)[i] = m.udests[i].addr
         /\ Names(m)[c + 1] = m.dest
<1> DEFINE s == [i \in DOMAIN m.udests |-> m.udests[i].addr]
<1>1. m.dest \in Addr /\ m.udests \in Seq(Udest)
  BY DEF RREP_LR, UdestList
<1>2. c \in Nat /\ DOMAIN m.udests = 1 .. c /\ \A i \in 1 .. c : m.udests[i].addr \in Addr
  <2> DEFINE l == m.udests
  <2>1. l \in Seq(Udest) /\ c = Len(l)
    BY <1>1
  <2> HIDE DEF l
  <2>2. c \in Nat /\ DOMAIN l = 1 .. c /\ \A i \in 1 .. c : l[i] \in Udest
    BY <2>1
  <2> QED BY <2>2 DEF l, Udest
<1>3. s \in Seq(Addr) /\ Len(s) = c /\ \A i \in 1 .. c : s[i] = m.udests[i].addr
  <2> DEFINE e(i) == m.udests[i].addr
  <2>1. s = [i \in 1 .. c |-> e(i)] /\ \A i \in 1 .. c : e(i) \in Addr
    BY <1>2
  <2> HIDE DEF s, e
  <2>2. s \in Seq(Addr) /\ Len(s) = c /\ \A i \in 1 .. c : s[i] = e(i)
    BY <1>2, <2>1
  <2> QED BY <2>2 DEF e
<1>4. Names(m) = s \o <<m.dest>>
  BY DEF Names
<1>5. /\ DOMAIN Names(m) = 1 .. c + 1
      /\ \A i \in 1 .. c : Names(m)[i] = s[i]
      /\ Names(m)[c + 1] = m.dest
  <2> DEFINE list == Names(m)
             d    == m.dest
  <2>1. list = s \o <<d>> /\ d \in Addr
    BY <1>1, <1>4
  <2> HIDE DEF s, list, d
  <2>2. DOMAIN list = 1 .. c + 1 /\ \A i \in 1 .. c + 1 : list[i] = IF i = c + 1 THEN d ELSE s[i]
    BY <1>2, <1>3, <2>1
  <2>3. c + 1 \in 1 .. c + 1 /\ \A i \in 1 .. c : i \in 1 .. c + 1 /\ i # c + 1
    BY <1>2
  <2>4. /\ DOMAIN list = 1 .. c + 1
        /\ \A i \in 1 .. c : list[i] = s[i]
        /\ list[c + 1] = d
    BY <2>2, <2>3
  <2> QED BY <2>4 DEF list, d
<1> HIDE DEF s
<1>6. \A i \in 1 .. c + 1 : i = c + 1 \/ i \in 1 .. c
  BY <1>2
<1> QED BY <1>1, <1>2, <1>3, <1>5, <1>6

LEMMA NamedRoutesKept ==
  ASSUME NEW L, NEW h, Kept(h, L), NEW m \in RREP_LR, NEW src
  PROVE  Kept(RouteFold(h, m, src, Names(m)), L)
<1> DEFINE list == Names(m)
           c    == Len(m.udests)
           n    == c + 1
           w    == [kind |-> "route", m |-> m, src |-> src]
           h1   == RouteFold(h, m, src, list)
<1>1. c \in Nat /\ DOMAIN list = 1 .. n /\ \A i \in 1 .. n : list[i] \in Addr
  BY NamedList
<1> HIDE DEF c, list
<1>2. n \in Nat /\ DOMAIN list = 1 .. n /\ \A i \in 1 .. n : list[i] \in Addr
  BY <1>1
<1>3. IsFiniteSet(1 .. n) /\ 1 .. n \subseteq Nat
  BY <1>2, FS_Interval
<1> SUFFICES Kept(h1, L)
  BY DEF list
<1> HIDE DEF n
<1>4. PICK f : IsWalk(w, h, list, f) /\ h1 = f[DOMAIN list]
  BY <1>2, <1>3, RouteWalk
<1>5. \A x, a : Visit(w, x, a) = lr_route(x, m, src, a)
  BY DEF Visit
<1>6. \A x : Carries(w, L, x) <=> Kept(x, L)
  BY DEF Carries
<1> HIDE DEF w, h1
<1>7. \A i \in 1 .. n : \A x : Carries(w, L, x) => Carries(w, L, Visit(w, x, list[i]))
  BY <1>2, <1>5, <1>6, LrRouteKept
<1>8. Carries(w, L, f[DOMAIN list])
  BY <1>2, <1>4, <1>6, <1>7, WalkKept
<1> QED BY <1>4, <1>6, <1>8

\* The reply leaves along the routes, which stay what they are.
LEMMA RelayForwardKept ==
  ASSUME NEW L, NEW h, Kept(h, L), NEW m, m.type = "RREP_LR", NEW rev, NEW fwd
  PROVE  LET g == rrep_forward(h, m, rev, fwd)
         IN  /\ KeptIdle(g, L) /\ SameRoutes(g, h)
             /\ \A p \in g.out : p \in h.out \/ p.msg = [m EXCEPT !.hcnt = h.rt[fwd].hcnt]
<1> DEFINE nh == h.rt[rev].next
           x  == [m EXCEPT !.hcnt = h.rt[fwd].hcnt]
           h1 == sendPacket(h, nh, MAXTTL, x)
           h2 == precursor_add(h1, fwd, nh)
           h3 == precursor_add(h2, rev, h.rt[fwd].next)
           h4 == rt_table_update_timeout(h3, rev)
<1>1. rrep_forward(h, m, rev, fwd) = h4
  BY DEF rrep_forward, aodv_socket_send
<1> HIDE DEF nh, x
<1>2. /\ DOMAIN h1 = DOMAIN h /\ h1.rt = h.rt /\ h1.queue = h.queue /\ h1.pqlen = h.pqlen
      /\ h1.ipaddr = h.ipaddr
      /\ h1.out = h.out \cup {[dst |-> nh, ttl |-> MAXTTL, msg |-> x,
                               ch |-> IF nh = Bcast THEN AllChannels ELSE h.channelNum]}
  BY DEF sendPacket, Kept
<1>3. Tabled(h) /\ Tabled(h1) /\ SameRoutes(h1, h)
  BY <1>2 DEF Kept, Tabled, Lasting, SameRoutes, SameRoute
<1>4. \A p \in h1.out : p \in h.out \/ p.msg = x
  BY <1>2
<1> HIDE DEF h1
<1>5. Tabled(h2) /\ SameRest(h2, h1) /\ SameRoutes(h2, h1)
  BY <1>3, PrecursorRoutes
<1> HIDE DEF h2
<1>6. Tabled(h3) /\ SameRest(h3, h2) /\ SameRoutes(h3, h2)
  BY <1>5, PrecursorRoutes
<1> HIDE DEF h3
<1>7. Tabled(h4) /\ SameRest(h4, h3) /\ SameRoutes(h4, h3)
  BY <1>6, TimeoutRoutes
<1> HIDE DEF h4
<1>8. SameRoutes(h4, h)
  BY <1>3, <1>5, <1>6, <1>7 DEF SameRoutes, SameRoute
<1>9. SameRest(h4, h1)
  BY <1>5, <1>6, <1>7 DEF SameRest
<1>10. KeptIdle(h4, L)
  <2> DEFINE g == [h4 EXCEPT !.out = {}]
  <2>1. /\ DOMAIN g = DOMAIN h /\ g.rt = h4.rt /\ g.queue = h.queue /\ g.pqlen = h.pqlen
        /\ g.ipaddr = h.ipaddr /\ g.out = {}
    BY <1>2, <1>9 DEF Kept, SameRest
  <2>2. \A d \in Addr : Lasting(g.rt[d], d, L)
    <3>1. \A d \in Addr : /\ Lasting(h4.rt[d], d, Addr) /\ Lasting(h.rt[d], d, L)
                          /\ SameRoute(h4.rt[d], h.rt[d])
      BY <1>7, <1>8 DEF Tabled, SameRoutes, Kept
    <3>2. \A d \in Addr : Lasting(h4.rt[d], d, L)
      BY <3>1 DEF Lasting, SameRoute
    <3> QED BY <2>1, <3>2
  <2> HIDE DEF g
  <2>3. Kept(g, L)
    BY <1>7, <2>1, <2>2 DEF Kept, Tabled
  <2> QED BY <2>3 DEF KeptIdle, g
<1>11. \A p \in h4.out : p \in h.out \/ p.msg = x
  BY <1>4, <1>9 DEF SameRest
<1> QED BY <1>1, <1>8, <1>10, <1>11 DEF x

LEMMA RelayLrKept ==
  ASSUME NEW L, NEW h, Kept(h, L), NEW m \in RREP_LR, NEW src
  PROVE  KeptIdle(rrep_relay_lr(h, m, src), L)
<1> DEFINE h1   == RouteFold(h, m, src, Names(m))
           h2   == rrep_forward(h1, m, m.orig, m.dest)
<1>1. rrep_relay_lr(h, m, src) = IF valid(h1, m.orig) THEN h2 ELSE h1
  BY DEF rrep_relay_lr, RouteFold, Names
<1>2. Kept(h1, L)
  BY NamedRoutesKept
<1> HIDE DEF h1
<1>3. KeptIdle(h1, L)
  BY <1>2, OutKept DEF KeptIdle
<1>4. m.type = "RREP_LR"
  BY DEF RREP_LR
<1>5. KeptIdle(h2, L)
  BY <1>2, <1>4, RelayForwardKept
<1> HIDE DEF h2
<1> QED BY <1>1, <1>3, <1>5

\* At the originator.
LEMMA MendedKept ==
  ASSUME NEW L, NEW h, Kept(h, L), NEW u \in Addr, NEW m, NEW src
  PROVE  Kept(mended(h, u, m, src), L)
<1>1. "UNIDIR" \in {} => unidir_hack
  OBVIOUS
<1> QED BY <1>1, UpdateRouteKept, SettledKept DEF mended

LEMMA TellMendedKept ==
  ASSUME NEW L, NEW t, Mending(t, L), NEW x, Kept(x, L), NEW u
  PROVE  LET g == tell_mended(t, x, u) IN Mending(g, L) /\ g.h.rt = x.rt
<1> DEFINE fresh == {p.msg : p \in {q \in x.out \ t.h.out : q.msg.type = "RERR"}}
           buf   == IF t.rerr = {} \/ fresh = {} THEN t.rerr ELSE fresh
           named == [addr |-> u, seqno |-> x.rt[u].seqno]
           new   == [type |-> "RERR_LR", first |-> u, n |-> TRUE, dests |-> {named},
                     id |-> x.rerr_id, origin |-> x.ipaddr]
           more  == {[r EXCEPT !.dests = @ \cup {named}] : r \in buf}
           x1    == [x EXCEPT !.rerr_id = plus(@, 1)]
           g1    == [t EXCEPT !.h = x, !.rerr = buf]
           g2    == [h |-> x1, rerr |-> {new}, prec |-> x.rt[u].prec]
           g3    == [t EXCEPT !.h = x, !.rerr = more]
<1>1. tell_mended(t, x, u) \in {g1, g2, g3}
  BY DEF tell_mended
<1>2. Kept(x1, L) /\ x1.rt = x.rt
  <2>1. SameRest(x1, x) /\ x1.rt = x.rt
    BY DEF Kept, SameRest
  <2> HIDE DEF x1
  <2> QED BY <2>1, KeptSame
<1>3. \A r \in buf : IsError(r)
  <2>1. \A r \in t.rerr : IsError(r)
    BY DEF Mending
  <2>2. \A r \in fresh : IsError(r)
    BY DEF Kept, Quiet, IsError
  <2> HIDE DEF fresh
  <2> QED BY <2>1, <2>2
<1>4. \A r \in more : IsError(r)
  <2> HIDE DEF buf, named
  <2> QED BY <1>3 DEF IsError
<1>5. IsError(new)
  BY DEF IsError
<1> HIDE DEF buf, new, more, x1
<1>6. g1.h = x /\ g1.rerr = buf /\ {"h", "rerr"} \subseteq DOMAIN g1
  BY DEF Mending
<1>7. g3.h = x /\ g3.rerr = more /\ {"h", "rerr"} \subseteq DOMAIN g3
  BY DEF Mending
<1>8. g2.h = x1 /\ g2.rerr = {new} /\ {"h", "rerr"} \subseteq DOMAIN g2
  OBVIOUS
<1> HIDE DEF g1, g2, g3
<1>9. Mending(g1, L) /\ Mending(g2, L) /\ Mending(g3, L)
  BY <1>2, <1>3, <1>4, <1>5, <1>6, <1>7, <1>8 DEF Mending
<1> QED BY <1>1, <1>2, <1>6, <1>7, <1>8, <1>9

LEMMA MendKept ==
  ASSUME NEW L, NEW t, Mending(t, L), NEW u \in Addr, NEW m, NEW src
  PROVE  Mending(mend(t, u, m, src), L)
<1>1. Kept(mended(t.h, u, m, src), L)
  BY MendedKept DEF Mending
<1> QED BY <1>1, TellMendedKept DEF mend

LEMMA SendMendedKept ==
  ASSUME NEW L, NEW t, Mending(t, L), NEW junk
  PROVE  Kept(send_mended(t, junk), L)
<1> DEFINE r   == CHOOSE x \in t.rerr : TRUE
           one == IF Cardinality(t.prec) = 1 THEN CHOOSE p \in t.prec : TRUE ELSE junk
           dst == IF Cardinality(r.dests) = 1 /\ present(t.h, one) /\ one # 0
                  THEN one ELSE Bcast
<1>1. send_mended(t, junk) = IF t.rerr = {} THEN t.h ELSE aodv_socket_send(t.h, dst, 1, r)
  BY DEF send_mended
<1>2. t.rerr # {} => Quiet(r)
  BY DEF Mending, Quiet, IsError
<1>3. Kept(t.h, L)
  BY DEF Mending
<1> HIDE DEF r, dst
<1> QED BY <1>1, <1>2, <1>3, SocketSendKept

LEMMA OriginLrKept ==
  ASSUME NEW L, NEW h, Kept(h, L), NEW m, NEW src, NEW junk
  PROVE  Kept(rrep_origin_lr(h, m, src, junk), L)
<1> DEFINE t0   == [h |-> h, rerr |-> {}, prec |-> {}]
           list == ordered(Addr)
           n    == Cardinality(Addr)
           w    == [kind |-> "mend", m |-> m, src |-> src]
           t    == MendFold(t0, m, src, list)
<1>1. rrep_origin_lr(h, m, src, junk) = send_mended(t, junk)
  BY DEF rrep_origin_lr, MendFold
<1>2. n \in Nat /\ DOMAIN list = 1 .. n /\ \A i \in 1 .. n : list[i] \in Addr
  BY AddrAssumption, OrderedElement, FS_CardinalityType
<1>3. IsFiniteSet(1 .. n) /\ 1 .. n \subseteq Nat
  BY <1>2, FS_Interval
<1>4. Mending(t0, L)
  BY DEF Mending
<1> HIDE DEF list, n, t0
<1>5. PICK f : IsWalk(w, t0, list, f) /\ t = f[DOMAIN list]
  BY <1>2, <1>3, MendWalk
<1>6. \A x, a : Visit(w, x, a) = mend(x, a, m, src)
  BY DEF Visit
<1>7. \A x : Carries(w, L, x) <=> Mending(x, L)
  BY DEF Carries
<1> HIDE DEF w, t
<1>8. \A i \in 1 .. n : \A x : Carries(w, L, x) => Carries(w, L, Visit(w, x, list[i]))
  BY <1>2, <1>6, <1>7, MendKept
<1>9. Carries(w, L, f[DOMAIN list])
  BY <1>2, <1>4, <1>5, <1>7, <1>8, WalkKept
<1>10. Mending(t, L)
  BY <1>5, <1>7, <1>9
<1> QED BY <1>1, <1>10, SendMendedKept

LEMMA RrepInRepairKept ==
  ASSUME NEW L, NEW h, Kept(h, L), NEW m \in RREP, NEW src, NEW channel, NEW link
  PROVE  Kept(rrep_process_in_repair(h, m, src, channel, link), L)
<1> DEFINE h1 == rrep_process(h, m, src, channel, link)
<1>1. Kept(h1, L)
  BY RrepProcessKept
<1>2. rrep_process_in_repair(h, m, src, channel, link)
        \in {h1, tell_longer(h1, m.dest, h.rt[m.dest].hcnt)}
  BY DEF rrep_process_in_repair
<1> HIDE DEF h1
<1> QED BY <1>1, <1>2, RerrQuiet, SocketSendKept DEF tell_longer

---------------------------------------------------------------------------
(* LocalRepair: RERR_LR *)

\* The destinations read from a RERR_LR are a list.
LEMMA ReadList ==
  ASSUME NEW m, \A u \in m.dests : u.addr \in Addr
  PROVE  \E n \in Nat : DOMAIN rerr_read_lr(m) = 1 .. n
<1> DEFINE rest   == {u.addr : u \in m.dests} \ {m.first}
           seq(d) == (CHOOSE u \in m.dests : u.addr = d).seqno
           as(D)  == [i \in 1 .. Cardinality(D) |->
                        [addr |-> ordered(D)[i], seqno |-> seq(ordered(D)[i])]]
           id     == <<[addr |-> m.id, seqno |-> m.origin]>>
           less   == rest \ {greatest(rest)}
<1>1. rerr_read_lr(m) = IF rest = {} THEN as({m.first})
                        ELSE as({m.first}) \o id \o as(less)
  BY DEF rerr_read_lr
<1>2. ASSUME NEW D, IsFiniteSet(D)
      PROVE  \E S : as(D) \in Seq(S)
  <2> DEFINE e(i) == [addr |-> ordered(D)[i], seqno |-> seq(ordered(D)[i])]
             S == {e(i) : i \in 1 .. Cardinality(D)}
             k == Cardinality(D)
  <2>1. k \in Nat
    BY <1>2, FS_CardinalityType
  <2>2. as(D) = [i \in 1 .. k |-> e(i)]
    OBVIOUS
  <2> HIDE DEF e, as, k
  <2>3. as(D) \in Seq({e(i) : i \in 1 .. k})
    BY <2>1, <2>2
  <2> QED BY <2>3
<1>3. IsFiniteSet({m.first}) /\ IsFiniteSet(less)
  <2>1. less \subseteq Addr
    OBVIOUS
  <2> HIDE DEF less
  <2> QED BY <2>1, AddrAssumption, FS_Subset, FS_Singleton
<1> HIDE DEF as, less, rest
<1>4. PICK A, B : as({m.first}) \in Seq(A) /\ as(less) \in Seq(B)
  BY <1>2, <1>3
<1>5. \E I : id \in Seq(I)
  <2>1. id \in Seq({[addr |-> m.id, seqno |-> m.origin]})
    OBVIOUS
  <2> HIDE DEF id
  <2> QED BY <2>1
<1> HIDE DEF id
<1>6. PICK I : id \in Seq(I)
  BY <1>5
<1>7. \A s, t, u, S, T, U : s \in Seq(S) /\ t \in Seq(T) /\ u \in Seq(U)
                              => s \o t \o u \in Seq(S \cup T \cup U)
  <2> TAKE s, t, u, S, T, U
  <2> HAVE s \in Seq(S) /\ t \in Seq(T) /\ u \in Seq(U)
  <2> DEFINE V == S \cup T \cup U
  <2>1. Seq(S) \subseteq Seq(V) /\ Seq(T) \subseteq Seq(V) /\ Seq(U) \subseteq Seq(V)
    OBVIOUS
  <2>2. s \in Seq(V) /\ t \in Seq(V) /\ u \in Seq(V)
    BY <2>1
  <2> HIDE DEF V
  <2>3. s \o t \o u \in Seq(V)
    BY <2>2
  <2> QED BY <2>3 DEF V
<1>8. \E V : rerr_read_lr(m) \in Seq(V)
  <2> DEFINE r1 == as({m.first})
             r2 == as({m.first}) \o id \o as(less)
  <2>1. r1 \in Seq(A) /\ r2 \in Seq(A \cup I \cup B)
    BY <1>4, <1>6, <1>7
  <2>2. rerr_read_lr(m) = r1 \/ rerr_read_lr(m) = r2
    BY <1>1
  <2> HIDE DEF r1, r2
  <2> QED BY <2>1, <2>2
<1>9. \A V : \A s \in Seq(V) : \E n \in Nat : DOMAIN s = 1 .. n
  <2> TAKE V
  <2> TAKE s \in Seq(V)
  <2>1. Len(s) \in Nat /\ DOMAIN s = 1 .. Len(s)
    OBVIOUS
  <2> QED BY <2>1
<1> QED BY <1>8, <1>9

LEMMA LoseKept ==
  ASSUME NEW L, NEW t, "h" \in DOMAIN t, Kept(t.h, L), NEW u, NEW src
  PROVE  LET g == lose_lr(t, u, src) IN "h" \in DOMAIN g /\ Kept(g.h, L)
<1> DEFINE d  == u.addr
           h0 == rreq_route_discovery(t.h, d, FALSE)
           h1 == [h0 EXCEPT !.rt[d].seqno = u.seqno]
           tell == t.h.rt[d].prec # {} /\ "REPAIR" \notin t.h.rt[d].flags
           told == IF tell THEN Append(t.told, d) ELSE t.told
           spoilt == t.spoilt \/ (t.told # <<>> /\ ~t.h.seek[d].on)
           g  == [h |-> h1, told |-> told, spoilt |-> spoilt]
<1>1. lose_lr(t, u, src) \in {t, g}
  BY DEF lose_lr
<1> HIDE DEF d, told, spoilt
<1>2. Kept(h0, L)
  BY DiscoveryKept
<1> HIDE DEF h0
<1>3. Kept(h1, L)
  BY <1>2, KeptField
<1> HIDE DEF h1
<1>4. "h" \in DOMAIN g /\ g.h = h1
  OBVIOUS
<1> QED BY <1>1, <1>3, <1>4

LEMMA RerrProcessLrKept ==
  ASSUME NEW L, NEW h, Kept(h, L), NEW m \in RERR_LR, NEW src
  PROVE  Kept(rerr_process_lr(h, m, src), L)
<1> DEFINE t0   == [h |-> h, told |-> <<>>, spoilt |-> FALSE]
           list == rerr_read_lr(m)
           w    == [kind |-> "lose", src |-> src]
           t    == LoseFold(t0, src, list)
<1>1. rerr_process_lr(h, m, src) = pass_on_lr(t, m)
  BY DEF rerr_process_lr, LoseFold
<1>2. PICK n \in Nat : DOMAIN list = 1 .. n
  BY ReadList DEF RERR_LR, Udest
<1>3. IsFiniteSet(1 .. n) /\ 1 .. n \subseteq Nat
  BY FS_Interval
<1>4. "h" \in DOMAIN t0 /\ Kept(t0.h, L)
  OBVIOUS
<1> HIDE DEF list, t0
<1>5. PICK f : IsWalk(w, t0, list, f) /\ t = f[DOMAIN list]
  BY <1>2, <1>3, LoseWalk
<1>6. \A x, a : Visit(w, x, a) = lose_lr(x, a, src)
  BY DEF Visit
<1>7. \A x : Carries(w, L, x) <=> "h" \in DOMAIN x /\ Kept(x.h, L)
  BY DEF Carries
<1> HIDE DEF w, t
<1>8. \A i \in 1 .. n : \A x : Carries(w, L, x) => Carries(w, L, Visit(w, x, list[i]))
  BY <1>6, <1>7, LoseKept
<1>9. Carries(w, L, f[DOMAIN list])
  BY <1>2, <1>4, <1>5, <1>7, <1>8, WalkKept
<1>10. Kept(t.h, L)
  BY <1>5, <1>7, <1>9
<1>11. \A k, D : Quiet([m EXCEPT !.first = k, !.dests = D])
  BY DEF RERR_LR, Quiet
<1>12. Quiet([type |-> "OVERWRITTEN"])
  BY DEF Quiet
<1> DEFINE D   == ToSet(t.told)
           prec == [u \in Addr |-> t.h.rt[u].prec]
           new == [m EXCEPT !.first = Head(t.told), !.dests = udests(t.h, D)]
           x   == IF t.spoilt THEN [type |-> "OVERWRITTEN"] ELSE new
           dst == RerrDst(t.h, D, prec)
<1>13. pass_on_lr(t, m) = IF t.told = <<>> THEN t.h ELSE aodv_socket_send(t.h, dst, 1, x)
  BY DEF pass_on_lr
<1>14. Quiet(x)
  BY <1>11, <1>12
<1> HIDE DEF x, dst
<1>15. Kept(aodv_socket_send(t.h, dst, 1, x), L)
  BY <1>10, <1>14, SocketSendKept
<1> QED BY <1>1, <1>10, <1>13, <1>15

---------------------------------------------------------------------------
(* Any control message *)

\* All but the reply that is passed on keeps quiet.
Relays(h, m) == m \in RREP_LR /\ m.dest # Self /\ m.orig # Self

\* A plain RERR is read by a neighbour that it does not name, or one of L.
Unread(L, a) ==
  a.src \in L \/ a.msg \notin RERR \/ \A u \in rerr_read(a.msg) : u.addr # a.src

LEMMA ProcessLrKept ==
  ASSUME NEW L, NEW h, Kept(h, L), NEW a \in ARRIVAL, NEW channel, NEW link, NEW left, NEW junk,
         Unread(L, a)
  PROVE  LET g == process_lr(h, a.msg, a.src, channel, a.ttl, link, left, junk)
         IN  IF Relays(h, a.msg) THEN g = rrep_relay_lr(h, a.msg, a.src) ELSE Kept(g, L)
<1> DEFINE m == a.msg
<1>0. h.ipaddr = Self
  BY DEF Kept
<1>1. m \in RREQ \cup RREP \cup RERR \cup RREQ_LR \cup RREP_LR \cup RERR_LR
  BY DEF ARRIVAL
<1>2. CASE m \in RREQ_LR
  <2>1. m.type = "RREQ_LR" /\ m \notin RREP_LR
    BY <1>2 DEF RREQ_LR, RREP_LR
  <2> QED BY <1>2, <2>1, RreqProcessLrKept DEF process_lr, Relays
<1>3. CASE m \in RREP_LR
  <2>1. m.type = "RREP_LR"
    BY <1>3 DEF RREP_LR
  <2> QED BY <1>0, <1>3, <2>1, OriginLrKept DEF process_lr, rrep_process_lr, Relays
<1>4. CASE m \in RERR_LR
  <2>1. m.type = "RERR_LR" /\ m \notin RREP_LR
    BY <1>4 DEF RERR_LR, RREP_LR
  <2> QED BY <1>4, <2>1, RerrProcessLrKept DEF process_lr, Relays
<1>5. CASE m \in RREQ
  <2>1. m.type = "RREQ" /\ m \notin RREP_LR
    BY <1>5 DEF RREQ, RREP_LR
  <2> QED BY <1>5, <2>1, RreqProcessKept DEF process_lr, Relays
<1>6. CASE m \in RREP
  <2>1. m.type = "RREP" /\ m \notin RREP_LR
    BY <1>6 DEF RREP, RREP_LR
  <2> QED BY <1>6, <2>1, RrepInRepairKept DEF process_lr, Relays
<1>7. CASE m \in RERR
  <2>1. m.type = "RERR" /\ m \notin RREP_LR
    BY <1>7 DEF RERR, RREP_LR
  <2> QED BY <1>7, <2>1, RerrProcessKept DEF process_lr, Relays, Unread
<1> QED BY <1>1, <1>2, <1>3, <1>4, <1>5, <1>6, <1>7

LEMMA HandledKept ==
  ASSUME NEW L, NEW h, Kept(h, L), NEW a \in ARRIVAL, NEW junk,
         Unread(L, a)
  PROVE  KeptIdle(Handled(h, a, junk), L)
<1> DEFINE h1 == settled(neighbor_add(h, a.src))
           h2 == process_lr(h1, a.msg, a.src, channel0, a.ttl, link0, 1, junk)
<1>1. Handled(h, a, junk) = settled(h2)
  BY DEF Handled, aodv_socket_process_packet_lr
<1>2. a.src \in Addr
  BY DEF ARRIVAL
<1>3. Kept(h1, L)
  BY <1>2, NeighborAddKept, SettledKept
<1> HIDE DEF h1
<1>4. KeptIdle(h2, L)
  <2>1. CASE Relays(h1, a.msg)
    BY <1>3, <2>1, ProcessLrKept, RelayLrKept DEF Relays
  <2>2. CASE ~Relays(h1, a.msg)
    BY <1>3, <2>2, ProcessLrKept, OutKept DEF KeptIdle
  <2> QED BY <2>1, <2>2
<1> HIDE DEF h2
<1>5. KeptIdle(settled(h2), L)
  <2>1. SameRest(settled(h2), h2) /\ settled(h2).rt = h2.rt
    BY <1>4, SettledSame DEF KeptIdle, Kept
  <2> QED BY <1>4, <2>1, KeptIdleSame
<1> QED BY <1>1, <1>5

---------------------------------------------------------------------------
(* What the operations do to the routes *)

LEMMA SameRoutesTwice ==
  ASSUME NEW f, NEW g, NEW h, SameRoutes(f, g), SameRoutes(g, h) PROVE SameRoutes(f, h)
BY DEF SameRoutes, SameRoute

LEMMA SameRoutesTable ==
  ASSUME NEW g, NEW h, g.rt = h.rt PROVE SameRoutes(g, h)
BY DEF SameRoutes, SameRoute

\* The packets that waited for a route leave.
LEMMA PqSendRoutes ==
  ASSUME NEW L, NEW h, Kept(h, L), NEW d \in Addr
  PROVE  SameRoutes(pq_send(h, d), h)
<1> DEFINE nh == h.rt[d].next
           h1 == cleared(h, d)
           h2 == IF h.queue[d]["own"] = 0 THEN h1
                 ELSE sendPacket(h1, nh, MAXTTL,
                        [type |-> "DATA", src |-> h.ipaddr, dest |-> d])
           h3 == IF valid(h2, d) THEN rt_table_update_timeout(h2, d) ELSE h2
           h4 == IF valid(h3, d) /\ valid(h3, nh) /\ nh # d
                 THEN rt_table_update_timeout(h3, nh) ELSE h3
<1>1. pq_send(h, d) = h4
  BY DEF pq_send
<1>2. DOMAIN h1 = DOMAIN h /\ h1.rt = h.rt
  BY DEF cleared, Kept
<1> HIDE DEF h1, nh
<1>3. DOMAIN h2 = DOMAIN h /\ h2.rt = h.rt
  BY <1>2 DEF sendPacket
<1> HIDE DEF h2
<1>4. Tabled(h2)
  BY <1>3 DEF Kept, Tabled, Lasting
<1>5. Tabled(h3) /\ SameRoutes(h3, h2)
  BY <1>4, TimeoutRoutes, SameRoutesTable
<1> HIDE DEF h3
<1>6. SameRoutes(h4, h3)
  BY <1>5, TimeoutRoutes, SameRoutesTable
<1> HIDE DEF h4
<1> QED BY <1>1, <1>3, <1>5, <1>6, SameRoutesTwice, SameRoutesTable

LEMMA SeekFoundRoutes ==
  ASSUME NEW L, NEW h, Kept(h, L), NEW d \in Addr
  PROVE  SameRoutes(seek_found(h, d), h)
<1> DEFINE g == [h EXCEPT !.seek[d] = NoSeek]
<1>1. SameRest(g, h) /\ g.rt = h.rt
  BY DEF Kept, SameRest
<1>2. seek_found(h, d) = IF h.seek[d].on THEN pq_send(g, d) ELSE h
  BY DEF seek_found
<1> HIDE DEF g
<1>3. Kept(g, L)
  BY <1>1, KeptSame
<1>4. SameRoutes(pq_send(g, d), g)
  BY <1>3, PqSendRoutes
<1> QED BY <1>1, <1>2, <1>4, SameRoutesTwice, SameRoutesTable

\* A link that breaks writes no entry but that of the neighbour and those of the
\* VALID routes through it.
LEMMA LinkBreakRoutes ==
  ASSUME NEW L, NEW h, Kept(h, L), NEW d, NEW x \in Addr, x # d, ~(valid(h, x) /\ h.rt[x].next = d)
  PROVE  neighbor_link_break(h, d).rt[x] = h.rt[x]
<1>1. CASE ~present(h, d) \/ h.rt[d].hcnt # 1
  BY <1>1 DEF neighbor_link_break
<1>2. CASE ~(~present(h, d) \/ h.rt[d].hcnt # 1)
  <2> DEFINE rep   == "REPAIR" \in h.rt[d].flags
             users == {u \in Addr \ {d} : valid(h, u) /\ h.rt[u].next = d}
             kept  == {u \in users : rep /\ h.rt[u].hcnt <= MAX_REPAIR_TTL}
             lost  == (users \ kept) \cup (IF rep THEN {} ELSE {d})
             told  == {u \in lost : h.rt[u].prec # {}}
             prec  == [u \in Addr |-> h.rt[u].prec]
             marked(u) == IF u \in kept
                          THEN [h.rt[u] EXCEPT !.flags = h.rt[u].flags \cup {"REPAIR"}]
                          ELSE h.rt[u]
             inval(u) == IF h.rt[u].state = "valid" THEN invalidated(marked(u)) ELSE marked(u)
             broken(u) == IF u \in lost THEN [inval(u) EXCEPT !.prec = {}] ELSE inval(u)
             h1 == [h EXCEPT
                      !.rt = [u \in Addr |->
                                IF u \in users \cup {d} THEN broken(u) ELSE h.rt[u]],
                      !.num_active =
                        plus(h.num_active, -Cardinality({u \in users \cup {d} : valid(h, u)}))]
  <2>1. neighbor_link_break(h, d)
          = sendRerr(h1, IF d \in told THEN d ELSE least(told), told, prec, FALSE)
    BY <1>2 DEF neighbor_link_break
  <2>2. x \notin users \cup {d}
    OBVIOUS
  <2>3. h1.rt = [u \in Addr |-> IF u \in users \cup {d} THEN broken(u) ELSE h.rt[u]]
        /\ "out" \in DOMAIN h1
    BY DEF Kept
  <2> HIDE DEF users, broken
  <2>4. h1.rt[x] = h.rt[x]
    BY <2>2, <2>3
  <2> HIDE DEF h1, told, prec
  <2>5. \A f : sendRerr(h1, f, told, prec, FALSE).rt = h1.rt
    BY <2>3 DEF sendRerr, aodv_socket_send, sendPacket
  <2> QED BY <2>1, <2>4, <2>5
<1> QED BY <1>1, <1>2

\* What an update through next with so many hops does to the routes: d is written,
\* and another route is lost at most when it goes through a d that moved away.
Updates(g, h, d, next, hops) ==
  /\ g.rt[d].state = "valid" /\ g.rt[d].next = next
  /\ \A x \in Addr \ {d} :
       SameRoute(g.rt[x], h.rt[x]) \/ (hops > 1 /\ valid(h, x) /\ h.rt[x].next = d)

\* The flags it writes: the mark of a repair ends when the route is revived.
Flags(h, d, flags) ==
  IF invalid(h, d) /\ "REPAIR" \in h.rt[d].flags THEN flags \ {"REPAIR"} ELSE flags

LEMMA NoLongerNeighborRoutes ==
  ASSUME NEW L, NEW h, Kept(h, L), NEW d \in Addr, NEW hops, NEW x \in Addr \ {d},
         ~(hops > 1 /\ valid(h, x) /\ h.rt[x].next = d)
  PROVE  no_longer_neighbor(h, d, hops).rt[x] = h.rt[x]
<1> DEFINE h1 == [h EXCEPT !.rt[d].hello_cnt = 0, !.rt[d].hello = FALSE]
<1>1. h1.rt[x] = h.rt[x]
  BY DEF Kept
<1>2. Kept(h1, L)
  <2> DEFINE g == [h EXCEPT !.rt[d].hello_cnt = 0]
  <2>1. Kept(g, L)
    BY KeptField
  <2>2. h1 = [g EXCEPT !.rt[d].hello = FALSE]
    OBVIOUS
  <2> HIDE DEF g, h1
  <2> QED BY <2>1, <2>2, KeptField
<1>3. no_longer_neighbor(h, d, hops)
        = IF hops > 1 /\ h.rt[d].hcnt = 1 THEN neighbor_link_break(h1, d) ELSE h
  BY DEF no_longer_neighbor
<1> HIDE DEF h1
<1>4. hops > 1 => ~(valid(h1, x) /\ h1.rt[x].next = d)
  BY <1>1 DEF valid
<1> QED BY <1>1, <1>2, <1>3, <1>4, LinkBreakRoutes

LEMMA UpdateWithChannelRoutes ==
  ASSUME NEW L, NEW h, Kept(h, L), NEW d \in Addr, NEW next, NEW hops, NEW seqno, NEW flags,
         "UNIDIR" \in flags => unidir_hack, NEW channel, NEW cost
  PROVE  LET g == rt_table_update_with_channel(h, d, next, hops, seqno, flags, channel, cost)
         IN  /\ Updates(g, h, d, next, hops)
             /\ g.rt[d].flags = Flags(h, d, flags)
<1> DEFINE revived == invalid(h, d)
           f  == IF revived /\ "REPAIR" \in h.rt[d].flags THEN flags \ {"REPAIR"} ELSE flags
           h1 == IF revived THEN [h EXCEPT !.num_active = plus(@, 1)] ELSE h
           h2 == no_longer_neighbor(h1, d, hops)
           e  == [h2.rt[d] EXCEPT
                    !.flags = f, !.seqno = seqno, !.next = next, !.hcnt = hops,
                    !.channel = channel, !.cost = cost, !.handler = "expire",
                    !.armed = TRUE, !.state = "valid"]
           h3 == [h2 EXCEPT !.rt[d] = e]
<1>1. rt_table_update_with_channel(h, d, next, hops, seqno, flags, channel, cost)
        = seek_found(h3, d)
  BY DEF rt_table_update_with_channel
<1>2. Kept(h1, L) /\ h1.rt = h.rt
  <2>1. SameRest(h1, h) /\ h1.rt = h.rt
    BY DEF Kept, SameRest
  <2> HIDE DEF h1
  <2> QED BY <2>1, KeptSame
<1>3. "UNIDIR" \in f => unidir_hack
  OBVIOUS
<1> HIDE DEF h1, f
<1>4. Kept(h2, L \cup {d})
  BY <1>2, NoLongerNeighborKept
<1>5. ASSUME NEW x \in Addr \ {d}, ~(hops > 1 /\ valid(h, x) /\ h.rt[x].next = d)
      PROVE  h2.rt[x] = h.rt[x]
  <2>1. ~(hops > 1 /\ valid(h1, x) /\ h1.rt[x].next = d)
    BY <1>2, <1>5 DEF valid
  <2> QED BY <1>2, <2>1, NoLongerNeighborRoutes
<1> HIDE DEF h2
<1>6. e.state = "valid" /\ e.next = next /\ e.flags = f /\ Lasting(e, d, L)
  BY <1>3, <1>4 DEF Kept, Lasting
<1> HIDE DEF e
<1>7. Kept(h3, L) /\ \A x \in Addr : h3.rt[x] = IF x = d THEN e ELSE h2.rt[x]
  <2>1. \A x \in Addr : h3.rt[x] = IF x = d THEN e ELSE h2.rt[x]
    BY <1>4 DEF Kept
  <2> QED BY <1>4, <1>6, <2>1, KeptAgain
<1> HIDE DEF h3
<1>8. SameRoutes(seek_found(h3, d), h3)
  BY <1>7, SeekFoundRoutes
<1> DEFINE g == seek_found(h3, d)
<1> HIDE DEF g
<1>9. \A x \in Addr : SameRoute(g.rt[x], h3.rt[x])
  BY <1>8 DEF SameRoutes, g
<1>10. \A x \in Addr \ {d} :
         SameRoute(g.rt[x], h.rt[x]) \/ (hops > 1 /\ valid(h, x) /\ h.rt[x].next = d)
  BY <1>5, <1>7, <1>9
<1>11. g.rt[d].state = "valid" /\ g.rt[d].next = next /\ g.rt[d].flags = f
  BY <1>6, <1>7, <1>9 DEF SameRoute
<1>12. Updates(g, h, d, next, hops)
  BY <1>10, <1>11 DEF Updates
<1> QED BY <1>1, <1>11, <1>12 DEF f, g, Flags

LEMMA UpdateRoutes ==
  ASSUME NEW L, NEW h, Kept(h, L), NEW d \in Addr, NEW next, NEW hops, NEW seqno, NEW flags,
         "UNIDIR" \in flags => unidir_hack
  PROVE  LET g == rt_table_update(h, d, next, hops, seqno, flags)
         IN  /\ Updates(g, h, d, next, hops)
             /\ g.rt[d].flags = Flags(h, d, flags)
<1> DEFINE c == h.rt[d].channel
           k == h.rt[d].cost
<1>1. rt_table_update(h, d, next, hops, seqno, flags)
        = rt_table_update_with_channel(h, d, next, hops, seqno, flags, c, k)
  BY DEF rt_table_update
<1> HIDE DEF c, k
<1> DEFINE g == rt_table_update_with_channel(h, d, next, hops, seqno, flags, c, k)
<1>2. /\ Updates(g, h, d, next, hops)
      /\ g.rt[d].flags = Flags(h, d, flags)
  BY UpdateWithChannelRoutes
<1> HIDE DEF g
<1> QED BY <1>1, <1>2 DEF g

\* The insertion of a VALID entry.
LEMMA InsertRoutes ==
  ASSUME NEW L, NEW h, Kept(h, L), NEW d \in Addr, ~present(h, d), NEW next, NEW hops, NEW seqno,
         NEW life
  PROVE  LET g == rt_table_insert(h, d, next, hops, seqno, life, "valid", {})
         IN  /\ g.rt[d].state = "valid" /\ g.rt[d].next = next
             /\ \A x \in Addr \ {d} : SameRoute(g.rt[x], h.rt[x])
<1> DEFINE new == NewEntry(next, hops, seqno, {}, NoChannel, DefaultCost)
           e   == [new EXCEPT !.armed = (life # 0)]
           k   == [h EXCEPT !.rt[d] = e]
           h1  == [h EXCEPT !.rt[d] = e, !.num_entries = plus(h.num_entries, 1),
                            !.num_active = plus(h.num_active, 1)]
           g   == seek_found(h1, d)
<1>1. rt_table_insert(h, d, next, hops, seqno, life, "valid", {}) = g
  BY DEF rt_table_insert, insert_entry
<1>2. Lasting(e, d, L) /\ e.state = "valid" /\ e.next = next
  BY DEF Lasting, NewEntry
<1> HIDE DEF e
<1>3. Kept(k, L) /\ \A x \in Addr : k.rt[x] = IF x = d THEN e ELSE h.rt[x]
  <2>1. \A x \in Addr : k.rt[x] = IF x = d THEN e ELSE h.rt[x]
    BY DEF Kept
  <2> QED BY <1>2, <2>1, KeptEntry
<1>4. SameRest(h1, k) /\ h1.rt = k.rt
  BY DEF Kept, SameRest
<1> HIDE DEF k, h1
<1>5. Kept(h1, L)
  BY <1>3, <1>4, KeptSame
<1>6. SameRoutes(g, h1)
  BY <1>5, SeekFoundRoutes
<1> HIDE DEF g
<1>7. \A x \in Addr : SameRoute(g.rt[x], h1.rt[x])
  BY <1>6 DEF SameRoutes
<1> QED BY <1>1, <1>2, <1>3, <1>4, <1>7 DEF SameRoute

\* The sender of a message is a neighbour, and with it no other route changes.
LEMMA NeighborAddRoutes ==
  ASSUME NEW L, NEW h, Kept(h, L), NEW src \in Addr, ~unidir_hack
  PROVE  LET g == neighbor_add(h, src)
         IN  /\ g.rt[src].state = "valid" /\ g.rt[src].next = src
             /\ invalid(h, src) => "REPAIR" \notin g.rt[src].flags
             /\ \A x \in Addr \ {src} : SameRoute(g.rt[x], h.rt[x])
<1> DEFINE f  == h.rt[src].flags
           g1 == rt_table_insert(h, src, src, 1, 0, 1, "valid", {})
           g2 == rt_table_update(h, src, src, 1, h.rt[src].seqno, f)
<1>1. "UNIDIR" \notin f
  BY DEF Kept, Lasting
<1>2. neighbor_add(h, src) = IF ~present(h, src) THEN g1 ELSE g2
  BY <1>1 DEF neighbor_add
<1>3. ASSUME ~present(h, src)
      PROVE  /\ g1.rt[src].state = "valid" /\ g1.rt[src].next = src /\ ~invalid(h, src)
             /\ \A x \in Addr \ {src} : SameRoute(g1.rt[x], h.rt[x])
  BY <1>3, InsertRoutes DEF invalid, present
<1>4. /\ Updates(g2, h, src, src, 1)
      /\ g2.rt[src].flags = Flags(h, src, f)
  <2> HIDE DEF f
  <2> QED BY <1>1, UpdateRoutes
<1>5. invalid(h, src) => "REPAIR" \notin g2.rt[src].flags
  BY <1>4 DEF Flags
<1> HIDE DEF g1, g2
<1> QED BY <1>2, <1>3, <1>4, <1>5 DEF Updates

\* A route named in a reply that is passed on.
LEMMA LrRouteRoutes ==
  ASSUME NEW L, NEW h, Kept(h, L), NEW m, NEW src, NEW d \in Addr
  PROVE  Updates(lr_route(h, m, src, d), h, d, src, m.hcnt + 1)
<1> DEFINE hops == m.hcnt + 1
           f  == h.rt[d].flags
           g1 == rt_table_update(h, d, src, hops, m.seqno, f)
           g2 == settled(rt_table_insert(h, d, src, hops, m.seqno, 1, "valid", {}))
           g3 == rt_table_update(g2, d, src, hops, m.seqno, {})
           i  == rt_table_insert(h, d, src, hops, m.seqno, 1, "valid", {})
<1>1. lr_route(h, m, src, d) = IF present(h, d) THEN settled(g1) ELSE settled(g3)
  BY DEF lr_route
<1>2. "UNIDIR" \in f => unidir_hack
  BY FlagsKept
<1> HIDE DEF hops, f
<1>3. Kept(g1, L) /\ Updates(g1, h, d, src, hops)
  BY <1>2, UpdateRoutes, UpdateRouteKept
<1>4. Kept(i, L)
  BY InsertKept
<1>5. Kept(g2, L) /\ g2.rt = i.rt
  BY <1>4, SettledKept, SettledSame DEF Kept
<1>6. ~present(h, d) => \A x \in Addr \ {d} : SameRoute(i.rt[x], h.rt[x])
  BY InsertRoutes
<1> HIDE DEF g1, g2, i
<1>7. Kept(g3, L) /\ Updates(g3, g2, d, src, hops)
  BY <1>5, UpdateRoutes, UpdateRouteKept
<1> HIDE DEF g3
<1>8. ~present(h, d) => Updates(g3, h, d, src, hops)
  <2> SUFFICES ASSUME ~present(h, d), NEW x \in Addr \ {d}
               PROVE  SameRoute(g3.rt[x], h.rt[x]) \/ (hops > 1 /\ valid(h, x) /\ h.rt[x].next = d)
    BY <1>7 DEF Updates
  <2>1. SameRoute(g2.rt[x], h.rt[x])
    BY <1>5, <1>6
  <2>2. SameRoute(g3.rt[x], g2.rt[x]) \/ (hops > 1 /\ valid(g2, x) /\ g2.rt[x].next = d)
    BY <1>7 DEF Updates
  <2> QED BY <2>1, <2>2 DEF SameRoute, valid
<1>9. settled(g1).rt = g1.rt /\ settled(g3).rt = g3.rt
  BY <1>3, <1>7, SettledSame DEF Kept
<1> QED BY <1>1, <1>3, <1>8, <1>9 DEF Updates, hops

\* A route mended.
LEMMA MendedRoutes ==
  ASSUME NEW L, NEW h, Kept(h, L), NEW u \in Addr, NEW m, NEW src
  PROVE  LET g == mended(h, u, m, src)
         IN  /\ Updates(g, h, u, src, IF u = m.dest THEN m.hcnt + 1 ELSE m.hcnt + h.rt[u].hcnt)
             /\ "REPAIR" \notin g.rt[u].flags
<1> DEFINE hops  == IF u = m.dest THEN m.hcnt + 1 ELSE m.hcnt + h.rt[u].hcnt
           seqno == IF u = m.dest THEN m.seqno ELSE h.rt[u].seqno
           g1    == rt_table_update(h, u, src, hops, seqno, {})
<1>1. mended(h, u, m, src) = settled(g1)
  BY DEF mended
<1> HIDE DEF hops, seqno
<1>2. /\ Updates(g1, h, u, src, hops)
      /\ g1.rt[u].flags = Flags(h, u, {})
  BY UpdateRoutes
<1>3. Kept(g1, L)
  BY UpdateRouteKept
<1> HIDE DEF g1
<1>4. settled(g1).rt = g1.rt
  BY <1>3, SettledSame DEF Kept
<1>5. "REPAIR" \notin Flags(h, u, {})
  BY DEF Flags
<1> QED BY <1>1, <1>2, <1>4, <1>5 DEF Updates, hops

---------------------------------------------------------------------------
(* The routes a reply leaves behind *)

\* A set of positions that is closed under the next one holds all of them.
LEMMA Climb ==
  ASSUME NEW n \in Nat, NEW G, 0 \in G, \A i \in 1 .. n : i - 1 \in G => i \in G
  PROVE  \A i \in 0 .. n : i \in G
<1> DEFINE Bad == (0 .. n) \ G
<1> SUFFICES ASSUME Bad # {} PROVE FALSE
  OBVIOUS
<1>1. PICK i \in Bad : \A y \in Bad : i <= y
  <2>1. Bad \subseteq Nat
    OBVIOUS
  <2> HIDE DEF Bad
  <2> QED BY <2>1, LeastNumber
<1>2. i \in 1 .. n /\ i - 1 \in 0 .. n /\ ~(i <= i - 1)
  OBVIOUS
<1>3. i - 1 \in G
  BY <1>1, <1>2
<1> QED BY <1>2, <1>3

\* A usable route through src.
Through(h, x, src) == h.rt[x].state = "valid" /\ h.rt[x].next = src

\* After a walk over the destinations of a reply each of them has a route through
\* its sender, unless the sender comes later in the list and is farther away.
LEMMA RouteFoldRoutes ==
  ASSUME NEW L, NEW h, Kept(h, L), NEW m, NEW src, NEW n \in Nat, NEW list, DOMAIN list = 1 .. n,
         \A i \in 1 .. n : list[i] \in Addr
  PROVE  \A j \in 1 .. n : \/ Through(RouteFold(h, m, src, list), list[j], src)
                           \/ m.hcnt + 1 > 1 /\ \E k \in 1 .. n : k > j /\ list[k] = src
<1> DEFINE w   == [kind |-> "route", m |-> m, src |-> src]
           far == m.hcnt + 1 > 1
<1>1. IsFiniteSet(1 .. n) /\ 1 .. n \subseteq Nat
  BY FS_Interval
<1>2. PICK f : IsWalk(w, h, list, f) /\ RouteFold(h, m, src, list) = f[1 .. n]
  BY <1>1, RouteWalk
<1>3. \A x, a : Visit(w, x, a) = lr_route(x, m, src, a)
  BY DEF Visit
<1> HIDE DEF w
<1>4. /\ f[1 .. 0] = h
      /\ \A i \in 1 .. n : f[1 .. i] = lr_route(f[1 .. (i - 1)], m, src, list[i])
  BY <1>2, <1>3, WalkSteps
<1> DEFINE Good1(i, j) == \/ Through(f[1 .. i], list[j], src)
                          \/ far /\ \E k \in 1 .. i : k > j /\ list[k] = src
           G == {i \in 0 .. n : Kept(f[1 .. i], L) /\ \A j \in 1 .. i : Good1(i, j)}
<1>5. 0 \in G
  BY <1>4
<1>6. ASSUME NEW i \in 1 .. n, i - 1 \in G PROVE i \in G
  <2> DEFINE x == f[1 .. (i - 1)]
             y == f[1 .. i]
  <2>1. Kept(x, L) /\ \A j \in 1 .. (i - 1) : Good1(i - 1, j)
    BY <1>6
  <2>2. y = lr_route(x, m, src, list[i])
    BY <1>4
  <2>3. Kept(y, L) /\ Updates(y, x, list[i], src, m.hcnt + 1)
    <3> HIDE DEF x, y
    <3> QED BY <2>1, <2>2, LrRouteKept, LrRouteRoutes
  <2>4. Through(y, list[i], src)
    BY <2>3 DEF Updates, Through
  <2>5. ASSUME NEW j \in 1 .. (i - 1) PROVE Good1(i, j)
    <3>1. list[j] \in Addr /\ i \in 1 .. i /\ i > j /\ 1 .. (i - 1) \subseteq 1 .. i
      OBVIOUS
    <3>2. CASE far /\ \E k \in 1 .. (i - 1) : k > j /\ list[k] = src
      <4> HIDE DEF far
      <4> QED BY <3>1, <3>2
    <3>3. CASE Through(x, list[j], src) /\ list[j] # list[i]
      <4>1. \/ SameRoute(y.rt[list[j]], x.rt[list[j]])
            \/ far /\ x.rt[list[j]].next = list[i]
        <5> HIDE DEF x, y
        <5> QED BY <2>3, <3>1, <3>3 DEF Updates
      <4>2. \/ Through(y, list[j], src)
            \/ far /\ list[i] = src
        <5> HIDE DEF x, y, far
        <5> QED BY <3>3, <4>1 DEF SameRoute, Through
      <4> HIDE DEF far
      <4> QED BY <3>1, <4>2
    <3>4. CASE list[j] = list[i]
      BY <2>4, <3>4
    <3>5. Through(x, list[j], src) \/ (far /\ \E k \in 1 .. (i - 1) : k > j /\ list[k] = src)
      BY <2>1
    <3> QED BY <3>2, <3>3, <3>4, <3>5
  <2>6. Good1(i, i)
    BY <2>4
  <2>7. \A j \in 1 .. i : j = i \/ j \in 1 .. (i - 1)
    OBVIOUS
  <2> HIDE DEF Good1
  <2>8. \A j \in 1 .. i : Good1(i, j)
    BY <2>5, <2>6, <2>7
  <2>9. i \in 0 .. n
    OBVIOUS
  <2> QED BY <2>3, <2>8, <2>9
<1>7. n \in G
  <2> HIDE DEF G
  <2>1. n \in 0 .. n
    OBVIOUS
  <2> QED BY <1>5, <1>6, <2>1, Climb
<1> QED BY <1>2, <1>7

\* The destinations of a reply that have a route through n afterwards, if n sends it:
\* those the message does not name before n itself.
Kin(m, n) ==
  ({m.udests[j].addr : j \in {k \in DOMAIN m.udests :
      \A i \in DOMAIN m.udests : m.udests[i].addr = n => k >= i}} \ {Self}) \cup {m.dest}

LEMMA NamedRoutes ==
  ASSUME NEW L, NEW h, Kept(h, L), NEW m \in RREP_LR, NEW src, src # Self, src = m.dest => m.hcnt = 0,
         NEW d \in Kin(m, src)
  PROVE  d \in Addr /\ Through(RouteFold(h, m, src, Names(m)), d, src)
<1> DEFINE list == Names(m)
           c    == Len(m.udests)
           n    == c + 1
           h1   == RouteFold(h, m, src, list)
<1>1. /\ c \in Nat /\ DOMAIN m.udests = 1 .. c /\ DOMAIN list = 1 .. n
      /\ \A i \in 1 .. n : list[i] \in Addr
      /\ \A i \in 1 .. c : list[i] = m.udests[i].addr
      /\ list[n] = m.dest
  BY NamedList
<1> HIDE DEF list, c
<1>2. n \in Nat /\ 1 .. c \subseteq 1 .. n /\ n \in 1 .. n
      /\ \A i \in 1 .. n : i \in 1 .. c \/ i = n
  BY <1>1
<1> HIDE DEF n
<1>3. \A j \in 1 .. n : \/ Through(h1, list[j], src)
                        \/ m.hcnt + 1 > 1 /\ \E k \in 1 .. n : k > j /\ list[k] = src
  BY <1>1, <1>2, RouteFoldRoutes
\* The sender does not come later in the list as one that is farther away.
<1>4. PICK j \in 1 .. n : /\ list[j] = d
                          /\ \A i \in 1 .. c : list[i] = src => j >= i
  <2>1. CASE d = m.dest
    <3>1. \A i \in 1 .. c : n >= i
      BY <1>1 DEF n
    <3> QED BY <1>1, <1>2, <2>1, <3>1
  <2>2. CASE d # m.dest
    <3>1. PICK j \in 1 .. c : /\ m.udests[j].addr = d
                              /\ \A i \in 1 .. c : m.udests[i].addr = src => j >= i
      BY <1>1, <2>2 DEF Kin
    <3> QED BY <1>1, <1>2, <3>1
  <2> QED BY <2>1, <2>2
<1>5. ASSUME NEW k \in 1 .. n, k > j, list[k] = src PROVE ~(m.hcnt + 1 > 1)
  <2>1. k = n
    BY <1>1, <1>2, <1>4, <1>5
  <2>2. src = m.dest
    BY <1>1, <1>5, <2>1
  <2> QED BY <2>2
<1>6. Through(h1, d, src) /\ d \in Addr
  BY <1>1, <1>3, <1>4, <1>5
<1> QED BY <1>6 DEF list, h1

\* The replies that are passed on find their routes.
Relayed(h) ==
  \A p \in h.out : p.msg.type = "RREP_LR" /\ p.msg.dest # Self =>
    \A d \in Kin(p.msg, h.rt[p.msg.dest].next) :
      valid(h, d) /\ h.rt[d].next = h.rt[p.msg.dest].next

\* Who relays nothing has nothing to show.
LEMMA KeptRelayed ==
  ASSUME NEW L, NEW h, Kept(h, L) PROVE Relayed(h)
BY DEF Kept, Quiet, Relayed

LEMMA RelayedSame ==
  ASSUME NEW g, NEW h, g.rt = h.rt, g.out = h.out, Relayed(h) PROVE Relayed(g)
BY DEF Relayed, valid

LEMMA RelayLrRelayed ==
  ASSUME NEW L, NEW h, Kept(h, L), NEW m \in RREP_LR, NEW src, src # Self, src = m.dest => m.hcnt = 0
  PROVE  Relayed(rrep_relay_lr(h, m, src))
<1> DEFINE h1   == RouteFold(h, m, src, Names(m))
           h2   == rrep_forward(h1, m, m.orig, m.dest)
<1>1. rrep_relay_lr(h, m, src) = IF valid(h1, m.orig) THEN h2 ELSE h1
  BY DEF rrep_relay_lr, RouteFold, Names
<1>2. m.dest \in Addr /\ m.type = "RREP_LR"
  BY DEF RREP_LR
<1>3. Kept(h1, L)
  BY NamedRoutesKept
<1>4. \A d \in Kin(m, src) : d \in Addr /\ Through(h1, d, src)
  BY NamedRoutes
<1> HIDE DEF h1
<1>5. /\ SameRoutes(h2, h1)
      /\ \A p \in h2.out : p \in h1.out \/ p.msg = [m EXCEPT !.hcnt = h1.rt[m.dest].hcnt]
  BY <1>2, <1>3, RelayForwardKept
<1> HIDE DEF h2
<1>6. m.dest \in Kin(m, src)
  BY DEF Kin
<1>7. \A d \in Kin(m, src) : valid(h2, d) /\ h2.rt[d].next = src
  BY <1>4, <1>5 DEF SameRoutes, SameRoute, Through, valid
<1>8. ASSUME NEW p \in h2.out, p.msg.type = "RREP_LR", p.msg.dest # Self
      PROVE  p.msg.dest = m.dest /\ p.msg.udests = m.udests
  <2>1. p \notin h1.out
    BY <1>3, <1>8 DEF Kept, Quiet
  <2>2. p.msg = [m EXCEPT !.hcnt = h1.rt[m.dest].hcnt]
    BY <1>5, <2>1
  <2> QED BY <2>2 DEF RREP_LR
<1>9. \A p \in h2.out : p.msg.type = "RREP_LR" /\ p.msg.dest # Self
                          => \A n : Kin(p.msg, n) = Kin(m, n)
  BY <1>8 DEF Kin
<1>10. Relayed(h2)
  BY <1>6, <1>7, <1>8, <1>9 DEF Relayed
<1>11. Relayed(h1)
  BY <1>3, KeptRelayed
<1> QED BY <1>1, <1>10, <1>11

LEMMA HandledRelayed ==
  ASSUME NEW h, Kept(h, Addr), NEW a \in Arrivals, NEW junk
  PROVE  Relayed(Handled(h, a, junk))
<1> DEFINE h1 == settled(neighbor_add(h, a.src))
           h2 == process_lr(h1, a.msg, a.src, channel0, a.ttl, link0, 1, junk)
<1>1. Handled(h, a, junk) = settled(h2)
  BY DEF Handled, aodv_socket_process_packet_lr
<1>2. a \in ARRIVAL /\ a.src \in Addr /\ a.src # Self
  BY RepairAssumption, ArrivalAssumption DEF ARRIVAL
<1>6. Unread(Addr, a)
  BY <1>2 DEF Unread
<1>3. Kept(h1, Addr)
  BY <1>2, NeighborAddKept, SettledKept
<1> HIDE DEF h1
<1>4. Relayed(h2) /\ {"rt", "queue", "pqlen", "ipaddr", "out"} \subseteq DOMAIN h2
  <2>1. ASSUME Relays(h1, a.msg)
        PROVE  Relayed(h2) /\ {"rt", "queue", "pqlen", "ipaddr", "out"} \subseteq DOMAIN h2
    <3>1. h2 = rrep_relay_lr(h1, a.msg, a.src) /\ a.msg \in RREP_LR
      BY <1>2, <1>3, <2>1, <1>6, ProcessLrKept DEF Relays
    <3>2. a.src = a.msg.dest => a.msg.hcnt = 0
      BY <3>1, ArrivalAssumption DEF RREP_LR
    <3> HIDE DEF h2
    <3>3. KeptIdle(h2, Addr)
      BY <1>3, <3>1, RelayLrKept
    <3> QED BY <1>2, <1>3, <3>1, <3>2, <3>3, RelayLrRelayed DEF KeptIdle, Kept
  <2>2. ASSUME ~Relays(h1, a.msg) PROVE Kept(h2, Addr)
    BY <1>2, <1>3, <1>6, <2>2, ProcessLrKept
  <2> HIDE DEF h2
  <2>3. Kept(h2, Addr) => Relayed(h2) /\ {"rt", "queue", "pqlen", "ipaddr", "out"} \subseteq DOMAIN h2
    BY KeptRelayed DEF Kept
  <2> QED BY <2>1, <2>2, <2>3
<1> HIDE DEF h2
<1>5. settled(h2).rt = h2.rt /\ settled(h2).out = h2.out
  BY <1>4, SettledSame DEF SameRest
<1> QED BY <1>1, <1>4, <1>5, RelayedSame

---------------------------------------------------------------------------
(* The routes that are mended *)

\* A route that waits for the reply m, and one that it has mended.
Waits(h, d, m) ==
  invalid(h, d) /\ "REPAIR" \in h.rt[d].flags /\ (d = m.dest \/ h.rt[d].next = m.dest)

Whole(h, d, src) == valid(h, d) /\ h.rt[d].next = src /\ "REPAIR" \notin h.rt[d].flags

LEMMA MendRoutes ==
  ASSUME NEW L, NEW t, Mending(t, L), NEW u \in Addr, NEW m, NEW src
  PROVE  LET y == mend(t, u, m, src)
         IN  \/ /\ "REPAIR" \in t.h.rt[u].flags /\ (u = m.dest \/ t.h.rt[u].next = m.dest)
                /\ "REPAIR" \notin y.h.rt[u].flags
                /\ Updates(y.h, t.h, u, src,
                           IF u = m.dest THEN m.hcnt + 1 ELSE m.hcnt + t.h.rt[u].hcnt)
             \/ /\ ~("REPAIR" \in t.h.rt[u].flags /\ (u = m.dest \/ t.h.rt[u].next = m.dest))
                /\ y = t
<1> DEFINE x == mended(t.h, u, m, src)
           y == tell_mended(t, x, u)
           hops == IF u = m.dest THEN m.hcnt + 1 ELSE m.hcnt + t.h.rt[u].hcnt
<1>1. Kept(t.h, L)
  BY DEF Mending
<1>2. Kept(x, L) /\ Updates(x, t.h, u, src, hops) /\ "REPAIR" \notin x.rt[u].flags
  BY <1>1, MendedKept, MendedRoutes
<1>3. mend(t, u, m, src) = IF "REPAIR" \in t.h.rt[u].flags
                                /\ (u = m.dest \/ t.h.rt[u].next = m.dest) THEN y ELSE t
  BY DEF mend
<1> HIDE DEF x
<1>4. y.h.rt = x.rt
  BY <1>2, TellMendedKept
<1> HIDE DEF y, hops
<1> QED BY <1>2, <1>3, <1>4 DEF Updates, hops

\* One visit of the walk over the table.
LEMMA MendOne ==
  ASSUME NEW L, NEW t, Mending(t, L), NEW u \in Addr, NEW m, NEW src \in Addr,
         src = m.dest => m.hcnt = 0, t.h.rt[src].next = src
  PROVE  LET y == mend(t, u, m, src)
         IN  /\ y.h.rt[src].next = src
             /\ \A d \in Addr : Whole(t.h, d, src) => Whole(y.h, d, src)
             /\ \A d \in Addr \ {u, src} : Waits(t.h, d, m) => Waits(y.h, d, m)
             /\ Waits(t.h, u, m) => Whole(y.h, u, src)
<1> DEFINE y    == mend(t, u, m, src)
           hops == IF u = m.dest THEN m.hcnt + 1 ELSE m.hcnt + t.h.rt[u].hcnt
           due  == "REPAIR" \in t.h.rt[u].flags /\ (u = m.dest \/ t.h.rt[u].next = m.dest)
<1>1. \/ due /\ "REPAIR" \notin y.h.rt[u].flags /\ Updates(y.h, t.h, u, src, hops)
      \/ ~due /\ y = t
  BY MendRoutes
<1>2. due /\ u = src => ~(hops > 1)
  OBVIOUS
<1> HIDE DEF y, hops
<1>3. CASE ~due /\ y = t
  BY <1>3 DEF Waits, y
<1>4. CASE due /\ "REPAIR" \notin y.h.rt[u].flags /\ Updates(y.h, t.h, u, src, hops)
  <2> HIDE DEF due
  <2>1. /\ y.h.rt[u].state = "valid" /\ y.h.rt[u].next = src
        /\ "REPAIR" \notin y.h.rt[u].flags
        /\ \A d \in Addr \ {u} :
             SameRoute(y.h.rt[d], t.h.rt[d]) \/ (hops > 1 /\ valid(t.h, d) /\ t.h.rt[d].next = u)
    BY <1>4 DEF Updates
  <2>2. \A d \in Addr \ {u} : t.h.rt[d].next = src => SameRoute(y.h.rt[d], t.h.rt[d])
    BY <1>2, <1>4, <2>1
  <2>3. y.h.rt[src].next = src
    BY <2>1, <2>2 DEF SameRoute
  <2>4. ASSUME NEW d \in Addr, Whole(t.h, d, src) PROVE Whole(y.h, d, src)
    BY <2>1, <2>2, <2>4 DEF Whole, SameRoute, valid
  <2>5. ASSUME NEW d \in Addr \ {u, src}, Waits(t.h, d, m) PROVE Waits(y.h, d, m)
    BY <2>1, <2>5 DEF Waits, SameRoute, valid, invalid
  <2>6. Whole(y.h, u, src)
    BY <2>1 DEF Whole, valid
  <2> QED BY <2>3, <2>4, <2>5, <2>6 DEF y
<1> QED BY <1>1, <1>3, <1>4

\* A route that waits before the walk is whole after it: the walk comes to every
\* address once.
LEMMA OriginRoutes ==
  ASSUME NEW L, NEW h, Kept(h, L), NEW m, NEW src \in Addr, src = m.dest => m.hcnt = 0,
         h.rt[src].next = src, NEW junk, NEW d \in Addr,
         Whole(h, d, src) \/ (d # src /\ Waits(h, d, m))
  PROVE  Whole(rrep_origin_lr(h, m, src, junk), d, src)
<1> DEFINE t0   == [h |-> h, rerr |-> {}, prec |-> {}]
           list == ordered(Addr)
           n    == Cardinality(Addr)
           w    == [kind |-> "mend", m |-> m, src |-> src]
           t    == MendFold(t0, m, src, list)
<1>1. rrep_origin_lr(h, m, src, junk) = send_mended(t, junk)
  BY DEF rrep_origin_lr, MendFold
<1>2. /\ n \in Nat /\ DOMAIN list = 1 .. n /\ \A i \in 1 .. n : list[i] \in Addr
      /\ \E i \in 1 .. n : list[i] = d
  BY AddrAssumption, OrderedElement, FS_CardinalityType
<1>3. IsFiniteSet(1 .. n) /\ 1 .. n \subseteq Nat
  BY <1>2, FS_Interval
<1>4. Mending(t0, L) /\ t0.h = h
  BY DEF Mending
<1> HIDE DEF list, n, t0
<1>5. PICK f : IsWalk(w, t0, list, f) /\ t = f[1 .. n]
  BY <1>2, <1>3, MendWalk
<1>6. \A x, a : Visit(w, x, a) = mend(x, a, m, src)
  BY DEF Visit
<1> HIDE DEF w, t
<1>7. /\ f[1 .. 0] = t0
      /\ \A i \in 1 .. n : f[1 .. i] = mend(f[1 .. (i - 1)], list[i], m, src)
  BY <1>2, <1>5, <1>6, WalkSteps
<1> DEFINE Mended(i) == \/ Whole(f[1 .. i].h, d, src)
                      \/ /\ d # src /\ Waits(f[1 .. i].h, d, m)
                         /\ \A j \in 1 .. i : list[j] # d
           G == {i \in 0 .. n : /\ Mending(f[1 .. i], L) /\ f[1 .. i].h.rt[src].next = src
                                /\ Mended(i)}
<1>8. 0 \in G
  BY <1>2, <1>4, <1>7
<1>9. ASSUME NEW i \in 1 .. n, i - 1 \in G PROVE i \in G
  <2> DEFINE x == f[1 .. (i - 1)]
             y == f[1 .. i]
             u == list[i]
  <2>1. Mending(x, L) /\ x.h.rt[src].next = src /\ Mended(i - 1)
    BY <1>9
  <2>2. y = mend(x, u, m, src) /\ u \in Addr
    BY <1>2, <1>7
  <2>3. /\ Mending(y, L) /\ y.h.rt[src].next = src
        /\ Whole(x.h, d, src) => Whole(y.h, d, src)
        /\ d \notin {u, src} /\ Waits(x.h, d, m) => Waits(y.h, d, m)
        /\ d = u /\ Waits(x.h, d, m) => Whole(y.h, d, src)
    <3> HIDE DEF x, y, u, Mended
    <3> QED BY <2>1, <2>2, MendKept, MendOne
  <2>4. \A j \in 1 .. i : j = i \/ j \in 1 .. (i - 1)
    OBVIOUS
  <2>5. Mended(i)
    BY <2>1, <2>3, <2>4
  <2>6. i \in 0 .. n
    OBVIOUS
  <2> QED BY <2>3, <2>5, <2>6
<1>10. n \in G
  <2> HIDE DEF G
  <2>1. n \in 0 .. n
    BY <1>2
  <2> QED BY <1>2, <1>8, <1>9, <2>1, Climb
<1>11. Whole(t.h, d, src)
  BY <1>2, <1>5, <1>10
<1>12. Mending(t, L)
  BY <1>5, <1>10
<1>13. send_mended(t, junk).rt = t.h.rt
  BY <1>12 DEF send_mended, aodv_socket_send, sendPacket, Mending, Kept
<1> QED BY <1>1, <1>11, <1>13 DEF Whole, valid

\* The reply to a repair arrives.
LEMMA HandledMends ==
  ASSUME NEW L, ~unidir_hack, NEW h, Kept(h, L), NEW a \in Arrivals, NEW junk,
         a.msg.type = "RREP_LR", a.msg.orig = Self, a.msg.dest # Self,
         NEW d, Waits(h, d, a.msg)
  PROVE  Whole(Handled(h, a, junk), d, a.src)
<1> DEFINE m   == a.msg
           src == a.src
           x   == neighbor_add(h, src)
           h1  == settled(x)
           h2  == rrep_origin_lr(h1, m, src, junk)
<1>1. a \in ARRIVAL /\ src \in Addr
  BY RepairAssumption DEF ARRIVAL
<1>2. Kept(x, L)
  BY <1>1, NeighborAddKept
<1>3. /\ x.rt[src].state = "valid" /\ x.rt[src].next = src
      /\ invalid(h, src) => "REPAIR" \notin x.rt[src].flags
      /\ \A y \in Addr \ {src} : SameRoute(x.rt[y], h.rt[y])
  BY <1>1, NeighborAddRoutes
<1> HIDE DEF x
<1>4. Kept(h1, L) /\ h1.rt = x.rt /\ h1.ipaddr = Self
  BY <1>2, SettledKept, SettledSame DEF Kept
<1>5. Handled(h, a, junk) = settled(process_lr(h1, m, src, channel0, a.ttl, link0, 1, junk))
  BY DEF Handled, aodv_socket_process_packet_lr, x
<1> HIDE DEF h1
<1>6. process_lr(h1, m, src, channel0, a.ttl, link0, 1, junk) = h2
  BY <1>4 DEF process_lr, rrep_process_lr
<1>7. src = m.dest => m.hcnt = 0
  BY ArrivalAssumption
<1>8. d \in Addr
  BY DEF Waits, invalid
<1>9. Whole(h1, d, src) \/ (d # src /\ Waits(h1, d, m))
  <2>1. CASE d = src
    BY <1>3, <1>4, <1>8, <2>1 DEF Waits, Whole, valid
  <2>2. CASE d # src
    BY <1>3, <1>4, <1>8, <2>2 DEF Waits, invalid, SameRoute
  <2> QED BY <2>1, <2>2
<1> HIDE DEF m, src
<1>10. Whole(h2, d, src) /\ Kept(h2, L)
  BY <1>1, <1>3, <1>4, <1>7, <1>8, <1>9, OriginRoutes, OriginLrKept
<1> HIDE DEF h2
<1>11. settled(h2).rt = h2.rt
  BY <1>10, SettledSame DEF Kept
<1>12. Whole(settled(h2), d, src)
  BY <1>10, <1>11 DEF Whole, valid
<1> QED BY <1>5, <1>6, <1>12 DEF src

---------------------------------------------------------------------------
(* The links that break *)

\* A RERR names all its destinations.
LEMMA RerrTells ==
  ASSUME NEW h, {"rt", "out"} \subseteq DOMAIN h, NEW first, NEW D, NEW prec, NEW n
  PROVE  LET g == sendRerr(h, first, D, prec, n)
         IN  g.rt = h.rt /\ \A u \in D : reported(g, u)
<1> DEFINE m   == Rerr(h, first, D, n)
           dst == RerrDst(h, D, prec)
           p   == [dst |-> dst, ttl |-> 1, msg |-> m,
                   ch |-> IF dst = Bcast THEN AllChannels ELSE h.channelNum]
           g   == sendRerr(h, first, D, prec, n)
<1>1. m.type = "RERR" /\ \A u \in D : [addr |-> u, seqno |-> h.rt[u].seqno] \in m.dests
  BY DEF Rerr
<1>2. g = IF D = {} THEN h ELSE [h EXCEPT !.out = @ \cup {p}]
  BY <1>1 DEF sendRerr, aodv_socket_send, sendPacket
<1>3. g.rt = h.rt /\ (D # {} => p \in g.out)
  BY <1>2
<1>4. p.msg = m
  OBVIOUS
<1> HIDE DEF m, p, g
<1>5. ASSUME NEW u \in D PROVE reported(g, u)
  <2>1. p.msg.type = "RERR" /\ [addr |-> u, seqno |-> h.rt[u].seqno] \in p.msg.dests
    BY <1>1, <1>4
  <2>2. [addr |-> u, seqno |-> h.rt[u].seqno].addr = u
    OBVIOUS
  <2> QED BY <1>3, <2>1, <2>2 DEF reported
<1> QED BY <1>3, <1>5 DEF g

\* The link to d is lost between h and g: every usable route through it is lost
\* with it, and no precursor is forgotten silently.
Broken(h, g, d) ==
  \A x \in Addr : valid(h, x) /\ h.rt[x].next = d =>
    /\ invalid(g, x)
    /\ h.rt[x].prec # {} =>
         reported(g, x) \/ ("REPAIR" \in g.rt[x].flags /\ g.rt[x].prec = h.rt[x].prec)

\* A link breaks.
LEMMA LinkBreakBroken ==
  ASSUME NEW L, NEW h, Kept(h, L), NEW d \in L, valid(h, d), h.rt[d].hcnt = 1
  PROVE  Broken(h, neighbor_link_break(h, d), d)
<1> DEFINE rep   == "REPAIR" \in h.rt[d].flags
           users == {u \in Addr \ {d} : valid(h, u) /\ h.rt[u].next = d}
           kept  == {u \in users : rep /\ h.rt[u].hcnt <= MAX_REPAIR_TTL}
           lost  == (users \ kept) \cup (IF rep THEN {} ELSE {d})
           told  == {u \in lost : h.rt[u].prec # {}}
           prec  == [u \in Addr |-> h.rt[u].prec]
           marked(u) == IF u \in kept
                        THEN [h.rt[u] EXCEPT !.flags = h.rt[u].flags \cup {"REPAIR"}]
                        ELSE h.rt[u]
           inval(u) == IF h.rt[u].state = "valid" THEN invalidated(marked(u)) ELSE marked(u)
           broken(u) == IF u \in lost THEN [inval(u) EXCEPT !.prec = {}] ELSE inval(u)
           h1 == [h EXCEPT
                    !.rt = [u \in Addr |->
                              IF u \in users \cup {d} THEN broken(u) ELSE h.rt[u]],
                    !.num_active =
                      plus(h.num_active, -Cardinality({u \in users \cup {d} : valid(h, u)}))]
           first == IF d \in told THEN d ELSE least(told)
           g     == sendRerr(h1, first, told, prec, FALSE)
<1>1. neighbor_link_break(h, d) = g
  BY DEF neighbor_link_break, valid, present
<1>2. ASSUME NEW u \in users \cup {d}
      PROVE  /\ broken(u).state = "invalid"
             /\ u \notin lost => broken(u).prec = h.rt[u].prec /\ "REPAIR" \in broken(u).flags
  <2> DEFINE e == marked(u)
  <2>1. Lasting(h.rt[u], u, L) /\ h.rt[u].state = "valid"
    BY DEF valid, Kept
  <2>2. /\ {"state", "flags", "prec"} \subseteq DOMAIN e /\ e.prec = h.rt[u].prec
        /\ u \notin lost => "REPAIR" \in e.flags
    BY <2>1 DEF Lasting
  <2> HIDE DEF e
  <2>3. /\ {"state", "flags", "prec"} \subseteq DOMAIN invalidated(e)
        /\ invalidated(e).state = "invalid" /\ invalidated(e).prec = e.prec
        /\ invalidated(e).flags = e.flags
    BY <2>2 DEF invalidated
  <2>4. broken(u) = IF u \in lost THEN [invalidated(e) EXCEPT !.prec = {}] ELSE invalidated(e)
    BY <2>1 DEF e
  <2> HIDE DEF broken, lost
  <2> QED BY <2>2, <2>3, <2>4
<1>3. /\ {"rt", "out"} \subseteq DOMAIN h1
      /\ h1.rt = [u \in Addr |-> IF u \in users \cup {d} THEN broken(u) ELSE h.rt[u]]
  BY DEF Kept
<1>4. \A x \in Addr : valid(h, x) /\ h.rt[x].next = d => x \in users \cup {d}
  OBVIOUS
<1>5. \A x \in lost : h.rt[x].prec # {} => x \in told
  OBVIOUS
<1> HIDE DEF h1, broken, users, lost, told, prec, first
<1>6. g.rt = h1.rt /\ \A u \in told : reported(g, u)
  BY <1>3, RerrTells
<1> HIDE DEF g
<1>7. ASSUME NEW x \in Addr, valid(h, x), h.rt[x].next = d
      PROVE  /\ invalid(g, x)
             /\ h.rt[x].prec # {} =>
                  reported(g, x) \/ ("REPAIR" \in g.rt[x].flags /\ g.rt[x].prec = h.rt[x].prec)
  <2>1. x \in users \cup {d} /\ g.rt[x] = broken(x)
    BY <1>3, <1>4, <1>6, <1>7
  <2>2. invalid(g, x)
    BY <1>2, <2>1 DEF invalid, present
  <2>3. CASE x \in lost
    BY <1>5, <1>6, <2>2, <2>3
  <2>4. CASE x \notin lost
    BY <1>2, <2>1, <2>2, <2>4
  <2> QED BY <2>3, <2>4
<1> QED BY <1>1, <1>7 DEF Broken

\* Before the link breaks the entries differ at most in flags and timers.
SameLinks(g, h) ==
  \A x \in Addr : /\ g.rt[x].state = h.rt[x].state /\ g.rt[x].next = h.rt[x].next
                  /\ g.rt[x].hcnt = h.rt[x].hcnt /\ g.rt[x].prec = h.rt[x].prec

LEMMA BrokenSame ==
  ASSUME NEW h0, NEW h, NEW g, NEW d, SameLinks(h, h0), Broken(h, g, d)
  PROVE  Broken(h0, g, d)
BY DEF SameLinks, Broken, valid

\* A repair that is started marks more, and forgets nothing.
LEMMA LocalRepairBroken ==
  ASSUME NEW L, NEW h0, NEW h, Kept(h, L), NEW n, Broken(h0, h, n), NEW d
  PROVE  Broken(h0, rreq_local_repair(h, d), n)
<1> DEFINE nh    == h.rt[d].next
           group == {u \in Addr : present(h, u) /\ h.rt[u].next = nh} \cup {d}
           far   == greatest({h.rt[u].hcnt : u \in group})
           s     == IF nh \in group \ {d} THEN h.rt[nh].seqno ELSE 0
           marked(u) == [h.rt[u] EXCEPT !.flags = h.rt[u].flags \cup {"REPAIR"},
                                        !.handler = "expire", !.armed = TRUE]
           h1    == [h EXCEPT
                       !.rt = [u \in Addr |-> IF u \notin group THEN h.rt[u] ELSE marked(u)],
                       !.seqno = seqno_incr(@), !.rreq_id = plus(@, 1)]
           rreq  == [type |-> "RREQ_LR", id |-> h.rreq_id, dest |-> nh, dest_seqno |-> s,
                     orig |-> h.ipaddr, orig_seqno |-> h1.seqno, hcnt |-> 0,
                     udests |-> udest_list(h, behind(d, nh, group))]
           entry == [on |-> TRUE, seqno |-> s, reqs |-> 0, g |-> TRUE,
                     ttl |-> far + LOCAL_ADD_TTL]
           h2    == aodv_socket_send(h1, Bcast, far + 1, rreq)
           list  == <<entry>> \o seeks(h, nh)
           h3    == with_seeks(h2, nh, list)
<1>1. rreq_local_repair(h, d) = IF "REPAIR" \notin h.rt[d].flags THEN h ELSE h3
  BY DEF rreq_local_repair
<1>2. /\ DOMAIN h1 = DOMAIN h /\ h1.out = h.out
      /\ h1.rt = [u \in Addr |-> IF u \notin group THEN h.rt[u] ELSE marked(u)]
  BY DEF Kept
<1>3. rreq.type = "RREQ_LR"
  OBVIOUS
<1>4. \A u \in Addr : /\ marked(u).state = h.rt[u].state /\ marked(u).prec = h.rt[u].prec
                      /\ h.rt[u].flags \subseteq marked(u).flags
  <2>1. \A u \in Addr : Lasting(h.rt[u], u, L)
    BY DEF Kept
  <2> QED BY <2>1 DEF Lasting
<1> HIDE DEF marked, group, h1, rreq, far, entry, nh, s, list
<1>5. h2.rt = h1.rt /\ h1.out \subseteq h2.out /\ DOMAIN h2 = DOMAIN h1
  BY <1>2, <1>3 DEF aodv_socket_send, sendPacket, Kept
<1> HIDE DEF h2
<1>6. h3.rt = h2.rt /\ h3.out = h2.out
  BY <1>2, <1>5 DEF with_seeks, Kept
<1> HIDE DEF h3
<1>7. \A u : reported(h, u) => reported(h3, u)
  BY <1>2, <1>5, <1>6 DEF reported
<1>8. \A u \in Addr : /\ h3.rt[u].state = h.rt[u].state /\ h3.rt[u].prec = h.rt[u].prec
                      /\ h.rt[u].flags \subseteq h3.rt[u].flags
  BY <1>2, <1>4, <1>5, <1>6
<1>9. Broken(h0, h3, n)
  BY <1>7, <1>8 DEF Broken, invalid, present
<1> QED BY <1>1, <1>9

LEMMA SameLinksTable ==
  ASSUME NEW g, NEW h, g.rt = h.rt PROVE SameLinks(g, h)
BY DEF SameLinks

LEMMA SameLinksTwice ==
  ASSUME NEW f, NEW g, NEW h, SameLinks(f, g), SameLinks(g, h) PROVE SameLinks(f, h)
BY DEF SameLinks

LEMMA MarkSameLinks ==
  ASSUME NEW L, NEW h, Kept(h, L), NEW d PROVE SameLinks(mark_repair(h, d), h)
<1> DEFINE g == mark_repair(h, d)
           e == [h.rt[d] EXCEPT !.flags = h.rt[d].flags \cup {"REPAIR"}]
<1>1. \A x \in Addr : Lasting(h.rt[x], x, L)
  BY DEF Kept
<1>2. \A x \in Addr : g.rt[x] = IF x = d THEN e ELSE h.rt[x]
  BY DEF mark_repair, Kept
<1>3. d \in Addr => /\ e.state = h.rt[d].state /\ e.next = h.rt[d].next
                    /\ e.hcnt = h.rt[d].hcnt /\ e.prec = h.rt[d].prec
  BY <1>1 DEF Lasting
<1> HIDE DEF e, g
<1>4. SameLinks(g, h)
  BY <1>2, <1>3 DEF SameLinks
<1> QED BY <1>4 DEF g

\* A packet of the interface queue is buffered, the neighbour is marked, and its
\* link breaks.
LEMMA MarkedLinkBroken ==
  ASSUME NEW L, NEW h, Kept(h, L), NEW d \in L, valid(h, d), h.rt[d].hcnt = 1,
         NEW q, q = <<>> \/ (q[1] \in Addr /\ q[2] \in Origin),
         NEW v \in Addr, NEW vo \in Origin, Room(h, v, vo)
  PROVE  LET g == neighbor_link_break(mark_repair(interfaceQueue(h, q, v, vo), d), d)
         IN  Kept(g, L) /\ Broken(h, g, d)
<1> DEFINE h1 == interfaceQueue(h, q, v, vo)
           h2 == mark_repair(h1, d)
           g  == neighbor_link_break(h2, d)
<1>1. Kept(h1, L)
  BY InterfaceQueueKept
<1>2. h1.rt = h.rt
  BY QueueAddKept DEF interfaceQueue
<1> HIDE DEF h1
<1>3. Kept(h2, L) /\ SameLinks(h2, h1)
  BY <1>1, MarkRepairKept, MarkSameLinks
<1> HIDE DEF h2
<1>4. SameLinks(h2, h)
  BY <1>2, <1>3, SameLinksTwice, SameLinksTable
<1>5. valid(h2, d) /\ h2.rt[d].hcnt = 1
  BY <1>4 DEF SameLinks, valid
<1>6. Kept(g, L) /\ Broken(h2, g, d)
  BY <1>3, <1>5, LinkBreakKept, LinkBreakBroken
<1> HIDE DEF g
<1>7. Broken(h, g, d)
  BY <1>4, <1>6, BrokenSame
<1> QED BY <1>6, <1>7 DEF g, h2, h1

\* The timer of a neighbour expires.
LEMMA RouteExpireBroken ==
  ASSUME NEW L, NEW h, Kept(h, L), NEW d \in L, valid(h, d), h.rt[d].hcnt = 1
  PROVE  Broken(h, route_expire_timeout(h, d), d)
<1> DEFINE e  == [h.rt[d] EXCEPT !.armed = FALSE]
           h1 == [h EXCEPT !.rt[d] = e]
           g  == neighbor_link_break(h1, d)
<1>1. route_expire_timeout(h, d) = g
  BY DEF route_expire_timeout
<1>2. d \in Addr /\ h.rt[d].state = "valid" /\ Lasting(h.rt[d], d, L)
  BY DEF valid, Kept
<1>3. /\ e.state = "valid" /\ e.next = h.rt[d].next /\ e.hcnt = 1
      /\ e.prec = h.rt[d].prec /\ Lasting(e, d, L)
  BY <1>2 DEF Lasting
<1> HIDE DEF e
<1>4. \A x \in Addr : h1.rt[x] = IF x = d THEN e ELSE h.rt[x]
  BY DEF Kept
<1>5. Kept(h1, L)
  BY <1>3, KeptEntry
<1> HIDE DEF h1
<1>6. SameLinks(h1, h)
  BY <1>2, <1>3, <1>4 DEF SameLinks
<1>7. valid(h1, d) /\ h1.rt[d].hcnt = 1
  BY <1>2, <1>3, <1>4 DEF valid
<1>8. Broken(h1, g, d)
  BY <1>5, <1>7, LinkBreakBroken
<1> HIDE DEF g
<1> QED BY <1>1, <1>6, <1>8, BrokenSame

\* A neighbour is not heard any more.
LEMMA HelloTimeoutBroken ==
  ASSUME ~unidir_hack, NEW L, NEW h, Kept(h, L), NEW d \in L, valid(h, d), h.rt[d].hcnt = 1,
         NEW q, q = <<>> \/ (q[1] \in Addr /\ q[2] \in Origin),
         NEW v \in Addr, NEW vo \in Origin, Room(h, v, vo)
  PROVE  Broken(h, hello_timeout_lr(h, d, q, v, vo), d)
<1> DEFINE h1 == [h EXCEPT !.rt[d].hello = FALSE]
           e  == [h.rt[d] EXCEPT !.hello = FALSE]
           r1 == neighbor_link_break(h1, d)
           r2 == neighbor_link_break(mark_repair(interfaceQueue(h1, q, v, vo), d), d)
<1>1. d \in Addr /\ "UNIDIR" \notin h.rt[d].flags /\ Lasting(h.rt[d], d, L)
  BY DEF valid, Kept, Lasting
<1>2. hello_timeout_lr(h, d, q, v, vo) \in {r1, r2}
  BY <1>1 DEF hello_timeout_lr
<1>3. Kept(h1, L) /\ Room(h1, v, vo)
  <2>1. Room(h1, v, vo)
    BY DEF Kept, Room
  <2> HIDE DEF h1
  <2>2. Kept(h1, L)
    BY KeptField DEF h1
  <2> QED BY <2>1, <2>2
<1>4. \A x \in Addr : h1.rt[x] = IF x = d THEN e ELSE h.rt[x]
  BY DEF Kept
<1>5. /\ e.state = h.rt[d].state /\ e.next = h.rt[d].next
      /\ e.hcnt = h.rt[d].hcnt /\ e.prec = h.rt[d].prec
  BY <1>1 DEF Lasting
<1> HIDE DEF h1, e
<1>6. SameLinks(h1, h)
  BY <1>4, <1>5 DEF SameLinks
<1>7. valid(h1, d) /\ h1.rt[d].hcnt = 1
  BY <1>1, <1>6 DEF SameLinks, valid
<1>8. Broken(h1, r1, d) /\ Broken(h1, r2, d)
  BY <1>3, <1>7, LinkBreakBroken, MarkedLinkBroken
<1> HIDE DEF r1, r2
<1> QED BY <1>2, <1>6, <1>8, BrokenSame

\* The link layer gives a packet back.
LEMMA PacketFailedBroken ==
  ASSUME NEW L, NEW h, Kept(h, L), NEW dest \in Addr, NEW o \in Origin, NEW nh \in L,
         valid(h, nh), h.rt[nh].hcnt = 1,
         NEW q, q = <<>> \/ (q[1] \in Addr /\ q[2] \in Origin),
         NEW v \in Addr, NEW vo \in Origin, NEW w \in Addr, NEW wo \in Origin,
         Room(h, v, vo), Room(packet_queue_add(h, dest, o, v, vo), w, wo)
  PROVE  LET g == packetFailed_lr(h, dest, o, nh, q, v, vo, w, wo)
         IN  g.rt = h.rt \/ Broken(h, g, nh)
<1> DEFINE h1 == packet_queue_add(h, dest, o, v, vo)
           b  == neighbor_link_break(mark_repair(interfaceQueue(h1, q, w, wo), nh), nh)
           r1 == neighbor_link_break(h, nh)
           r2 == rreq_local_repair(b, dest)
<1>1. packetFailed_lr(h, dest, o, nh, q, v, vo, w, wo) \in {h1, h, r1, r2}
  BY DEF packetFailed_lr
<1>2. Kept(h1, L) /\ h1.rt = h.rt
  BY QueueAddKept
<1>3. SameLinks(h1, h)
  BY <1>2, SameLinksTable
<1>4. valid(h1, nh) /\ h1.rt[nh].hcnt = 1
  BY <1>2 DEF valid
<1>5. Room(h1, w, wo)
  OBVIOUS
<1> HIDE DEF h1
<1>6. Kept(b, L) /\ Broken(h1, b, nh)
  BY <1>2, <1>4, <1>5, MarkedLinkBroken
<1> HIDE DEF b
<1>7. Broken(h1, r2, nh)
  BY <1>6, LocalRepairBroken
<1>8. Broken(h, r1, nh)
  BY LinkBreakBroken
<1> HIDE DEF r1, r2
<1> QED BY <1>1, <1>2, <1>3, <1>7, <1>8, BrokenSame

---------------------------------------------------------------------------
(* The node *)

\* The table is empty, and the history is handled from there.
LEMMA FreshKept ==
  ASSUME NEW L
  PROVE  LET h == RepairHost(InitHost(Self, FALSE)) IN Kept(h, L) /\ h.out = {}
<1> DEFINE h0 == InitHost(Self, FALSE)
           h  == RepairHost(h0)
<1>1. /\ h0.rt = [d \in Addr |-> NoEntry] /\ h0.pqlen = 0
      /\ h0.ipaddr = Self /\ h0.out = {}
      /\ h0.queue = [d \in Addr |-> [o \in Origin |-> 0]]
      /\ {"rt", "queue", "pqlen", "ipaddr", "out"} \subseteq DOMAIN h0
  BY DEF InitHost
<1>2. /\ h.rt = h0.rt /\ h.queue = h0.queue /\ h.pqlen = h0.pqlen
      /\ h.ipaddr = h0.ipaddr /\ h.out = h0.out /\ DOMAIN h0 \subseteq DOMAIN h
  <2> HIDE DEF h0
  <2> QED BY <1>1 DEF RepairHost
<1>3. h0.queue \in Queue /\ Counted(h0.queue, 0)
  <2> HIDE DEF h0
  <2>1. h0.queue \in Queue
    BY <1>1 DEF Queue
  <2>2. \A d \in Addr, o \in Origin : h0.queue[d][o] = 0
    BY <1>1
  <2>3. Queued(h0.queue) = {}
    BY <2>2, QueuedElements
  <2> QED BY <2>1, <2>3, FS_EmptySet, LimitAssumption DEF Counted
<1> HIDE DEF h0, h
<1>4. Kept(h, L)
  BY <1>1, <1>2, <1>3, NoEntryLasting DEF Kept
<1> QED BY <1>1, <1>2, <1>4 DEF h, h0

LEMMA RepairInitKept == RepairInit => Kept(host, Addr) /\ host.out = {}
<1> SUFFICES ASSUME RepairInit PROVE Kept(host, Addr) /\ host.out = {}
  OBVIOUS
<1> DEFINE h0 == RepairHost(InitHost(Self, FALSE))
           w  == [kind |-> "history"]
           n  == Len(History)
<1>1. host = HistoryFold(h0, History)
  BY DEF RepairInit, HistoryFold
<1>2. n \in Nat /\ DOMAIN History = 1 .. n /\ \A i \in 1 .. n : History[i] \in ARRIVAL
  BY RepairAssumption
<1>3. IsFiniteSet(1 .. n) /\ 1 .. n \subseteq Nat
  BY <1>2, FS_Interval
<1> HIDE DEF n
<1>4. PICK f : IsWalk(w, h0, History, f) /\ HistoryFold(h0, History) = f[DOMAIN History]
  BY <1>2, <1>3, HistoryWalk
<1>5. \A x, a : Visit(w, x, a) = [Handled(x, a, Bcast) EXCEPT !.out = {}]
  BY DEF Visit
<1>6. \A x : Carries(w, Addr, x) <=> Kept(x, Addr) /\ x.out = {}
  BY DEF Carries
<1>7. Kept(h0, Addr) /\ h0.out = {}
  BY FreshKept
<1> HIDE DEF w, h0
<1>8. ASSUME NEW i \in 1 .. n, NEW x, Carries(w, Addr, x)
      PROVE  Carries(w, Addr, Visit(w, x, History[i]))
  <2> DEFINE g == [Handled(x, History[i], Bcast) EXCEPT !.out = {}]
  <2>1. Kept(g, Addr)
    <3>1. Unread(Addr, History[i])
      BY <1>2 DEF Unread, ARRIVAL
    <3> QED BY <1>2, <1>6, <1>8, <3>1, HandledKept DEF KeptIdle
  <2>2. g.out = {}
    BY <2>1 DEF Kept
  <2> HIDE DEF g
  <2>3. Visit(w, x, History[i]) = g
    BY <1>5 DEF g
  <2> QED BY <1>6, <2>1, <2>2, <2>3
<1>9. Carries(w, Addr, f[DOMAIN History])
  BY <1>2, <1>4, <1>6, <1>7, <1>8, WalkKept
<1> QED BY <1>1, <1>4, <1>6, <1>9

LEMMA RepairInitInv == RepairInit => RepairInv
BY RepairInitKept, OutKept DEF RepairInv, idle

\* A packet of the interface queue has a destination and an origin.
LEMMA PendingPacket ==
  ASSUME NEW nh, NEW q \in Pending(nh)
  PROVE  q = <<>> \/ (q[1] \in Addr /\ q[2] \in Origin)
<1> SUFFICES ASSUME q # <<>> PROVE q[1] \in Addr /\ q[2] \in Origin
  OBVIOUS
<1>1. PICK t \in Traffic : q = <<t[2], origin(t[1])>>
  BY DEF Pending
<1>2. t[2] \in Addr /\ origin(t[1]) \in Origin
  BY RepairAssumption DEF origin, Origin
<1> QED BY <1>1, <1>2

\* The events in which the link to d may be lost.
Breaks(d) ==
  \/ RouteExpire(d)
  \/ \E q \in Pending(d), v \in Addr, vo \in Origin : RepairHelloTimeout(d, q, v, vo)
  \/ \E t \in Traffic, q \in Pending(d), v, w \in Addr, vo, wo \in Origin :
       RepairFailed(t[1], t[2], d, q, v, vo, w, wo)

\* Every step keeps the timers and the queue right and loses no other neighbour, and
\* only a message handled passes replies on.
LEMMA RepairStepSends ==
  ASSUME NEW L, Kept(idle, L), \A d \in Addr : present(host, d) \/ d \in L,
         \A a \in Arrivals : Unread(L, a), RepairNext
  PROVE  \/ Kept(host', L)
         \/ \E d \in Addr : Breaks(d) /\ Kept(host', L \cup {d})
         \/ host' = host
         \/ \E a \in Arrivals, junk \in Junk :
              host' = Handled(idle, a, junk) /\ KeptIdle(host', L)
<1>2. Kept(idle, L) /\ idle.rt = host.rt
  BY DEF idle, Kept
<1>3. idle.queue = host.queue /\ idle.pqlen = host.pqlen
  BY <1>2 DEF idle, Kept
<1>4. \A v, vo : Oldest(v, vo) => Room(idle, v, vo)
  BY <1>3 DEF Oldest, Room
<1>5. ASSUME NEW a \in Arrivals, NEW junk \in Junk, RecvControl(a, junk)
      PROVE  \/ Kept(host', L)
             \/ host' = Handled(idle, a, junk) /\ KeptIdle(host', L)
  <2>1. a \in ARRIVAL /\ a.src \in Addr
    BY RepairAssumption DEF ARRIVAL
  <2>2. Kept(settled(neighbor_add(idle, a.src)), L)
    BY <1>2, <2>1, NeighborAddKept, SettledKept
  <2>3. KeptIdle(Handled(idle, a, junk), L)
    BY <1>2, <2>1, HandledKept
  <2> QED BY <1>5, <2>2, <2>3 DEF RecvControl
<1>6. ASSUME NEW src \in HelloFrom, NEW s \in HelloSeqno, RepairHello(src, s)
      PROVE  Kept(host', L)
  <2>1. src \in Addr
    BY RepairAssumption
  <2>2. present(idle, src) \/ src \in L
    BY <1>2, <2>1 DEF present
  <2>3. Kept(hello_process(idle, src, s, channel0, TRUE, TRUE), L)
    BY <1>2, <2>1, <2>2, HelloKept
  <2> QED BY <1>6, <2>3, SettledKept DEF RepairHello
<1>7. ASSUME NEW t \in Traffic, NEW v \in Addr, NEW vo \in Origin,
             RepairData(t[1], t[2], v, vo)
      PROVE  Kept(host', L)
  <2>1. t[2] \in Addr
    BY RepairAssumption
  <2>2. Room(idle, v, vo)
    BY <1>4, <1>7 DEF RepairData
  <2> QED BY <1>2, <1>7, <2>1, <2>2, ProcessPacketLrKept DEF RepairData
<1>8. ASSUME NEW nh, NEW q \in Pending(nh)
      PROVE  q = <<>> \/ (q[1] \in Addr /\ q[2] \in Origin)
  BY PendingPacket
<1>16. \A d : Kept(idle, L \cup {d})
  BY <1>2, KeptMore
<1>9. ASSUME NEW t \in Traffic, NEW nh \in Neighbor, NEW q \in Pending(nh),
             NEW v \in Addr, NEW w \in Addr, NEW vo \in Origin, NEW wo \in Origin,
             RepairFailed(t[1], t[2], nh, q, v, vo, w, wo)
      PROVE  nh \in Addr /\ Breaks(nh) /\ Kept(host', L \cup {nh})
  <2>1. t[2] \in Addr /\ origin(t[1]) \in Origin
    BY RepairAssumption DEF origin, Origin
  <2>2. Room(idle, v, vo)
    BY <1>4, <1>9 DEF RepairFailed
  <2>3. Room(packet_queue_add(idle, t[2], origin(t[1]), v, vo), w, wo)
    BY <1>9 DEF RepairFailed, OldestOf, Room
  <2>4. host' = packetFailed_lr(idle, t[2], origin(t[1]), nh, q, v, vo, w, wo)
    BY <1>9 DEF RepairFailed
  <2>5. Breaks(nh) /\ nh \in Addr
    BY <1>9 DEF Breaks, Neighbor
  <2> QED BY <1>8, <1>16, <2>1, <2>2, <2>3, <2>4, <2>5, PacketFailedKept
<1>10. ASSUME NEW d \in Addr, NEW q \in Pending(d), NEW v \in Addr, NEW vo \in Origin,
              RepairHelloTimeout(d, q, v, vo)
       PROVE  Breaks(d) /\ Kept(host', L \cup {d})
  <2>1. Room(idle, v, vo)
    BY <1>4, <1>10 DEF RepairHelloTimeout
  <2>2. host' = hello_timeout_lr(idle, d, q, v, vo)
    BY <1>10 DEF RepairHelloTimeout
  <2>3. Breaks(d)
    BY <1>10 DEF Breaks
  <2> QED BY <1>8, <1>16, <2>1, <2>2, <2>3, HelloTimeoutKept
<1>11. ASSUME NEW d \in Addr, NEW i, RepairSeekTimeout(d, i) PROVE Kept(host', L)
  BY <1>2, <1>11, SeekTimeoutKept DEF RepairSeekTimeout
<1>12. ASSUME NEW d \in Addr, RepairTimeout(d) PROVE Kept(host', L)
  BY <1>2, <1>12, RepairTimeoutKept DEF RepairTimeout
<1>13. ASSUME NEW d \in Addr, RouteExpire(d) PROVE Breaks(d) /\ Kept(host', L \cup {d})
  <2>1. idle.rt[d].handler = "expire"
    BY <1>2, <1>13 DEF RouteExpire
  <2>2. host' = route_expire_timeout(idle, d)
    BY <1>13 DEF RouteExpire
  <2>3. Breaks(d)
    BY <1>13 DEF Breaks
  <2> QED BY <1>16, <2>1, <2>2, <2>3, RouteExpireKept
<1>14. ASSUME NEW d \in Addr, RouteDelete(d) PROVE Kept(host', L)
  BY <1>2, <1>14, DeleteKept DEF RouteDelete, route_delete_timeout
<1>15. ASSUME NEW k, RerrRecordTimeout(k) PROVE host' = host
  BY <1>15 DEF RerrRecordTimeout
<1> QED BY <1>5, <1>6, <1>7, <1>9, <1>10, <1>11, <1>12, <1>13, <1>14, <1>15 DEF RepairNext

\* Every address may be lost: the same without regard to neighbours.
LEMMA RepairStepHandles ==
  ASSUME RepairInv, RepairNext
  PROVE  /\ RepairInv'
         /\ \/ Kept(host', Addr) \/ host' = host
            \/ \E a \in Arrivals, junk \in Junk : host' = Handled(idle, a, junk)
<1>1. \A a \in Arrivals : Unread(Addr, a)
  BY RepairAssumption DEF Unread, ARRIVAL
<1>2. \/ Kept(host', Addr)
      \/ \E d \in Addr : Breaks(d) /\ Kept(host', Addr \cup {d})
      \/ host' = host
      \/ \E a \in Arrivals, junk \in Junk :
           host' = Handled(idle, a, junk) /\ KeptIdle(host', Addr)
  BY <1>1, RepairStepSends DEF RepairInv
<1>3. \A d \in Addr : Addr \cup {d} = Addr
  OBVIOUS
<1>4. \/ Kept(host', Addr)
      \/ host' = host
      \/ \E a \in Arrivals, junk \in Junk :
           host' = Handled(idle, a, junk) /\ KeptIdle(host', Addr)
  BY <1>2, <1>3
<1>5. KeptIdle(host', Addr)
  BY <1>4, OutKept DEF KeptIdle, RepairInv, idle
<1> QED BY <1>4, <1>5 DEF RepairInv, KeptIdle, idle

LEMMA RepairStep == RepairInv /\ RepairNext => RepairInv'
BY RepairStepHandles

\* In every reachable state, whatever was handled before, arrives or is lost, the
\* timer of every entry fits its state and the queue is counted right.
THEOREM RepairInvariance == RepairSpec => []RepairInv
<1>1. ASSUME RepairInv, UNCHANGED vars PROVE RepairInv'
  BY <1>1 DEF RepairInv, idle, vars
<1> QED BY <1>1, RepairInitInv, RepairStep, PTL DEF RepairSpec

\* A route that is lost for good goes away: a repair that fails, a link that
\* breaks under a repair and a mark that is taken off all start the deletion timer
\* (rt_table_invalidate, local_repair_timeout, neighbor_link_break).
THEOREM LostGo == RepairSpec => []LostRoutesWillGo
<1>1. RepairInv => LostRoutesWillGo
  BY DEF RepairInv, idle, Kept, Lasting, LostRoutesWillGo, invalid, present
<1> QED BY <1>1, RepairInvariance, PTL

\* The repairs buffer packets of other nodes and of the interface queue too, and
\* the packet queue still counts them right and keeps its limit.
THEOREM RepairQueueBounded == RepairSpec => []QueueWithinLimit
<1>1. RepairInv => QueueWithinLimit
  BY DEF RepairInv, idle, Kept, QueueWithinLimit, Counted
<1> QED BY <1>1, RepairInvariance, PTL

\* In every reachable state the replies that the node has just passed on find
\* their routes.
LEMMA RelayInvariance == RepairSpec => [](RepairInv /\ Relayed(host))
<1> DEFINE Inv == RepairInv /\ Relayed(host)
<1>1. RepairInit => Inv
  <2>1. RepairInit => Relayed(host)
    BY RepairInitKept, KeptRelayed
  <2> QED BY <2>1, RepairInitInv
<1>2. Inv /\ [RepairNext]_vars => Inv'
  <2>1. ASSUME Inv, RepairNext PROVE Inv'
    <3>1. /\ RepairInv'
          /\ \/ Kept(host', Addr) \/ host' = host
             \/ \E a \in Arrivals, junk \in Junk : host' = Handled(idle, a, junk)
      BY <2>1, RepairStepHandles
    <3>2. Kept(idle, Addr)
      BY <2>1 DEF RepairInv
    <3>3. Relayed(host')
      <4>1. CASE Kept(host', Addr)
        BY <4>1, KeptRelayed
      <4>2. CASE \E a \in Arrivals, junk \in Junk : host' = Handled(idle, a, junk)
        BY <3>2, <4>2, HandledRelayed
      <4>3. CASE host' = host
        BY <2>1, <4>3
      <4> QED BY <3>1, <4>1, <4>2, <4>3
    <3>4. Relayed(host)'
      BY <3>3 DEF Relayed, valid
    <3> QED BY <3>1, <3>4
  <2>2. ASSUME Inv, UNCHANGED vars PROVE Inv'
    BY <2>2 DEF RepairInv, idle, vars, Relayed, valid
  <2> QED BY <2>1, <2>2
<1> QED BY <1>1, <1>2, PTL DEF RepairSpec

\* A relay passes the reply to a repair on only with the routes it promises, to
\* any number of destinations: what an update through the sender breaks is mended
\* by a later one, and only the sender itself, named as a longer route, takes those
\* with it that the message names before it (rrep_process_lr, rt_table_update).
THEOREM RelayDelivers == RepairSpec => RelayCanDeliver
<1>1. Relayed(host)' =>
        \A p \in host'.out : p.msg.type = "RREP_LR" /\ p.msg.dest # Self =>
          LET n     == host'.rt[p.msg.dest].next
              named == p.msg.udests
              kept  == {named[j].addr : j \in {k \in DOMAIN named :
                          \A i \in DOMAIN named : named[i].addr = n => k >= i}} \ {Self}
          IN  \A d \in kept \cup {p.msg.dest} : valid(host', d) /\ host'.rt[d].next = n
  BY DEF Relayed, Kin, valid
<1> QED BY <1>1, RelayInvariance, PTL DEF RelayCanDeliver

\* The reply to a repair mends everything that waits for it, whatever the table
\* and whatever links break on the way, as long as no link is suspected to be
\* unidirectional: the route to the sender itself would then stay as it was
\* (rrep_process_lr, neighbor_add).
THEOREM ReplyMends == ~unidir_hack /\ RepairSpec => ReplyMendsAll
<1> DEFINE Mends ==
      \A a \in Arrivals :
       LET waiting == {d \in Addr : /\ invalid(host, d) /\ "REPAIR" \in host.rt[d].flags
                                    /\ d = a.msg.dest \/ host.rt[d].next = a.msg.dest}
       IN  /\ a.msg.type = "RREP_LR" /\ a.msg.orig = Self /\ a.msg.dest # Self
           /\ waiting # {}
           /\ \E junk \in Junk : RecvControl(a, junk)
           => \A d \in waiting : /\ valid(host', d) /\ host'.rt[d].next = a.src
                                  /\ "REPAIR" \notin host'.rt[d].flags
<1> SUFFICES ASSUME ~unidir_hack PROVE RepairSpec => ReplyMendsAll
  OBVIOUS
<1>1. ASSUME RepairInv PROVE Mends
  <2> SUFFICES ASSUME NEW a \in Arrivals, a.msg.type = "RREP_LR", a.msg.orig = Self,
                      a.msg.dest # Self, NEW junk \in Junk, RecvControl(a, junk),
                      NEW d \in Addr, invalid(host, d), "REPAIR" \in host.rt[d].flags,
                      d = a.msg.dest \/ host.rt[d].next = a.msg.dest
               PROVE  Whole(host', d, a.src)
    BY DEF Whole
  <2>1. host' = Handled(idle, a, junk)
    BY DEF RecvControl, IsRerr
  <2>2. Kept(idle, Addr) /\ idle.rt = host.rt
    BY <1>1 DEF RepairInv, idle, Kept
  <2>3. Waits(idle, d, a.msg)
    BY <2>2 DEF Waits, invalid
  <2> QED BY <1>1, <2>1, <2>2, <2>3, HandledMends
<1>2. RepairSpec => []RepairInv
  BY RepairInvariance
<1>3. RepairInv => Mends
  BY <1>1
<1> QED BY <1>2, <1>3, PTL DEF ReplyMendsAll

\* No sender lists itself in a RERR; but of one with several destinations only the
\* first is read and <0, 0> for the others, see SenderUnread.
ErrorsOfOthers ==
  \A a \in Arrivals : a.msg.type = "RERR" => \A u \in rerr_read(a.msg) : u.addr # a.src

\* A neighbour that is not in L is not lost.
LEMMA KeptNeighbor ==
  ASSUME ~unidir_hack, NEW L, NEW h, Kept(h, L) \/ KeptIdle(h, L),
         NEW n \in Addr, invalid(h, n), neighbor(h, n)
  PROVE  n \in L
<1>1. CASE Kept(h, L)
  BY <1>1 DEF Kept, Lasting, invalid, present, neighbor
<1>2. CASE KeptIdle(h, L)
  <2> DEFINE g == [h EXCEPT !.out = {}]
  <2>1. Kept(g, L)
    BY <1>2 DEF KeptIdle
  <2>2. "rt" \in DOMAIN h
    BY <2>1 DEF Kept
  <2>3. g.rt = h.rt
    BY <2>2
  <2> HIDE DEF g
  <2> QED BY <2>1, <2>3 DEF Kept, Lasting, invalid, present, neighbor
<1> QED BY <1>1, <1>2

\* Whatever loses the link to a neighbour loses it for every route.
LEMMA StepBroken ==
  ASSUME ~unidir_hack, RepairInv, NEW n \in Addr, valid(host, n), neighbor(host, n),
         invalid(host', n), Breaks(n)
  PROVE  Broken(host, host', n)
<1>1. Kept(idle, Addr) /\ idle.rt = host.rt
  BY DEF RepairInv, idle, Kept
<1>2. valid(idle, n) /\ idle.rt[n].hcnt = 1
  BY <1>1 DEF valid, neighbor
<1>3. \A v, vo : Oldest(v, vo) => Room(idle, v, vo)
  <2>1. idle.queue = host.queue /\ idle.pqlen = host.pqlen
    BY <1>1 DEF idle, Kept
  <2> QED BY <2>1 DEF Oldest, Room
<1>4. ASSUME NEW q \in Pending(n)
      PROVE  q = <<>> \/ (q[1] \in Addr /\ q[2] \in Origin)
  BY PendingPacket
<1>5. ASSUME RouteExpire(n) PROVE Broken(idle, host', n)
  <2>1. host' = route_expire_timeout(idle, n)
    BY <1>5 DEF RouteExpire
  <2> QED BY <1>1, <1>2, <2>1, RouteExpireBroken
<1>6. ASSUME NEW q \in Pending(n), NEW v \in Addr, NEW vo \in Origin,
             RepairHelloTimeout(n, q, v, vo)
      PROVE  Broken(idle, host', n)
  <2>1. Room(idle, v, vo)
    BY <1>3, <1>6 DEF RepairHelloTimeout
  <2>2. host' = hello_timeout_lr(idle, n, q, v, vo)
    BY <1>6 DEF RepairHelloTimeout
  <2> QED BY <1>1, <1>2, <1>4, <2>1, <2>2, HelloTimeoutBroken
<1>7. ASSUME NEW t \in Traffic, NEW q \in Pending(n), NEW v \in Addr, NEW w \in Addr,
             NEW vo \in Origin, NEW wo \in Origin,
             RepairFailed(t[1], t[2], n, q, v, vo, w, wo)
      PROVE  Broken(idle, host', n)
  <2>1. t[2] \in Addr /\ origin(t[1]) \in Origin
    BY RepairAssumption DEF origin, Origin
  <2>2. Room(idle, v, vo)
    BY <1>3, <1>7 DEF RepairFailed
  <2>3. Room(packet_queue_add(idle, t[2], origin(t[1]), v, vo), w, wo)
    BY <1>7 DEF RepairFailed, OldestOf, Room
  <2>4. host' = packetFailed_lr(idle, t[2], origin(t[1]), n, q, v, vo, w, wo)
    BY <1>7 DEF RepairFailed
  <2>5. host'.rt = idle.rt \/ Broken(idle, host', n)
    BY <1>1, <1>2, <1>4, <2>1, <2>2, <2>3, <2>4, PacketFailedBroken
  <2>6. host'.rt # idle.rt
    BY <1>2 DEF valid, invalid
  <2> QED BY <2>5, <2>6
<1>8. Broken(idle, host', n)
  BY <1>5, <1>6, <1>7 DEF Breaks
<1> QED BY <1>1, <1>8 DEF Broken, valid

\* When the link to a neighbour breaks under local repair, every route through it
\* is lost in the same event, and one with precursors is reported or kept for
\* repair with them; no message takes a neighbour's entry away, provided that no
\* neighbour is suspected to be unidirectional and none reads itself in a RERR
\* (neighbor_link_break, hello_timeout, packetFailed).
THEOREM LinkBreaksRepaired ==
  ASSUME ~unidir_hack, ErrorsOfOthers PROVE RepairSpec => LinkBreakReportedOrKept
<1> DEFINE Lost(n) == /\ valid(host, n) /\ neighbor(host, n)
                      /\ invalid(host', n) /\ neighbor(host', n)
           Step == \A n \in Addr :
                     Lost(n) =>
                     \A d \in {x \in Addr : valid(host, x) /\ host.rt[x].next = n} :
                       /\ invalid(host', d)
                       /\ host.rt[d].prec # {} =>
                            \/ reported(host', d)
                            \/ "REPAIR" \in host'.rt[d].flags /\ host'.rt[d].prec = host.rt[d].prec
<1>1. ASSUME RepairInv, [RepairNext]_vars PROVE Step
  <2> SUFFICES ASSUME NEW n \in Addr, valid(host, n), neighbor(host, n),
                      invalid(host', n), neighbor(host', n)
               PROVE  Broken(host, host', n)
    BY DEF Broken
  <2> DEFINE L == {d \in Addr : ~valid(host, d)}
  <2>1. Kept(idle, L)
    <3>1. Kept(idle, Addr) /\ idle.rt = host.rt
      BY <1>1 DEF RepairInv, idle, Kept
    <3>2. \A d \in Addr : idle.rt[d].state = "invalid" => d \in L
      BY <3>1 DEF valid
    <3> HIDE DEF L
    <3> QED BY <3>1, <3>2 DEF Kept, Lasting
  <2>2. \A d \in Addr : present(host, d) \/ d \in L
    BY DEF present, valid
  <2>3. \A a \in Arrivals : Unread(L, a)
    BY DEF ErrorsOfOthers, Unread, RERR
  <2>4. n \notin L /\ host' # host
    BY DEF valid, invalid
  <2>5. RepairNext
    BY <1>1, <2>4 DEF vars
  <2> HIDE DEF L
  <2>6. \/ Kept(host', L) \/ KeptIdle(host', L)
        \/ \E d \in Addr : Breaks(d) /\ Kept(host', L \cup {d})
    BY <2>1, <2>2, <2>3, <2>4, <2>5, RepairStepSends
  <2>7. PICK d \in Addr : Breaks(d) /\ Kept(host', L \cup {d})
    BY <2>4, <2>6, KeptNeighbor
  <2>8. n = d
    BY <2>4, <2>7, KeptNeighbor
  <2> QED BY <1>1, <2>7, <2>8, StepBroken
<1>2. RepairInv /\ [RepairNext]_vars => [Step]_vars
  BY <1>1
<1> QED BY <1>2, RepairInvariance, PTL DEF RepairSpec, LinkBreakReportedOrKept
=============================================================================
