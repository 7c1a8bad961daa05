---------------------------- MODULE HelloStats ----------------------------
(* The statistics that HELLO messages and their acknowledgements keep about   *)
(* every neighbour and channel, and the link cost computed from them:         *)
(* hello_send, update_sta_info and update_neighbor_info, the head of          *)
(* hello_process, and the HELLO part of rrep_ack_process.                     *)
EXTENDS Integers, SequencesExt

CONSTANTS
  Hosts,            \* addresses; ns-2 numbers its nodes from 0
  Reach,            \* the pairs <<from, to>> that hear each other's broadcasts
  Channels,         \* 0 .. nIfaces - 1
  MAX_SEQUENCE_LEN, \* length of the rings (10 in the code)
  MAX_NEIGHBORS,    \* length of this_host.neighbors (20 in the code)
  BYTE,             \* 256: range of the u_int8_t fields of a RREP_ack
  Idle,             \* how many MACs may be found with an idle receiver
  SNRs,             \* signal qualities the MACs report, at most 3
  MaxHellos,        \* HELLOs each host sends (bound)
  MaxInFlight,      \* frames before a HELLO on its links (bound)
  MaxBehind,        \* frames on the way back when a HELLO is sent (bound)
  MaxLosses,        \* frames lost (bound)
  MaxTimeouts       \* hello timers that stop (bound)

ASSUME HelloStatsAssumption ==
  /\ Hosts \subseteq Nat /\ IsFiniteSet(Hosts) /\ Reach \subseteq Hosts \X Hosts
  /\ MAX_SEQUENCE_LEN \in Nat \ {0, 1, 2} /\ BYTE \in Nat \ {0}
  /\ MAX_NEIGHBORS \in Nat /\ Cardinality(Hosts) < MAX_NEIGHBORS
  /\ Idle \subseteq 0 .. Cardinality(Channels) /\ SNRs \subseteq 0 .. 3
  /\ MaxLosses \in Nat /\ MaxTimeouts \in Nat /\ MaxHellos \in [Hosts -> Nat]

VARIABLES
  this_host,  \* struct host_info of every host, with the running hello timers
  wire,       \* frames in flight, in order, for each sender, receiver, channel
  acked,      \* history: numbers of the HELLOs a peer is known to have received
  received,   \* history: HELLOs received, for each receiver, sender and channel
  was_heard,  \* history: running hello timers at the last two HELLOs of a host
  losses,     \* frames lost so far
  timeouts    \* hello timers stopped so far

history == <<acked, received, was_heard>>
vars == <<this_host, wire, history, losses, timeouts>>

Ring == 0 .. MAX_SEQUENCE_LEN - 1
slot(k) == k % MAX_SEQUENCE_LEN
Links == Reach \X Channels
back(l) == <<<<l[1][2], l[1][1]>>, l[2]>>

(* ---- the host's record ---------------------------------------------------- *)

neighbor_info ==
  [ipaddr |-> 0, isValid |-> FALSE, remote_sent |-> 0,
   self_received |-> [c \in Channels |-> 0],
   remote_received |-> [c \in Channels |-> 0],
   hello_sequence |-> [c \in Channels |-> [k \in Ring |-> 0]],
   host_stability |-> [k \in Ring |-> 0],
   channel_cost |-> [c \in Channels |-> <<>>]]

host_info ==
  [hello_head |-> 0, hello_tail |-> 0, neighbor_num |-> 0,
   neighbors |-> [i \in 0 .. MAX_NEIGHBORS - 1 |-> neighbor_info],
   stability |-> [neighbor_num |-> 0, neighbor_change |-> 0, isStable |-> 0],
   stability_sequence |-> [k \in Ring |-> 0],
   hello_timers |-> {}]

Init ==
  /\ this_host = [h \in Hosts |-> host_info]
  /\ wire = [l \in Links |-> <<>>]
  /\ acked = [l \in Links |-> {}]
  /\ received = [l \in Links |-> 0]
  /\ was_heard = [h \in Hosts |-> <<{}, {}>>]
  /\ losses = 0 /\ timeouts = 0

\* The entries in use, and the first of them whose address is in A; the entry
\* after the last one when there is none.
entries(H) == 0 .. H.neighbor_num - 1
index(H, A) ==
  LET found == {i \in entries(H) : H.neighbors[i].ipaddr \in A}
  IN  IF found = {} THEN H.neighbor_num ELSE Min(found)

(* ---- hello_send ----------------------------------------------------------- *)

ring_full(H) == slot(H.hello_head) = slot(H.hello_tail + 1)

\* The terms of the sum over head .. tail - 1 that lie within the arrays, and the
\* number of those that are read beyond their end.
stable_terms(H, i) ==
  Cardinality({k \in H.hello_head .. H.hello_tail - 1 :
                 /\ k \in Ring
                 /\ H.stability_sequence[k] = 1
                 /\ H.neighbors[i].host_stability[k] = 1})
stable_beyond(H) ==
  Cardinality((H.hello_head .. H.hello_tail - 1) \ Ring)

\* What the cost of a link is computed from: the delivery rates and, once the
\* ring is full, the last three HELLOs and the stable count.
channel_cost(H, i, c, beyond) ==
  LET N == H.neighbors[i]
      rates == [positive |-> <<N.remote_received[c], H.hello_tail>>,
                negative |-> <<N.self_received[c], N.remote_sent>>]
  IN  IF ring_full(H)
      THEN <<rates,
             [k \in 0 .. 2 |-> N.hello_sequence[c][slot(H.hello_tail - k)]],
             stable_terms(H, i) + beyond>>
      ELSE <<rates>>

\* The first part: the ring of the host's own stability, then the costs.
update_costs(H, beyond) ==
  LET S == [H EXCEPT !.stability_sequence[slot(H.hello_tail)] = H.stability.isStable]
  IN  [S EXCEPT !.neighbors =
         [i \in DOMAIN @ |->
            IF i \in entries(S)
            THEN [@[i] EXCEPT !.channel_cost =
                    [c \in Channels |-> channel_cost(S, i, c, beyond[<<i, c>>])]]
            ELSE @[i]]]

\* The window of HELLOs moves on, and the new one is not acknowledged yet.
unacknowledged(N, k) ==
  [N EXCEPT !.hello_sequence = [c \in Channels |-> [@[c] EXCEPT ![k] = 0]]]
advance(H) ==
  LET tail == H.hello_tail + 1
  IN  [H EXCEPT !.hello_head = IF ring_full(H) THEN @ + 1 ELSE @,
                !.hello_tail = tail,
                !.neighbors = [i \in DOMAIN @ |-> unacknowledged(@[i], slot(tail))]]

\* Weights of the stability classifier, in thousandths.
svmResult(neighbors, changes, channels, snr) ==
  770 * neighbors - 396 * changes + 1988 * channels + 4029 * snr - 13086

\* Mutant: isStable is the value of the classifier.
update_sta_info_raw(H, ava, snr) ==
  LET num == Cardinality(H.hello_timers)
  IN  [H EXCEPT !.stability = [neighbor_num |-> num, neighbor_change |-> 0,
                               isStable |-> svmResult(num, 0, ava, snr)]]
\* ava: MACs whose receiver is idle; snr: the best of their signals.
update_sta_info(H, ava, snr) ==
  LET new == {d \in H.hello_timers :
                ~ \E i \in entries(H) : H.neighbors[i].ipaddr = d /\ H.neighbors[i].isValid}
      gone == {i \in entries(H) :
                 H.neighbors[i].isValid /\ H.neighbors[i].ipaddr \notin H.hello_timers}
      num == Cardinality(H.hello_timers)
      change == Cardinality(new) + Cardinality(gone)
      stable == svmResult(num, change, ava, snr) >= 0 /\ num # 0 /\ ava # 0
  IN  [H EXCEPT !.stability = [neighbor_num |-> num, neighbor_change |-> change,
                               isStable |-> IF stable THEN 1 ELSE 0]]

\* A host whose timer runs gets a valid entry, those that have none a new one, in
\* the order of the routing table; then the entries of all others become invalid.
unlisted(H) == {d \in H.hello_timers : index(H, {d}) = H.neighbor_num}
mark_valid(H, order) ==
  LET num == H.neighbor_num + Len(order)
      listed(i) == H.neighbors[i].ipaddr \in H.hello_timers /\ i = index(H, {H.neighbors[i].ipaddr})
      valid(i) == H.neighbors[i].isValid \/ (i \in entries(H) /\ listed(i))
  IN  [H EXCEPT !.neighbor_num = num,
                !.neighbors = [i \in DOMAIN @ |->
                  IF i \in H.neighbor_num .. num - 1
                  THEN [@[i] EXCEPT !.ipaddr = order[i - H.neighbor_num + 1], !.isValid = TRUE]
                  ELSE [@[i] EXCEPT !.isValid = valid(i)]]]
mark_invalid_never(H) == H \* Mutant.
mark_invalid(H) ==
  LET valid(i) == /\ H.neighbors[i].isValid
                  /\ i \in entries(H) => H.neighbors[i].ipaddr \in H.hello_timers
  IN  [H EXCEPT !.neighbors = [i \in DOMAIN @ |-> [@[i] EXCEPT !.isValid = valid(i)]]]
update_neighbor_info(H, order) == mark_invalid(mark_valid(H, order))

\* aodv_socket_send to the broadcast address: a copy for every interface.
broadcast(h, msg) ==
  wire' = [l \in Links |-> IF l[1][1] = h THEN Append(wire[l], msg) ELSE wire[l]]

hello_send(h) ==
  LET H == this_host[h]
      reads == (0 .. H.neighbor_num - 1) \X Channels
  IN  /\ H.hello_tail < MaxHellos[h]
      /\ \A l \in Links : l[1][1] = h =>
           Len(wire[l]) < MaxInFlight /\ Len(wire[back(l)]) <= MaxBehind
      /\ \E beyond \in [reads -> IF ring_full(H) THEN 0 .. stable_beyond(H) ELSE {0}],
            ava \in Idle, snr \in SNRs, order \in SetToSeqs(unlisted(H)) :
           LET G == update_sta_info(advance(update_costs(H, beyond)), ava, snr)
           IN  /\ this_host' = [this_host EXCEPT ![h] = update_neighbor_info(G, order)]
               /\ broadcast(h, [type |-> "HELLO", hello_sent |-> G.hello_tail])
      /\ was_heard' = [was_heard EXCEPT ![h] = <<@[2], H.hello_timers>>]
      /\ UNCHANGED <<acked, received, losses, timeouts>>

(* ---- hello_process -------------------------------------------------------- *)

\* Mutant: the new entry is not counted.
add_neighbor_uncounted(H, d) == [H EXCEPT !.neighbors[index(H, {d})].ipaddr = d]
\* A neighbour heard of for the first time gets the entry after the last one.
add_neighbor(H, d) ==
  LET i == index(H, {d})
  IN  [H EXCEPT !.neighbors[i].ipaddr = d,
                !.neighbor_num = IF i = @ THEN @ + 1 ELSE @]

\* The entry counted in is the first with the sender's address or address 0,
\* which becomes the sender's.
counted(N, d, c, sent) ==
  [N EXCEPT !.ipaddr = d, !.self_received[c] = @ + 1, !.remote_sent = sent]
count_hello(H, d, c, sent) ==
  [H EXCEPT !.neighbors[index(H, {d, 0})] = counted(@, d, c, sent), !.hello_timers = @ \cup {d}]

hello_ack_sent(H, d, c, sent) == \* Mutant: the number sent, for the number received.
  [type |-> "ACK", hello_index |-> sent % BYTE, hello_received |-> sent % BYTE,
   host_stability |-> H.stability.isStable, of |-> sent]
hello_ack(H, d, c, sent) ==
  [type |-> "ACK", hello_index |-> sent % BYTE,
   hello_received |-> H.neighbors[index(H, {d, 0})].self_received[c] % BYTE,
   host_stability |-> H.stability.isStable, of |-> sent]

arrives(l, type) == wire[l] # <<>> /\ Head(wire[l]).type = type

hello_process(l) ==
  LET from == l[1][1]
      to == l[1][2]
      sent == Head(wire[l]).hello_sent
      H == count_hello(add_neighbor(this_host[to], from), from, l[2], sent)
      rest == [wire EXCEPT ![l] = Tail(@)]
  IN  /\ arrives(l, "HELLO")
      /\ this_host' = [this_host EXCEPT ![to] = H]
      /\ wire' = [rest EXCEPT ![back(l)] = Append(@, hello_ack(H, from, l[2], sent))]
      /\ received' = [received EXCEPT ![l] = @ + 1]
      /\ UNCHANGED <<acked, was_heard, losses, timeouts>>

(* ---- rrep_ack_process ------------------------------------------------------ *)

in_window_any(H, k) == TRUE \* Mutant: a late acknowledgement counts.
in_window(H, k) == k >= H.hello_head

count_ack(H, src, c, ack) ==
  LET i == index(H, {src})
      k == slot(ack.hello_index)
      N == [H.neighbors[i] EXCEPT !.remote_received[c] = ack.hello_received]
      noted == [N EXCEPT !.host_stability[k] = ack.host_stability,
                         !.hello_sequence[c][k] = 1]
  IN  [H EXCEPT !.neighbors[i] = IF in_window(H, ack.hello_index) THEN noted ELSE N]

rrep_ack_process(l) ==
  LET to == l[1][2]
      ack == Head(wire[l])
  IN  /\ arrives(l, "ACK")
      /\ this_host' = [this_host EXCEPT ![to] = count_ack(@, l[1][1], l[2], ack)]
      /\ wire' = [wire EXCEPT ![l] = Tail(@)]
      /\ acked' = [acked EXCEPT ![back(l)] = @ \cup {ack.of}]
      /\ UNCHANGED <<received, was_heard, losses, timeouts>>

(* ---- the environment ------------------------------------------------------- *)

\* A frame is lost on its channel.
Lose(l) ==
  /\ wire[l] # <<>> /\ losses < MaxLosses
  /\ wire' = [wire EXCEPT ![l] = Tail(@)]
  /\ losses' = losses + 1
  /\ UNCHANGED <<this_host, history, timeouts>>

\* A hello timer runs out, or the route over it changes (rt_table_update).
hello_timeout(h, d) ==
  /\ d \in this_host[h].hello_timers /\ timeouts < MaxTimeouts
  /\ this_host' = [this_host EXCEPT ![h].hello_timers = @ \ {d}]
  /\ timeouts' = timeouts + 1
  /\ UNCHANGED <<wire, history, losses>>

Next ==
  \/ \E h \in Hosts : hello_send(h)
  \/ \E l \in Links : hello_process(l) \/ rrep_ack_process(l) \/ Lose(l)
  \/ \E h, d \in Hosts : hello_timeout(h, d)

Spec == Init /\ [][Next]_vars

(* ---- properties ------------------------------------------------------------ *)

\* The types of the variables.
TypeOK ==
  /\ \A h \in Hosts :
       LET H == this_host[h]
       IN  /\ H.hello_head \in Nat /\ H.hello_tail \in 0 .. MaxHellos[h]
           /\ H.neighbor_num \in 0 .. MAX_NEIGHBORS
           /\ H.hello_timers \subseteq Hosts
           /\ H.stability_sequence \in [Ring -> {0, 1}]
           /\ \A i \in DOMAIN H.neighbors :
                LET N == H.neighbors[i]
                IN  /\ N.ipaddr \in Hosts \cup {0} /\ N.isValid \in BOOLEAN
                    /\ N.remote_sent \in Nat
                    /\ N.self_received \in [Channels -> Nat]
                    /\ N.remote_received \in [Channels -> 0 .. BYTE - 1]
                    /\ N.hello_sequence \in [Channels -> [Ring -> {0, 1}]]
                    /\ N.host_stability \in [Ring -> {0, 1}]
  /\ acked \in [Links -> SUBSET Nat] /\ received \in [Links -> Nat]

link(h, i, c) == <<<<h, this_host[h].neighbors[i].ipaddr>>, c>>

\* hello_send, rrep_ack_process: within the window of HELLOs the ring of an entry
\* says of every HELLO whether this neighbour acknowledged it on this channel,
\* whatever was lost or came after later HELLOs were sent.
RingIsHistory ==
  \A h \in Hosts : \A i \in entries(this_host[h]), c \in Channels :
    LET H == this_host[h]
    IN  \A k \in H.hello_head .. H.hello_tail :
          H.neighbors[i].hello_sequence[c][slot(k)] = 1 <=> k \in acked[link(h, i, c)]

\* hello_process, rrep_ack_process: an entry never counts more HELLOs as received
\* by a neighbour than that neighbour received from this host.
RemoteReceivedIsReal ==
  \A h \in Hosts : \A i \in entries(this_host[h]), c \in Channels :
    this_host[h].neighbors[i].remote_received[c] <= received[link(h, i, c)]

\* update_sta_info, update_neighbor_info: neighbor_change counts the hosts whose
\* hello timer started or stopped between the last two HELLOs, although it is
\* computed from the isValid marks.
NeighborChangeCounted ==
  \A h \in Hosts :
    this_host[h].stability.neighbor_change =
      Cardinality((was_heard[h][1] \cup was_heard[h][2])
                  \ (was_heard[h][1] \cap was_heard[h][2]))

\* getCost (the line "error! can't find dest!"): a neighbour that is being heard
\* has an entry, so that its link has a cost.
HeardHasEntry ==
  \A h \in Hosts : \A d \in this_host[h].hello_timers :
    index(this_host[h], {d}) < this_host[h].neighbor_num

\* hello_send: the stable count that enters a cost is that of the HELLOs in the
\* window at which both ends were stable.
StableCountOfWindow ==
  [][\A h \in Hosts :
       LET H == this_host[h]
           G == this_host'[h]
       IN  (H.hello_tail # G.hello_tail /\ ring_full(H)) =>
             \A i \in entries(H), c \in Channels :
               G.neighbors[i].channel_cost[c][3] =
                 Cardinality({k \in H.hello_head .. H.hello_tail - 1 :
                                /\ H.stability_sequence[slot(k)] = 1
                                /\ H.neighbors[i].host_stability[slot(k)] = 1})]_vars
=============================================================================
