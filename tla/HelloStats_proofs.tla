------------------------- MODULE HelloStats_proofs -------------------------
(***************************************************************************)
(* What the HELLO statistics say is so: for every set of hosts, whoever    *)
(* hears whom, every ring length and number of channels, and however many  *)
(* frames are lost or late.                                                *)
(*                                                                         *)
(* The entries in use have different addresses and are marked valid        *)
(* exactly for the hosts that were heard at the last HELLO; every frame on *)
(* the way speaks of a HELLO that was sent and of no more HELLOs than were *)
(* received; and the entry in which an acknowledgement would be counted    *)
(* agrees, in the window, with the acknowledgements that have arrived.     *)
(***************************************************************************)
EXTENDS HelloStats, SequenceTheorems, FiniteSetTheorems, FunctionTheorems,
        NaturalsInduction, WellFoundedInduction, TLAPS

---------------------------------------------------------------------------
(* The inductive invariant *)

Slots == 0 .. MAX_NEIGHBORS - 1

Rates == [positive : Nat \X Nat, negative : Nat \X Nat]
Cost ==
  {<<>>} \cup {<<r>> : r \in Rates}
         \cup {<<r, b, n>> : r \in Rates, b \in [0 .. 2 -> {0, 1}], n \in Nat}

Entry ==
  [ipaddr : Hosts \cup {0}, isValid : BOOLEAN, remote_sent : Nat,
   self_received : [Channels -> Nat],
   remote_received : [Channels -> 0 .. BYTE - 1],
   hello_sequence : [Channels -> [Ring -> {0, 1}]],
   host_stability : [Ring -> {0, 1}],
   channel_cost : [Channels -> Cost]]

Stability == [neighbor_num : Nat, neighbor_change : Nat, isStable : {0, 1}]

Host ==
  [hello_head : Nat, hello_tail : Nat, neighbor_num : 0 .. MAX_NEIGHBORS,
   neighbors : [Slots -> Entry], stability : Stability,
   stability_sequence : [Ring -> {0, 1}], hello_timers : SUBSET Hosts]

Hello == [type : {"HELLO"}, hello_sent : Nat]
Ack ==
  [type : {"ACK"}, hello_index : 0 .. BYTE - 1, hello_received : 0 .. BYTE - 1,
   host_stability : {0, 1}, of : Nat]

StatsType ==
  /\ this_host \in [Hosts -> Host]
  /\ wire \in [Links -> Seq(Hello \cup Ack)]
  /\ acked \in [Links -> SUBSET Nat]
  /\ received \in [Links -> Nat]
  /\ was_heard \in [Hosts -> (SUBSET Hosts) \X (SUBSET Hosts)]

known(H) == {H.neighbors[i].ipaddr : i \in entries(H)}

\* Every entry in use is of a host of its own, and every host being heard has one.
Listed(H) ==
  /\ \A i \in entries(H) : H.neighbors[i].ipaddr \in Hosts
  /\ \A i, j \in entries(H) : H.neighbors[i].ipaddr = H.neighbors[j].ipaddr => i = j
  /\ H.hello_timers \subseteq known(H)

\* The valid entries are those of the hosts heard at the last HELLO.
Marked(H, heard) ==
  /\ heard \subseteq known(H)
  /\ \A i \in Slots :
       H.neighbors[i].isValid <=> i \in entries(H) /\ H.neighbors[i].ipaddr \in heard

\* The hosts heard at one of two HELLOs and not at the other.
differ(A, B) == (A \cup B) \ (A \cap B)

StatsInv ==
  /\ StatsType
  /\ \A h \in Hosts :
       /\ Listed(this_host[h])
       /\ Marked(this_host[h], was_heard[h][2])
       /\ this_host[h].stability.neighbor_change =
            Cardinality(differ(was_heard[h][1], was_heard[h][2]))
       /\ this_host[h].hello_tail <= MaxHellos[h]

\* A host that hears at most one other.
Lone(h) == \A p, q \in Hosts : <<h, p>> \in Reach /\ <<h, q>> \in Reach => p = q

\* The entry in which an acknowledgement of host p would be counted.
entry(H, p) == H.neighbors[index(H, {p})]

\* What a frame on the way says: of a HELLO that was sent, and an acknowledgement
\* also how many HELLOs its sender has received.
Truthful(l, f, hosts, rcvd) ==
  /\ f.type = "HELLO" => f.hello_sent \in 1 .. hosts[l[1][1]].hello_tail
  /\ f.type = "ACK" =>
       /\ back(l) \in Links
       /\ f.of \in 1 .. hosts[l[1][2]].hello_tail
       /\ f.hello_index = f.of % BYTE
       /\ f.hello_received <= rcvd[back(l)]

ReceivedOK(h, H, rcvd) ==
  \A i \in Slots, c \in Channels :
    LET N == H.neighbors[i]
    IN  IF i \in entries(H)
        THEN <<<<N.ipaddr, h>>, c>> \in Links /\ N.self_received[c] <= rcvd[<<<<N.ipaddr, h>>, c>>]
        ELSE N.self_received[c] = 0

\* Nothing is counted ahead in the unused entries of a host with several peers.
Clear(h, H) ==
  ~Lone(h) =>
    \A i \in Slots \ entries(H), c \in Channels :
      LET N == H.neighbors[i]
      IN  N.remote_received[c] = 0 /\ \A k \in Ring : N.hello_sequence[c][k] = 0

RemoteOK(h, H, rcvd) ==
  \A p \in Hosts, c \in Channels :
    <<h, p>> \in Reach => entry(H, p).remote_received[c] <= rcvd[<<<<h, p>>, c>>]

Counts(h, H, rcvd) == ReceivedOK(h, H, rcvd) /\ Clear(h, H) /\ RemoteOK(h, H, rcvd)

CountInv ==
  /\ \A l \in Links : \A n \in DOMAIN wire[l] : Truthful(l, wire[l][n], this_host, received)
  /\ \A h \in Hosts : Counts(h, this_host[h], received)

\* The window of HELLOs is shorter than the ring, and the ring of the entry for an
\* acknowledging host says of each HELLO in it whether it was acknowledged.
Window(H) == H.hello_head <= H.hello_tail /\ H.hello_tail - H.hello_head < MAX_SEQUENCE_LEN

RingOK(h, H, acks) ==
  \A p \in Hosts, c \in Channels :
    <<h, p>> \in Reach =>
      \A k \in H.hello_head .. H.hello_tail :
        entry(H, p).hello_sequence[c][slot(k)] = 1 <=> k \in acks[<<<<h, p>>, c>>]

RingInv ==
  /\ \A h \in Hosts : Window(this_host[h]) /\ RingOK(h, this_host[h], acked)
  /\ \A l \in Links : \A k \in acked[l] : k \in 1 .. this_host[l[1][1]].hello_tail

\* Whoever is heard hears.
Symmetric == \A p, q \in Hosts : <<p, q>> \in Reach => <<q, p>> \in Reach

\* No acknowledgement is counted in the entry behind the last one that could be
\* meant for another host.
NotBorrowed ==
  \A l \in Links :
    rrep_ack_process(l) =>
      \/ l[1][1] \in known(this_host[l[1][2]])
      \/ Lone(l[1][2])

---------------------------------------------------------------------------
(* Lemmas about the operators *)

\* The constants are numbers, and the ring has at least three slots.
LEMMA Constants ==
  /\ MAX_SEQUENCE_LEN \in Nat /\ MAX_SEQUENCE_LEN >= 3 /\ Ring = 0 .. MAX_SEQUENCE_LEN - 1
  /\ BYTE \in Nat /\ BYTE >= 1
  /\ MAX_NEIGHBORS \in Nat /\ Cardinality(Hosts) \in Nat /\ Cardinality(Hosts) < MAX_NEIGHBORS
<1>1. Cardinality(Hosts) \in Nat
  BY HelloStatsAssumption, FS_CardinalityType
<1> QED BY <1>1, HelloStatsAssumption DEF Ring

\* The slot of a number is one of the ring.
LEMMA SlotType ==
  ASSUME NEW k \in Int PROVE slot(k) \in Ring
BY Constants DEF slot, Ring

\* Numbers less than a ring apart have different slots.
LEMMA SlotsDiffer ==
  ASSUME NEW a \in Int, NEW b \in Int, a < b, b - a < MAX_SEQUENCE_LEN
  PROVE  slot(a) # slot(b)
<1> DEFINE L == MAX_SEQUENCE_LEN
           q == a \div L
           r == b \div L
<1>1. L \in Int /\ L > 0
  BY Constants
<1>2. a = L * q + slot(a) /\ b = L * r + slot(b) /\ q \in Int /\ r \in Int
  BY <1>1 DEF slot
<1>3. SUFFICES ASSUME slot(a) = slot(b) PROVE FALSE
  OBVIOUS
<1>4. slot(a) \in Int /\ slot(b) \in Int
  BY SlotType, Constants DEF Ring
<1> HIDE DEF L, q, r
<1>5. b - a = L * (r - q)
  BY <1>1, <1>2, <1>3, <1>4
<1>6. CASE r - q <= 0
  <2>1. L * (r - q) <= 0
    BY <1>1, <1>2, <1>6
  <2> QED BY <1>5, <2>1
<1>7. CASE r - q >= 1
  <2>1. L * (r - q) >= L
    BY <1>1, <1>2, <1>7
  <2> QED BY <1>1, <1>5, <2>1 DEF L
<1> QED BY <1>2, <1>6, <1>7

\* A ring's length further on the slot is the same.
LEMMA SlotRepeats ==
  ASSUME NEW a \in Int PROVE slot(a + MAX_SEQUENCE_LEN) = slot(a)
<1> DEFINE L == MAX_SEQUENCE_LEN
           q == a \div L
           r == (a + L) \div L
<1>1. L \in Int /\ L > 0
  BY Constants
<1>2. /\ a = L * q + slot(a) /\ q \in Int
      /\ a + L = L * r + slot(a + L) /\ r \in Int
  BY <1>1 DEF slot
<1>3. slot(a) \in 0 .. L - 1 /\ slot(a + L) \in 0 .. L - 1
  BY <1>1, SlotType, Constants, SMTT(30)
<1> HIDE DEF L, q, r
<1> DEFINE d == r - q - 1
<1>4. d \in Int /\ L * r = L * d + L * q + L /\ L * d \in Int /\ L * q \in Int
  BY <1>1, <1>2
<1>5. slot(a) - slot(a + L) = L * d
  <2> HIDE DEF d
  <2> QED BY <1>1, <1>2, <1>3, <1>4
<1> HIDE DEF d
<1>6. CASE d <= -1
  <2>1. L * d <= -L
    BY <1>1, <1>4, <1>6
  <2> QED BY <1>1, <1>3, <1>5, <2>1
<1>7. CASE d >= 1
  <2>1. L * d >= L
    BY <1>1, <1>4, <1>7
  <2> QED BY <1>1, <1>3, <1>5, <2>1
<1>8. CASE d = 0
  BY <1>1, <1>3, <1>5, <1>8 DEF L
<1> QED BY <1>4, <1>6, <1>7, <1>8

\* The ring is full when all its slots but one are in the window.
LEMMA RingFull ==
  ASSUME NEW H \in Host, Window(H)
  PROVE  ring_full(H) <=> H.hello_tail - H.hello_head = MAX_SEQUENCE_LEN - 1
<1>1. H.hello_head \in Nat /\ H.hello_tail \in Nat
  BY DEF Host
<1>2. CASE H.hello_tail - H.hello_head = MAX_SEQUENCE_LEN - 1
  <2>1. H.hello_tail + 1 = H.hello_head + MAX_SEQUENCE_LEN
    BY <1>1, <1>2, Constants
  <2> QED BY <1>1, <1>2, <2>1, SlotRepeats DEF ring_full
<1>3. CASE H.hello_tail - H.hello_head # MAX_SEQUENCE_LEN - 1
  <2>1. /\ H.hello_head < H.hello_tail + 1
        /\ H.hello_tail + 1 - H.hello_head < MAX_SEQUENCE_LEN
    BY <1>1, <1>3, Constants DEF Window
  <2> QED BY <1>1, <1>3, <2>1, SlotsDiffer DEF ring_full
<1> QED BY <1>2, <1>3

\* A nonempty set of entries has a first one.
LEMMA FirstEntry ==
  ASSUME NEW S \in SUBSET Nat, S # {}
  PROVE  Min(S) \in S
<1> DEFINE R == OpToRel(<, Nat)
<1>1. IsWellFoundedOn(R, Nat)
  BY NatLessThanWellFounded
<1>2. \A x, y \in Nat : <<y, x>> \in R <=> y < x
  BY DEF OpToRel
<1> HIDE DEF R
<1>3. PICK x \in S : \A y \in S : ~(<<y, x>> \in R)
  BY <1>1, WFMin
<1>4. \A y \in S : x \in Nat /\ y \in Nat /\ ~(y < x)
  BY <1>2, <1>3
<1>5. \A y \in S : x <= y
  BY <1>4
<1> QED BY <1>5 DEF Min

\* Where a set of addresses is looked up: at the first entry in use that has one of
\* them, or behind the last.
LEMMA IndexFound ==
  ASSUME NEW H \in Host, NEW A
  PROVE  /\ index(H, A) \in 0 .. H.neighbor_num
         /\ index(H, A) \in entries(H) => H.neighbors[index(H, A)].ipaddr \in A
         /\ index(H, A) \notin entries(H) =>
              index(H, A) = H.neighbor_num /\ \A i \in entries(H) : H.neighbors[i].ipaddr \notin A
<1> DEFINE found == {i \in entries(H) : H.neighbors[i].ipaddr \in A}
<1>1. H.neighbor_num \in Nat /\ entries(H) = 0 .. H.neighbor_num - 1
  BY Constants DEF Host, entries
<1>2. CASE found = {}
  BY <1>1, <1>2 DEF index
<1>3. CASE found # {}
  <2>1. index(H, A) = Min(found)
    BY <1>3 DEF index
  <2>2. found \in SUBSET Nat
    BY <1>1
  <2> HIDE DEF found
  <2>3. index(H, A) \in found
    BY <1>3, <2>1, <2>2, FirstEntry
  <2> QED BY <1>1, <2>3 DEF found
<1> QED BY <1>2, <1>3

\* A known host is found at its own entry, an unknown one behind the last.
LEMMA IndexKnown ==
  ASSUME NEW H \in Host, Listed(H), NEW d
  PROVE  /\ \A i \in entries(H) : H.neighbors[i].ipaddr = d => index(H, {d}) = i
         /\ d \in known(H) => index(H, {d}) \in entries(H) /\ H.neighbors[index(H, {d})].ipaddr = d
         /\ d \notin known(H) => index(H, {d}) = H.neighbor_num
<1>1. /\ index(H, {d}) \in entries(H) => H.neighbors[index(H, {d})].ipaddr = d
      /\ index(H, {d}) \notin entries(H) =>
           index(H, {d}) = H.neighbor_num /\ \A i \in entries(H) : H.neighbors[i].ipaddr # d
  BY IndexFound
<1> QED BY <1>1 DEF Listed, known

\* There are no more entries than hosts, and a spare one for a host without.
LEMMA EntriesBound ==
  ASSUME NEW H \in Host, Listed(H)
  PROVE  /\ entries(H) \subseteq Slots
         /\ H.neighbor_num \in Slots
         /\ \A d \in Hosts : d \notin known(H) => H.neighbor_num + 1 \in Slots
<1>1. H.neighbor_num \in Nat /\ entries(H) = 0 .. H.neighbor_num - 1
  BY Constants DEF Host, entries
<1> DEFINE f == [i \in entries(H) |-> H.neighbors[i].ipaddr]
<1>2. \A S : known(H) \subseteq S => f \in Injection(entries(H), S)
  BY DEF Injection, IsInjective, Listed, known
<1>3. Cardinality(entries(H)) = H.neighbor_num
  <2> DEFINE n == H.neighbor_num - 1
  <2>1. n \in Int /\ 0 \in Int
    BY <1>1
  <2> HIDE DEF n
  <2>2. Cardinality(0 .. n) = IF 0 > n THEN 0 ELSE n - 0 + 1
    BY <2>1, FS_Interval
  <2> QED BY <1>1, <2>1, <2>2 DEF n
<1>4. known(H) \subseteq Hosts
  BY DEF known, Listed
<1> HIDE DEF f
<1>5. H.neighbor_num <= Cardinality(Hosts)
  BY <1>2, <1>3, <1>4, FS_Injection, HelloStatsAssumption
<1>6. ASSUME NEW d \in Hosts, d \notin known(H) PROVE H.neighbor_num + 1 <= Cardinality(Hosts)
  <2>1. known(H) \subseteq Hosts \ {d} /\ IsFiniteSet(Hosts \ {d})
    BY <1>4, <1>6, FS_RemoveElement, HelloStatsAssumption
  <2>2. Cardinality(Hosts \ {d}) = Cardinality(Hosts) - 1
    BY FS_RemoveElement, HelloStatsAssumption
  <2>3. H.neighbor_num <= Cardinality(Hosts \ {d})
    BY <1>2, <1>3, <2>1, FS_Injection
  <2> QED BY <1>1, <2>2, <2>3, Constants
<1> QED BY <1>1, <1>5, <1>6, Constants DEF Slots

\* A host is looked up within the array.
LEMMA LookupSlot ==
  ASSUME NEW H \in Host, Listed(H), NEW p
  PROVE  index(H, {p}) \in Slots
<1>1. index(H, {p}) \in 0 .. H.neighbor_num /\ H.neighbor_num \in Slots
  BY IndexFound, EntriesBound
<1> QED BY <1>1, Constants DEF Slots

\* The same hosts in the same entries are found there.
LEMMA SameIndex ==
  ASSUME NEW H \in Host, NEW G \in Host, Listed(H), Listed(G), entries(G) = entries(H),
         \A i \in entries(H) : G.neighbors[i].ipaddr = H.neighbors[i].ipaddr,
         NEW p
  PROVE  index(G, {p}) = index(H, {p})
<1>1. G.neighbor_num = H.neighbor_num
  <2>1. G.neighbor_num \in Nat /\ H.neighbor_num \in Nat
    BY Constants DEF Host
  <2>2. \A n \in Nat : n \in entries(G) <=> n < G.neighbor_num
    BY <2>1 DEF entries
  <2>3. \A n \in Nat : n \in entries(H) <=> n < H.neighbor_num
    BY <2>1 DEF entries
  <2> QED BY <2>1, <2>2, <2>3
<1>2. known(G) = known(H)
  BY DEF known
<1>3. CASE p \in known(H)
  BY <1>3, IndexKnown
<1>4. CASE p \notin known(H)
  BY <1>1, <1>2, <1>4, IndexKnown
<1> QED BY <1>3, <1>4

---------------------------------------------------------------------------
(* hello_send, part by part *)

\* A cost is made of counts and bits.
LEMMA CostType ==
  ASSUME NEW H \in Host, NEW i \in Slots, NEW c \in Channels, NEW beyond \in Nat
  PROVE  channel_cost(H, i, c, beyond) \in Cost
<1> DEFINE N == H.neighbors[i]
           rates == [positive |-> <<N.remote_received[c], H.hello_tail>>,
                     negative |-> <<N.self_received[c], N.remote_sent>>]
           bits == [k \in 0 .. 2 |-> N.hello_sequence[c][slot(H.hello_tail - k)]]
<1>1. N \in Entry /\ H.hello_tail \in Nat /\ H.hello_head \in Nat
  BY DEF Host
<1>2. rates \in Rates
  <2>1. N.remote_received[c] \in Nat /\ N.self_received[c] \in Nat /\ N.remote_sent \in Nat
    BY <1>1, Constants DEF Entry
  <2> QED BY <1>1, <2>1 DEF Rates
<1>3. bits \in [0 .. 2 -> {0, 1}]
  <2>1. N.hello_sequence[c] \in [Ring -> {0, 1}]
    BY <1>1 DEF Entry
  <2>2. \A k \in 0 .. 2 : slot(H.hello_tail - k) \in Ring
    BY <1>1, SlotType
  <2> QED BY <2>1, <2>2
<1>4. stable_terms(H, i) + beyond \in Nat
  <2> DEFINE T == {k \in H.hello_head .. H.hello_tail - 1 :
                     /\ k \in Ring
                     /\ H.stability_sequence[k] = 1
                     /\ H.neighbors[i].host_stability[k] = 1}
  <2>1. IsFiniteSet(H.hello_head .. H.hello_tail - 1)
    BY <1>1, FS_Interval, SMTT(30)
  <2>2. T \in SUBSET (H.hello_head .. H.hello_tail - 1)
    OBVIOUS
  <2>3. stable_terms(H, i) = Cardinality(T)
    BY DEF stable_terms
  <2> HIDE DEF T
  <2>4. Cardinality(T) \in Nat
    BY <2>1, <2>2, FS_Subset, FS_CardinalityType
  <2> QED BY <2>3, <2>4
<1>5. channel_cost(H, i, c, beyond) = IF ring_full(H)
                                      THEN <<rates, bits, stable_terms(H, i) + beyond>>
                                      ELSE <<rates>>
  BY DEF channel_cost
<1> HIDE DEF rates, bits
<1> QED BY <1>2, <1>3, <1>4, <1>5 DEF Cost

\* Everything an entry holds but its costs.
SameCounts(N, M) ==
  /\ M.ipaddr = N.ipaddr /\ M.isValid = N.isValid /\ M.remote_sent = N.remote_sent
  /\ M.self_received = N.self_received /\ M.remote_received = N.remote_received
  /\ M.hello_sequence = N.hello_sequence

\* The first part of hello_send changes the costs and the host's own stability ring.
LEMMA CostsStep ==
  ASSUME NEW H \in Host, Listed(H),
         NEW beyond \in [(0 .. H.neighbor_num - 1) \X Channels -> Nat]
  PROVE  LET G == update_costs(H, beyond)
         IN  /\ G \in Host
             /\ G.hello_head = H.hello_head /\ G.hello_tail = H.hello_tail
             /\ G.neighbor_num = H.neighbor_num /\ G.hello_timers = H.hello_timers
             /\ \A i \in Slots : SameCounts(H.neighbors[i], G.neighbors[i])
<1> DEFINE S == [H EXCEPT !.stability_sequence[slot(H.hello_tail)] = H.stability.isStable]
           new(i) == [H.neighbors[i] EXCEPT !.channel_cost =
                        [c \in Channels |-> channel_cost(S, i, c, beyond[<<i, c>>])]]
           near == [i \in Slots |-> IF i \in entries(S) THEN new(i) ELSE H.neighbors[i]]
           G == update_costs(H, beyond)
<1>1. S \in Host /\ S.neighbors = H.neighbors /\ DOMAIN H.neighbors = Slots /\ entries(S) = entries(H)
  <2>1. H.stability.isStable \in {0, 1}
    BY DEF Host, Stability
  <2>2. [H.stability_sequence EXCEPT ![slot(H.hello_tail)] = H.stability.isStable] \in [Ring -> {0, 1}]
    BY <2>1 DEF Host
  <2>3. S = [H EXCEPT !.stability_sequence =
               [@ EXCEPT ![slot(H.hello_tail)] = H.stability.isStable]]
    OBVIOUS
  <2>4. S \in Host
    BY <2>2, <2>3 DEF Host
  <2> QED BY <2>4 DEF Host, entries
<1>2. ASSUME NEW i \in entries(S)
      PROVE  new(i) \in Entry /\ SameCounts(H.neighbors[i], new(i))
  <2>1. i \in Slots /\ H.neighbors[i] \in Entry
    BY <1>1, EntriesBound DEF Host
  <2>2. \A c \in Channels : beyond[<<i, c>>] \in Nat
    BY <1>1 DEF entries
  <2> HIDE DEF S
  <2>3. [c \in Channels |-> channel_cost(S, i, c, beyond[<<i, c>>])] \in [Channels -> Cost]
    BY <1>1, <2>1, <2>2, CostType
  <2> QED BY <2>1, <2>3 DEF Entry, SameCounts
<1>3. near \in [Slots -> Entry]
  BY <1>1, <1>2 DEF Host
<1>4. G = [S EXCEPT !.neighbors = near]
  BY <1>1 DEF update_costs
<1>5. \A i \in Slots : SameCounts(H.neighbors[i], near[i])
  BY <1>2 DEF SameCounts
<1>6. /\ S.hello_head = H.hello_head /\ S.hello_tail = H.hello_tail
      /\ S.neighbor_num = H.neighbor_num /\ S.hello_timers = H.hello_timers
  BY DEF Host
<1> HIDE DEF S, near
<1>7. G \in Host
  BY <1>1, <1>3, <1>4 DEF Host
<1>8. /\ G.hello_head = S.hello_head /\ G.hello_tail = S.hello_tail
      /\ G.neighbor_num = S.neighbor_num /\ G.hello_timers = S.hello_timers /\ G.neighbors = near
  BY <1>1, <1>4 DEF Host
<1> HIDE DEF G
<1> QED BY <1>5, <1>6, <1>7, <1>8 DEF G

\* Everything an entry holds but its costs and the mark.
SameData(N, M) ==
  /\ M.ipaddr = N.ipaddr /\ M.remote_sent = N.remote_sent
  /\ M.self_received = N.self_received /\ M.remote_received = N.remote_received
  /\ M.hello_sequence = N.hello_sequence

\* The window moves on, and the slot of the new HELLO is emptied.
Moved(H, N, M) ==
  /\ M.ipaddr = N.ipaddr /\ M.isValid = N.isValid
  /\ M.self_received = N.self_received /\ M.remote_received = N.remote_received
  /\ \A c \in Channels, k \in Ring :
       M.hello_sequence[c][k] = IF k = slot(H.hello_tail + 1) THEN 0 ELSE N.hello_sequence[c][k]

\* Moving the window on empties the slot of the new HELLO in every entry.
LEMMA AdvanceStep ==
  ASSUME NEW H \in Host
  PROVE  LET G == advance(H)
         IN  /\ G \in Host
             /\ G.hello_head = IF ring_full(H) THEN H.hello_head + 1 ELSE H.hello_head
             /\ G.hello_tail = H.hello_tail + 1
             /\ G.neighbor_num = H.neighbor_num /\ G.hello_timers = H.hello_timers
             /\ \A i \in Slots : Moved(H, H.neighbors[i], G.neighbors[i])
<1> DEFINE t == slot(H.hello_tail + 1)
           ring(i) == [c \in Channels |-> [H.neighbors[i].hello_sequence[c] EXCEPT ![t] = 0]]
           new(i) == unacknowledged(H.neighbors[i], t)
           near == [i \in Slots |-> new(i)]
           head == IF ring_full(H) THEN H.hello_head + 1 ELSE H.hello_head
           tail == H.hello_tail + 1
           G == advance(H)
<1>1. DOMAIN H.neighbors = Slots /\ head \in Nat /\ tail \in Nat
  BY DEF Host
<1>2. ASSUME NEW i \in Slots
      PROVE  new(i) \in Entry /\ Moved(H, H.neighbors[i], new(i))
  <2>1. H.neighbors[i] \in Entry
    BY DEF Host
  <2>2. \A c \in Channels : H.neighbors[i].hello_sequence[c] \in [Ring -> {0, 1}]
    BY <2>1 DEF Entry
  <2>3. /\ ring(i) \in [Channels -> [Ring -> {0, 1}]]
        /\ \A c \in Channels, k \in Ring :
             ring(i)[c][k] = IF k = t THEN 0 ELSE H.neighbors[i].hello_sequence[c][k]
    BY <2>2
  <2> HIDE DEF ring, t
  <2>4. /\ new(i) \in Entry /\ new(i).hello_sequence = ring(i)
        /\ new(i).ipaddr = H.neighbors[i].ipaddr /\ new(i).isValid = H.neighbors[i].isValid
        /\ new(i).self_received = H.neighbors[i].self_received
        /\ new(i).remote_received = H.neighbors[i].remote_received
    <3>1. new(i) = [H.neighbors[i] EXCEPT !.hello_sequence = ring(i)]
      BY DEF unacknowledged, ring
    <3> HIDE DEF new
    <3> QED BY <2>1, <2>3, <3>1 DEF Entry
  <2> HIDE DEF new
  <2> QED BY <2>3, <2>4 DEF Moved, t
<1>3. near \in [Slots -> Entry]
  BY <1>2
<1>4. G = [H EXCEPT !.hello_head = head, !.hello_tail = tail, !.neighbors = near]
  <2>1. G = [H EXCEPT !.hello_head = head, !.hello_tail = tail,
                      !.neighbors = [i \in DOMAIN H.neighbors |-> new(i)]]
    BY DEF advance
  <2>2. [i \in DOMAIN H.neighbors |-> new(i)] = near
    BY <1>1
  <2> HIDE DEF new, head, tail, near, G
  <2> QED BY <2>1, <2>2
<1>5. \A i \in Slots : Moved(H, H.neighbors[i], near[i])
  BY <1>2
<1> HIDE DEF near, head, tail
<1>6. G \in Host
  BY <1>1, <1>3, <1>4 DEF Host
<1>7. /\ G.hello_head = head /\ G.hello_tail = tail /\ G.neighbors = near
      /\ G.neighbor_num = H.neighbor_num /\ G.hello_timers = H.hello_timers
  BY <1>4 DEF Host
<1> HIDE DEF G
<1> QED BY <1>5, <1>6, <1>7 DEF G, head, tail

\* Two sets that differ are counted by what only one and what only the other holds.
LEMMA DifferCounted ==
  ASSUME NEW A, NEW B, IsFiniteSet(A), IsFiniteSet(B)
  PROVE  /\ Cardinality(differ(A, B)) = Cardinality(B \ A) + Cardinality(A \ B)
         /\ IsFiniteSet(B \ A) /\ IsFiniteSet(A \ B)
<1>1. IsFiniteSet(B \ A) /\ IsFiniteSet(A \ B)
  BY FS_Difference
<1>2. differ(A, B) = (B \ A) \cup (A \ B)
  BY DEF differ
<1>3. (B \ A) \cap (A \ B) = {}
  OBVIOUS
<1>4. Cardinality((B \ A) \cup (A \ B)) =
        Cardinality(B \ A) + Cardinality(A \ B) - Cardinality((B \ A) \cap (A \ B))
  BY <1>1, FS_Union
<1>5. /\ Cardinality(B \ A) \in Nat /\ Cardinality(A \ B) \in Nat
      /\ Cardinality((B \ A) \cap (A \ B)) = 0
  <2>1. Cardinality({}) = 0
    BY FS_EmptySet
  <2> QED BY <1>1, <1>3, <2>1, FS_CardinalityType
<1>6. Cardinality(differ(A, B)) = Cardinality((B \ A) \cup (A \ B))
  BY <1>2
<1> QED BY <1>1, <1>4, <1>5, <1>6

\* update_sta_info counts with the marks what it means to count: the hosts heard at
\* only one of the two HELLOs.
LEMMA StaStep ==
  ASSUME NEW H \in Host, Listed(H), NEW heard \in SUBSET Hosts, Marked(H, heard), NEW ava, NEW snr
  PROVE  LET G == update_sta_info(H, ava, snr)
         IN  /\ G \in Host
             /\ G.hello_head = H.hello_head /\ G.hello_tail = H.hello_tail
             /\ G.neighbor_num = H.neighbor_num /\ G.hello_timers = H.hello_timers
             /\ G.neighbors = H.neighbors
             /\ G.stability.neighbor_change = Cardinality(differ(heard, H.hello_timers))
<1> DEFINE new == {d \in H.hello_timers :
                     ~ \E i \in entries(H) : H.neighbors[i].ipaddr = d /\ H.neighbors[i].isValid}
           gone == {i \in entries(H) :
                      H.neighbors[i].isValid /\ H.neighbors[i].ipaddr \notin H.hello_timers}
           f == [i \in gone |-> H.neighbors[i].ipaddr]
           num == Cardinality(H.hello_timers)
           change == Cardinality(new) + Cardinality(gone)
           stable == svmResult(num, change, ava, snr) >= 0 /\ num # 0 /\ ava # 0
           sta == [neighbor_num |-> num, neighbor_change |-> change,
                   isStable |-> IF stable THEN 1 ELSE 0]
           G == update_sta_info(H, ava, snr)
<1>1. H.hello_timers \in SUBSET Hosts /\ IsFiniteSet(H.hello_timers) /\ IsFiniteSet(heard)
  BY FS_Subset, HelloStatsAssumption DEF Host
<1>2. entries(H) \subseteq Slots
  BY EntriesBound
<1>3. new = H.hello_timers \ heard
  <2>1. ASSUME NEW d PROVE (\E i \in entries(H) : H.neighbors[i].ipaddr = d /\ H.neighbors[i].isValid) <=> d \in heard
    BY <1>2 DEF Marked, known
  <2> QED BY <2>1
<1>4. f \in Bijection(gone, heard \ H.hello_timers)
  <2>1. \A i \in entries(H) : H.neighbors[i].isValid <=> H.neighbors[i].ipaddr \in heard
    BY <1>2 DEF Marked
  <2>2. f \in [gone -> heard \ H.hello_timers]
    BY <2>1
  <2>3. \A i, j \in gone : f[i] = f[j] => i = j
    BY DEF Listed
  <2>4. \A d \in heard \ H.hello_timers : \E i \in gone : f[i] = d
    BY <2>1 DEF Marked, known
  <2> HIDE DEF f, gone
  <2> QED BY <2>2, <2>3, <2>4, Fun_IsBij
<1>5. Cardinality(new) \in Nat /\ Cardinality(gone) \in Nat
      /\ change = Cardinality(differ(heard, H.hello_timers))
  <2>1. IsFiniteSet(gone) /\ Cardinality(heard \ H.hello_timers) = Cardinality(gone)
    <3>1. IsFiniteSet(heard \ H.hello_timers)
      BY <1>1, FS_Difference
    <3>2. IsFiniteSet(gone)
      <4>1. IsFiniteSet(entries(H))
        <5>1. H.neighbor_num - 1 \in Int
          BY Constants DEF Host
        <5> QED BY <5>1, FS_Interval DEF entries
      <4> QED BY <4>1, FS_Subset
    <3> HIDE DEF gone, f
    <3>3. ExistsBijection(gone, heard \ H.hello_timers)
      BY <1>4 DEF ExistsBijection
    <3> QED BY <3>2, <3>3, FS_Bijection
  <2>2. /\ Cardinality(differ(heard, H.hello_timers)) =
             Cardinality(H.hello_timers \ heard) + Cardinality(heard \ H.hello_timers)
        /\ IsFiniteSet(H.hello_timers \ heard)
    BY <1>1, DifferCounted
  <2>3. Cardinality(gone) \in Nat /\ Cardinality(H.hello_timers \ heard) \in Nat
    BY <2>1, <2>2, FS_CardinalityType
  <2> QED BY <1>3, <2>1, <2>2, <2>3
<1>6. sta \in Stability
  <2>1. num \in Nat
    BY <1>1, FS_CardinalityType
  <2> QED BY <1>5, <2>1 DEF Stability
<1>7. G = [H EXCEPT !.stability = sta]
  BY DEF update_sta_info
<1>8. sta.neighbor_change = change
  OBVIOUS
<1> HIDE DEF sta, change, new, gone
<1>9. G \in Host
  BY <1>6, <1>7 DEF Host
<1>10. /\ G.hello_head = H.hello_head /\ G.hello_tail = H.hello_tail
       /\ G.neighbor_num = H.neighbor_num /\ G.hello_timers = H.hello_timers
       /\ G.neighbors = H.neighbors /\ G.stability = sta
  BY <1>7 DEF Host
<1> HIDE DEF G
<1> QED BY <1>5, <1>8, <1>9, <1>10 DEF G

\* Every host being heard has an entry: the routing table has none to append.
LEMMA NoneUnlisted ==
  ASSUME NEW H \in Host, Listed(H), NEW order \in SetToSeqs(unlisted(H))
  PROVE  Len(order) = 0
<1>1. unlisted(H) = {}
  <2>1. ASSUME NEW d \in H.hello_timers PROVE index(H, {d}) # H.neighbor_num
    <3>1. d \in known(H) /\ H.neighbor_num \in Nat
      BY <2>1, Constants DEF Listed, Host
    <3>2. index(H, {d}) \in entries(H)
      BY <3>1, IndexKnown
    <3> QED BY <3>1, <3>2 DEF entries
  <2> QED BY <2>1 DEF unlisted
<1>2. Cardinality(unlisted(H)) = 0
  BY <1>1, FS_EmptySet
<1>3. order \in [1 .. 0 -> unlisted(H)]
  BY <1>2 DEF SetToSeqs
<1> QED BY <1>3, LenProperties

\* After update_neighbor_info the valid entries are those of the hosts being heard.
LEMMA MarkStep ==
  ASSUME NEW H \in Host, Listed(H), NEW heard, Marked(H, heard), NEW order, Len(order) = 0
  PROVE  LET G == update_neighbor_info(H, order)
         IN  /\ G \in Host
             /\ G.hello_head = H.hello_head /\ G.hello_tail = H.hello_tail
             /\ G.neighbor_num = H.neighbor_num /\ G.hello_timers = H.hello_timers
             /\ G.stability = H.stability
             /\ \A i \in Slots : SameData(H.neighbors[i], G.neighbors[i])
             /\ \A i \in Slots : G.neighbors[i].isValid <=>
                  i \in entries(H) /\ H.neighbors[i].ipaddr \in H.hello_timers
<1> DEFINE listed(i) == H.neighbors[i].ipaddr \in H.hello_timers /\ i = index(H, {H.neighbors[i].ipaddr})
           valid(i) == H.neighbors[i].isValid \/ (i \in entries(H) /\ listed(i))
           new(i) == [H.neighbors[i] EXCEPT !.isValid = valid(i)]
           near == [i \in Slots |-> new(i)]
           V == mark_valid(H, order)
<1>1. H.neighbor_num \in Nat /\ DOMAIN H.neighbors = Slots
  BY Constants DEF Host
<1>2. V = [H EXCEPT !.neighbors = near]
  <2>1. H.neighbor_num + Len(order) = H.neighbor_num /\ H.neighbor_num .. H.neighbor_num - 1 = {}
    BY <1>1
  <2>2. V = [H EXCEPT !.neighbor_num = H.neighbor_num, !.neighbors = [i \in Slots |-> new(i)]]
    BY <1>1, <2>1 DEF mark_valid
  <2> HIDE DEF V, new
  <2>3. [H EXCEPT !.neighbor_num = H.neighbor_num, !.neighbors = near] = [H EXCEPT !.neighbors = near]
    <3> HIDE DEF near
    <3> QED BY DEF Host
  <2> QED BY <2>2, <2>3
<1>3. ASSUME NEW i \in Slots
      PROVE  /\ new(i) \in Entry /\ SameData(H.neighbors[i], new(i))
             /\ new(i).isValid = valid(i) /\ valid(i) \in BOOLEAN
  <2>1. H.neighbors[i] \in Entry
    BY DEF Host
  <2>2. valid(i) \in BOOLEAN
    BY <2>1 DEF Entry
  <2> HIDE DEF valid
  <2> QED BY <2>1, <2>2 DEF Entry, SameData
<1>4. near \in [Slots -> Entry]
  BY <1>3
<1> HIDE DEF near, V
<1>5. V \in Host
  BY <1>2, <1>4 DEF Host
<1>6. /\ V.hello_head = H.hello_head /\ V.hello_tail = H.hello_tail
      /\ V.neighbor_num = H.neighbor_num /\ V.hello_timers = H.hello_timers
      /\ V.stability = H.stability /\ V.neighbors = near
  BY <1>2 DEF Host
<1>7. entries(V) = entries(H)
  BY <1>6 DEF entries
<1> DEFINE kept(i) == /\ V.neighbors[i].isValid
                      /\ i \in entries(V) => V.neighbors[i].ipaddr \in V.hello_timers
           last(i) == [V.neighbors[i] EXCEPT !.isValid = kept(i)]
           nlast == [i \in Slots |-> last(i)]
           G == update_neighbor_info(H, order)
<1>8. G = [V EXCEPT !.neighbors = nlast]
  <2>1. DOMAIN V.neighbors = Slots
    BY <1>4, <1>6
  <2>2. G = mark_invalid(V)
    BY DEF update_neighbor_info, V
  <2>3. mark_invalid(V) = [V EXCEPT !.neighbors = [i \in DOMAIN V.neighbors |-> last(i)]]
    BY DEF mark_invalid
  <2> HIDE DEF last, G
  <2> QED BY <2>1, <2>2, <2>3
<1>9. ASSUME NEW i \in Slots
      PROVE  /\ last(i) \in Entry /\ SameData(V.neighbors[i], last(i))
             /\ last(i).isValid = kept(i)
  <2>1. V.neighbors[i] \in Entry
    BY <1>5 DEF Host
  <2>2. kept(i) \in BOOLEAN
    BY <2>1 DEF Entry
  <2> HIDE DEF kept
  <2> QED BY <2>1, <2>2 DEF Entry, SameData
<1>10. nlast \in [Slots -> Entry]
  BY <1>9
<1> HIDE DEF nlast, G
<1>11. G \in Host
  BY <1>5, <1>8, <1>10 DEF Host
<1>12. /\ G.hello_head = V.hello_head /\ G.hello_tail = V.hello_tail
       /\ G.neighbor_num = V.neighbor_num /\ G.hello_timers = V.hello_timers
       /\ G.stability = V.stability /\ G.neighbors = nlast
  BY <1>5, <1>8 DEF Host
<1>13. ASSUME NEW i \in Slots
       PROVE  /\ SameData(H.neighbors[i], G.neighbors[i])
              /\ G.neighbors[i].isValid <=>
                   i \in entries(H) /\ H.neighbors[i].ipaddr \in H.hello_timers
  <2>1. V.neighbors[i] = new(i) /\ G.neighbors[i] = last(i)
    BY <1>6, <1>12 DEF near, nlast
  <2>2. SameData(H.neighbors[i], G.neighbors[i])
    <3>1. SameData(H.neighbors[i], new(i)) /\ SameData(V.neighbors[i], last(i))
      BY <1>3, <1>9
    <3> HIDE DEF new, last
    <3>2. SameData(H.neighbors[i], V.neighbors[i]) /\ SameData(V.neighbors[i], G.neighbors[i])
      BY <2>1, <3>1
    <3> QED BY <3>2 DEF SameData
  <2>3. V.neighbors[i].ipaddr = H.neighbors[i].ipaddr
    BY <1>3, <2>1 DEF SameData
  <2>4. G.neighbors[i].isValid = kept(i) /\ V.neighbors[i].isValid = valid(i)
    BY <1>3, <1>9, <2>1
  <2>5. i \in entries(H) => index(H, {H.neighbors[i].ipaddr}) = i
    BY IndexKnown, ZenonT(60)
  <2>6. i \notin entries(H) => ~H.neighbors[i].isValid
    BY DEF Marked
  <2>7. kept(i) <=> i \in entries(H) /\ H.neighbors[i].ipaddr \in H.hello_timers
    <3>1. valid(i) <=> H.neighbors[i].isValid \/ (i \in entries(H) /\ H.neighbors[i].ipaddr \in H.hello_timers)
      BY <2>5
    <3>2. kept(i) <=> valid(i) /\ (i \in entries(H) => H.neighbors[i].ipaddr \in H.hello_timers)
      <4> HIDE DEF valid
      <4> QED BY <1>6, <1>7, <2>3, <2>4
    <3> HIDE DEF valid, kept
    <3> QED BY <2>6, <3>1, <3>2
  <2> HIDE DEF kept, valid, new, last
  <2> QED BY <2>2, <2>4, <2>7
<1> HIDE DEF listed, valid, new, kept, last
<1> QED BY <1>6, <1>11, <1>12, <1>13 DEF G

\* The same hosts have the same entries.
LEMMA SameListed ==
  ASSUME NEW H \in Host, NEW G \in Host, Listed(H),
         G.neighbor_num = H.neighbor_num, G.hello_timers = H.hello_timers,
         \A i \in Slots : G.neighbors[i].ipaddr = H.neighbors[i].ipaddr
  PROVE  entries(G) = entries(H) /\ known(G) = known(H) /\ Listed(G)
<1>1. entries(G) = entries(H)
  BY DEF entries
<1>2. \A i \in entries(H) : G.neighbors[i].ipaddr = H.neighbors[i].ipaddr
  BY EntriesBound
<1>3. known(G) = known(H)
  BY <1>1, <1>2 DEF known
<1> QED BY <1>1, <1>2, <1>3 DEF Listed

\* An entry after a HELLO: the slot of the new one is emptied, what was counted stays.
Advanced(H, N, M) ==
  /\ M.ipaddr = N.ipaddr
  /\ M.self_received = N.self_received /\ M.remote_received = N.remote_received
  /\ \A c \in Channels, k \in Ring :
       M.hello_sequence[c][k] = IF k = slot(H.hello_tail + 1) THEN 0 ELSE N.hello_sequence[c][k]

\* The host's record after the whole of hello_send.
Sends(H, G, heard) ==
  /\ G \in Host /\ Listed(G) /\ entries(G) = entries(H) /\ known(G) = known(H)
  /\ Marked(G, H.hello_timers)
  /\ G.hello_head = IF ring_full(H) THEN H.hello_head + 1 ELSE H.hello_head
  /\ G.hello_tail = H.hello_tail + 1 /\ G.neighbor_num = H.neighbor_num
  /\ G.hello_timers = H.hello_timers
  /\ G.stability.neighbor_change = Cardinality(differ(heard, H.hello_timers))
  /\ \A i \in Slots : Advanced(H, H.neighbors[i], G.neighbors[i])

\* The whole of hello_send: costs, window, stability and marks, one after the other.
LEMMA SendStep ==
  ASSUME NEW H \in Host, Listed(H), NEW heard \in SUBSET Hosts, Marked(H, heard),
         NEW beyond \in [(0 .. H.neighbor_num - 1) \X Channels -> Nat], NEW ava, NEW snr,
         NEW order \in SetToSeqs(unlisted(H))
  PROVE  LET U == update_sta_info(advance(update_costs(H, beyond)), ava, snr)
             G == update_neighbor_info(U, order)
         IN  U.hello_tail = H.hello_tail + 1 /\ Sends(H, G, heard)
<1> DEFINE C == update_costs(H, beyond)
           A == advance(C)
           U == update_sta_info(A, ava, snr)
           G == update_neighbor_info(U, order)
<1>1. /\ C \in Host
      /\ C.hello_head = H.hello_head /\ C.hello_tail = H.hello_tail
      /\ C.neighbor_num = H.neighbor_num /\ C.hello_timers = H.hello_timers
      /\ \A i \in Slots : SameCounts(H.neighbors[i], C.neighbors[i])
  BY CostsStep
<1> HIDE DEF C
<1>2. ring_full(C) = ring_full(H)
  BY <1>1 DEF ring_full
<1>3. /\ A \in Host
      /\ A.hello_head = IF ring_full(H) THEN H.hello_head + 1 ELSE H.hello_head
      /\ A.hello_tail = H.hello_tail + 1
      /\ A.neighbor_num = H.neighbor_num /\ A.hello_timers = H.hello_timers
      /\ \A i \in Slots : Moved(C, C.neighbors[i], A.neighbors[i])
  BY <1>1, <1>2, AdvanceStep
<1> HIDE DEF A
<1>4. \A i \in Slots :
        /\ Advanced(H, H.neighbors[i], A.neighbors[i])
        /\ A.neighbors[i].isValid = H.neighbors[i].isValid
  BY <1>1, <1>3 DEF SameCounts, Moved, Advanced
<1>5. Listed(A) /\ entries(A) = entries(H) /\ known(A) = known(H)
  <2>1. \A i \in Slots : A.neighbors[i].ipaddr = H.neighbors[i].ipaddr
    BY <1>4 DEF Advanced
  <2> QED BY <1>3, <2>1, SameListed
<1>6. Marked(A, heard)
  BY <1>4, <1>5 DEF Marked, Advanced
<1>7. /\ U \in Host
      /\ U.hello_head = A.hello_head /\ U.hello_tail = A.hello_tail
      /\ U.neighbor_num = A.neighbor_num /\ U.hello_timers = A.hello_timers
      /\ U.neighbors = A.neighbors
      /\ U.stability.neighbor_change = Cardinality(differ(heard, A.hello_timers))
  BY <1>3, <1>5, <1>6, StaStep
<1> HIDE DEF U
<1>8. Listed(U) /\ entries(U) = entries(H) /\ Marked(U, heard)
  <2>1. entries(U) = entries(A) /\ known(U) = known(A) /\ Listed(U)
    BY <1>3, <1>5, <1>7, SameListed
  <2> QED BY <1>5, <1>6, <1>7, <2>1 DEF Marked
<1>9. Len(order) = 0
  BY NoneUnlisted
<1>10. /\ G \in Host
       /\ G.hello_head = U.hello_head /\ G.hello_tail = U.hello_tail
       /\ G.neighbor_num = U.neighbor_num /\ G.hello_timers = U.hello_timers
       /\ G.stability = U.stability
       /\ \A i \in Slots : SameData(U.neighbors[i], G.neighbors[i])
       /\ \A i \in Slots : G.neighbors[i].isValid <=>
            i \in entries(U) /\ U.neighbors[i].ipaddr \in U.hello_timers
  BY <1>7, <1>8, <1>9, MarkStep
<1> HIDE DEF G
<1>11. \A i \in Slots : Advanced(H, H.neighbors[i], G.neighbors[i])
  BY <1>4, <1>7, <1>10 DEF SameData, Advanced
<1>12. entries(G) = entries(H) /\ known(G) = known(H) /\ Listed(G)
  <2>1. \A i \in Slots : G.neighbors[i].ipaddr = H.neighbors[i].ipaddr
    BY <1>11 DEF Advanced
  <2> QED BY <1>3, <1>7, <1>10, <2>1, SameListed
<1>13. Marked(G, H.hello_timers)
  <2>1. H.hello_timers \subseteq known(G)
    BY <1>12 DEF Listed
  <2>2. \A i \in Slots : G.neighbors[i].ipaddr = U.neighbors[i].ipaddr
    BY <1>10 DEF SameData
  <2> QED BY <1>3, <1>7, <1>8, <1>10, <1>12, <2>1, <2>2 DEF Marked
<1>14. U.hello_tail = H.hello_tail + 1 /\ Sends(H, G, heard)
  BY <1>3, <1>7, <1>10, <1>11, <1>12, <1>13 DEF Sends
<1> QED BY <1>14 DEF C, A, U, G

---------------------------------------------------------------------------
(* hello_process and rrep_ack_process *)

\* A host that is unknown gets the entry behind the last, with what it holds.
LEMMA AddStep ==
  ASSUME NEW H \in Host, Listed(H), NEW d \in Hosts
  PROVE  LET j == index(H, {d})
             G == add_neighbor(H, d)
         IN  /\ G \in Host /\ j \in Slots
             /\ entries(G) = entries(H) \cup {j} /\ known(G) = known(H) \cup {d} /\ Listed(G)
             /\ G.hello_head = H.hello_head /\ G.hello_tail = H.hello_tail
             /\ G.hello_timers = H.hello_timers /\ G.stability = H.stability
             /\ G.neighbors[j] = [H.neighbors[j] EXCEPT !.ipaddr = d]
             /\ \A i \in Slots \ {j} : G.neighbors[i] = H.neighbors[i]
             /\ d \in known(H) => G.neighbor_num = H.neighbor_num
<1> DEFINE j == index(H, {d})
           num == IF j = H.neighbor_num THEN H.neighbor_num + 1 ELSE H.neighbor_num
           near == [H.neighbors EXCEPT ![j] = [H.neighbors[j] EXCEPT !.ipaddr = d]]
           G == add_neighbor(H, d)
<1>1. H.neighbor_num \in Slots /\ H.neighbor_num \in Nat /\ entries(H) \subseteq Slots
      /\ entries(H) = 0 .. H.neighbor_num - 1
  BY EntriesBound, Constants DEF Host, entries
<1>2. /\ d \in known(H) => j \in entries(H) /\ H.neighbors[j].ipaddr = d /\ j # H.neighbor_num
      /\ d \notin known(H) => j = H.neighbor_num /\ j \notin entries(H)
      /\ j \in Slots
  <2>1. d \in known(H) => j \in entries(H) /\ H.neighbors[j].ipaddr = d
    BY IndexKnown
  <2>2. d \notin known(H) => j = H.neighbor_num
    BY IndexKnown
  <2> HIDE DEF j
  <2> QED BY <1>1, <2>1, <2>2
<1>3. near \in [Slots -> Entry] /\ num \in 0 .. MAX_NEIGHBORS
  <2>1. [H.neighbors[j] EXCEPT !.ipaddr = d] \in Entry
    <3>1. H.neighbors[j] \in Entry
      BY <1>2 DEF Host
    <3> HIDE DEF j
    <3> QED BY <3>1 DEF Entry
  <2>2. num \in 0 .. MAX_NEIGHBORS
    BY <1>1, Constants DEF Slots
  <2> QED BY <1>2, <2>1, <2>2 DEF Host
<1>4. G = [H EXCEPT !.neighbors = near, !.neighbor_num = num]
  BY DEF add_neighbor, Host
<1>5. /\ near[j] = [H.neighbors[j] EXCEPT !.ipaddr = d]
      /\ \A i \in Slots \ {j} : near[i] = H.neighbors[i]
  BY <1>2 DEF Host
<1>6. H.neighbors[j] \in Entry => [H.neighbors[j] EXCEPT !.ipaddr = d].ipaddr = d
  BY DEF Entry
<1>7. \A i \in Slots : near[i].ipaddr = IF i = j THEN d ELSE H.neighbors[i].ipaddr
  BY <1>2, <1>5, <1>6 DEF Host
<1>8. num \in Nat /\ 0 .. num - 1 = entries(H) \cup {j}
  <2> HIDE DEF j
  <2>1. CASE j = H.neighbor_num
    BY <1>1, <2>1
  <2>2. CASE j # H.neighbor_num
    <3>1. j \in entries(H)
      BY <1>2, <2>2
    <3> QED BY <1>1, <2>2, <3>1
  <2> QED BY <2>1, <2>2
<1>9. d \in known(H) => num = H.neighbor_num
  BY <1>2
<1> HIDE DEF near, num
<1>10. G \in Host
  BY <1>3, <1>4 DEF Host
<1>11. /\ G.neighbors = near /\ G.neighbor_num = num
       /\ G.hello_head = H.hello_head /\ G.hello_tail = H.hello_tail
       /\ G.hello_timers = H.hello_timers /\ G.stability = H.stability
  BY <1>4 DEF Host
<1> HIDE DEF G
<1>12. entries(G) = entries(H) \cup {j}
  BY <1>8, <1>11 DEF entries
<1>13. \A i \in entries(H) : i # j => H.neighbors[i].ipaddr # d
  BY <1>2 DEF Listed, known
<1>14. known(G) = known(H) \cup {d}
  <2>1. \A i \in entries(H) : i # j => near[i].ipaddr = H.neighbors[i].ipaddr
    BY <1>1, <1>7
  <2>2. near[j].ipaddr = d
    BY <1>2, <1>7
  <2>3. j \in entries(H) => H.neighbors[j].ipaddr = d
    BY <1>2
  <2> HIDE DEF j
  <2> QED BY <1>11, <1>12, <2>1, <2>2, <2>3 DEF known
<1>15. Listed(G)
  <2>1. \A i \in entries(G) : G.neighbors[i].ipaddr = IF i = j THEN d ELSE H.neighbors[i].ipaddr
    BY <1>1, <1>2, <1>7, <1>11, <1>12
  <2> HIDE DEF j
  <2>2. \A i, k \in entries(G) : G.neighbors[i].ipaddr = G.neighbors[k].ipaddr => i = k
    BY <1>12, <1>13, <2>1 DEF Listed
  <2>3. \A i \in entries(G) : G.neighbors[i].ipaddr \in Hosts
    BY <1>12, <2>1 DEF Listed
  <2>4. G.hello_timers \subseteq known(G)
    BY <1>11, <1>14 DEF Listed
  <2> QED BY <2>2, <2>3, <2>4 DEF Listed
<1> QED BY <1>2, <1>5, <1>9, <1>10, <1>11, <1>12, <1>14, <1>15 DEF G

\* What hello_process does to the entry of the host it heard.
CountedIn(N, M, d, c) ==
  /\ M.ipaddr = d /\ M.isValid = N.isValid
  /\ \A b \in Channels :
       M.self_received[b] = IF b = c THEN N.self_received[b] + 1 ELSE N.self_received[b]
  /\ M.remote_received = N.remote_received /\ M.hello_sequence = N.hello_sequence

\* The record of a host that processed a HELLO of host d.
Hears(H, G, d, c, heard) ==
  LET j == index(H, {d})
  IN  /\ G \in Host /\ j \in Slots
      /\ entries(G) = entries(H) \cup {j} /\ known(G) = known(H) \cup {d}
      /\ Listed(G) /\ Marked(G, heard)
      /\ G.hello_head = H.hello_head /\ G.hello_tail = H.hello_tail
      /\ G.stability = H.stability
      /\ CountedIn(H.neighbors[j], G.neighbors[j], d, c)
      /\ \A i \in Slots \ {j} : G.neighbors[i] = H.neighbors[i]
      /\ index(G, {d, 0}) = j

\* A HELLO is counted in the entry of its sender, which was added if need be.
LEMMA ProcessStep ==
  ASSUME 0 \notin Hosts, NEW H \in Host, Listed(H), NEW heard, Marked(H, heard),
         NEW d \in Hosts, NEW c \in Channels, NEW sent \in Nat
  PROVE  Hears(H, count_hello(add_neighbor(H, d), d, c, sent), d, c, heard)
<1> DEFINE j == index(H, {d})
           A == add_neighbor(H, d)
           N == A.neighbors[j]
           new == counted(N, d, c, sent)
           near == [A.neighbors EXCEPT ![j] = new]
           G == count_hello(A, d, c, sent)
<1>1. /\ A \in Host /\ j \in Slots
      /\ entries(A) = entries(H) \cup {j} /\ known(A) = known(H) \cup {d} /\ Listed(A)
      /\ A.hello_head = H.hello_head /\ A.hello_tail = H.hello_tail
      /\ A.hello_timers = H.hello_timers /\ A.stability = H.stability
      /\ A.neighbors[j] = [H.neighbors[j] EXCEPT !.ipaddr = d]
      /\ \A i \in Slots \ {j} : A.neighbors[i] = H.neighbors[i]
  BY AddStep
<1> HIDE DEF A
<1>2. H.neighbors[j] \in Entry /\ N \in Entry /\ N.ipaddr = d /\ j \in entries(A)
  <2>1. H.neighbors[j] \in Entry /\ A.neighbors[j] \in Entry
    BY <1>1 DEF Host
  <2>2. [H.neighbors[j] EXCEPT !.ipaddr = d].ipaddr = d
    BY <2>1 DEF Entry
  <2> QED BY <1>1, <2>1, <2>2
<1>3. ASSUME NEW K \in Host, Listed(K), j \in entries(K), K.neighbors[j].ipaddr = d
      PROVE  index(K, {d, 0}) = j
  <2>1. index(K, {d, 0}) \in entries(K) /\ K.neighbors[index(K, {d, 0})].ipaddr \in {d, 0}
    BY <1>3, IndexFound
  <2>2. K.neighbors[index(K, {d, 0})].ipaddr \in Hosts
    BY <1>3, <2>1 DEF Listed
  <2> HIDE DEF j
  <2> QED BY <1>3, <2>1, <2>2 DEF Listed
<1>4. index(A, {d, 0}) = j
  BY <1>1, <1>2, <1>3
<1> HIDE DEF j
<1>5. G = [A EXCEPT !.neighbors = near, !.hello_timers = A.hello_timers \cup {d}]
  <2>1. G = [A EXCEPT !.neighbors[j] = counted(@, d, c, sent), !.hello_timers = @ \cup {d}]
    BY <1>4 DEF count_hello
  <2> QED BY <1>1, <2>1 DEF Host
<1>6. new \in Entry /\ CountedIn(N, new, d, c)
  <2>1. N.self_received \in [Channels -> Nat]
    BY <1>2 DEF Entry
  <2> DEFINE rcvd == [N.self_received EXCEPT ![c] = N.self_received[c] + 1]
  <2>2. /\ rcvd \in [Channels -> Nat]
        /\ \A b \in Channels :
             rcvd[b] = IF b = c THEN N.self_received[b] + 1 ELSE N.self_received[b]
    BY <2>1
  <2>3. new = [N EXCEPT !.ipaddr = d, !.self_received = rcvd, !.remote_sent = sent]
    <3>1. new = [N EXCEPT !.ipaddr = d, !.self_received[c] = @ + 1, !.remote_sent = sent]
      BY DEF counted
    <3> HIDE DEF new, N
    <3> QED BY <1>2, <3>1 DEF Entry
  <2> HIDE DEF rcvd, new, N
  <2>4. /\ new \in Entry /\ new.self_received = rcvd /\ new.ipaddr = d
        /\ new.isValid = N.isValid /\ new.remote_received = N.remote_received
        /\ new.hello_sequence = N.hello_sequence
    BY <1>2, <2>2, <2>3 DEF Entry
  <2> QED BY <2>2, <2>4 DEF CountedIn
<1> HIDE DEF new
<1>7. near \in [Slots -> Entry] /\ near[j] = new /\ \A i \in Slots \ {j} : near[i] = A.neighbors[i]
  BY <1>1, <1>6 DEF Host
<1> HIDE DEF near
<1>8. G \in Host
  <2> DEFINE T == A.hello_timers \cup {d}
  <2>1. T \in SUBSET Hosts
    BY <1>1 DEF Host
  <2> HIDE DEF T
  <2>2. [A EXCEPT !.neighbors = near, !.hello_timers = T] \in Host
    BY <1>1, <1>7, <2>1 DEF Host
  <2> QED BY <1>5, <2>2 DEF T
<1>9. /\ G.neighbors = near /\ G.neighbor_num = A.neighbor_num
      /\ G.hello_head = H.hello_head /\ G.hello_tail = H.hello_tail
      /\ G.stability = H.stability /\ G.hello_timers = H.hello_timers \cup {d}
  BY <1>1, <1>5 DEF Host
<1> HIDE DEF G
<1>10. \A i \in Slots : G.neighbors[i].ipaddr = A.neighbors[i].ipaddr
  BY <1>2, <1>6, <1>7, <1>9 DEF CountedIn
<1>11. entries(G) = entries(A) /\ known(G) = known(A)
  <2>1. entries(G) = entries(A) /\ entries(A) \subseteq Slots
    BY <1>1, <1>9, EntriesBound DEF entries
  <2> QED BY <1>10, <2>1 DEF known
<1>12. Listed(G)
  <2>1. G.hello_timers \subseteq known(G)
    BY <1>1, <1>9, <1>11 DEF Listed
  <2>2. entries(A) \subseteq Slots
    BY <1>1, EntriesBound
  <2> QED BY <1>1, <1>10, <1>11, <2>1, <2>2 DEF Listed
<1>13. CountedIn(H.neighbors[j], G.neighbors[j], d, c)
  <2>1. [H.neighbors[j] EXCEPT !.ipaddr = d].isValid = H.neighbors[j].isValid
        /\ [H.neighbors[j] EXCEPT !.ipaddr = d].self_received = H.neighbors[j].self_received
        /\ [H.neighbors[j] EXCEPT !.ipaddr = d].remote_received = H.neighbors[j].remote_received
        /\ [H.neighbors[j] EXCEPT !.ipaddr = d].hello_sequence = H.neighbors[j].hello_sequence
    BY <1>2 DEF Entry
  <2> QED BY <1>1, <1>6, <1>7, <1>9, <2>1 DEF CountedIn
<1>14. Marked(G, heard)
  <2>1. \A i \in Slots : G.neighbors[i].isValid = H.neighbors[i].isValid
    BY <1>1, <1>7, <1>9, <1>13 DEF CountedIn
  <2>2. \A i \in Slots \ {j} : G.neighbors[i] = H.neighbors[i]
    BY <1>1, <1>7, <1>9
  <2>3. G.neighbors[j].ipaddr = d
    BY <1>13 DEF CountedIn
  <2>4. H.neighbors[j].isValid <=> d \in heard
    <3>1. CASE d \in known(H)
      <4>1. j \in entries(H) /\ H.neighbors[j].ipaddr = d
        BY <3>1, IndexKnown DEF j
      <4> QED BY <1>1, <4>1 DEF Marked
    <3>2. CASE d \notin known(H)
      <4>1. j \notin entries(H)
        <5>1. j = H.neighbor_num /\ H.neighbor_num \in Nat
          BY <3>2, IndexKnown, Constants DEF j, Host
        <5> QED BY <5>1 DEF entries
      <4> QED BY <1>1, <3>2, <4>1 DEF Marked
    <3> QED BY <3>1, <3>2
  <2>5. heard \subseteq known(G)
    BY <1>1, <1>11 DEF Marked
  <2> QED BY <1>1, <1>11, <2>1, <2>2, <2>3, <2>4, <2>5 DEF Marked
<1>15. index(G, {d, 0}) = j
  <2>1. j \in entries(G) /\ G.neighbors[j].ipaddr = d
    BY <1>1, <1>11, <1>13 DEF CountedIn
  <2> QED BY <1>3, <1>8, <1>12, <2>1
<1>16. Hears(H, G, d, c, heard)
  BY <1>1, <1>7, <1>8, <1>9, <1>11, <1>12, <1>13, <1>14, <1>15 DEF Hears, j
<1> QED BY <1>16 DEF G, A

\* What an acknowledgement does to the entry it is counted in.
AckedIn(H, N, M, c, ack) ==
  /\ M.ipaddr = N.ipaddr /\ M.isValid = N.isValid /\ M.self_received = N.self_received
  /\ \A b \in Channels :
       M.remote_received[b] = IF b = c THEN ack.hello_received ELSE N.remote_received[b]
  /\ \A b \in Channels, k \in Ring :
       M.hello_sequence[b][k] =
         IF b = c /\ k = slot(ack.hello_index) /\ ack.hello_index >= H.hello_head
         THEN 1 ELSE N.hello_sequence[b][k]

\* The record of a host that processed an acknowledgement of host src.
Takes(H, G, src, c, ack, heard) ==
  LET j == index(H, {src})
  IN  /\ G \in Host /\ j \in Slots
      /\ entries(G) = entries(H) /\ known(G) = known(H)
      /\ Listed(G) /\ Marked(G, heard)
      /\ G.hello_head = H.hello_head /\ G.hello_tail = H.hello_tail
      /\ G.stability = H.stability
      /\ AckedIn(H, H.neighbors[j], G.neighbors[j], c, ack)
      /\ \A i \in Slots \ {j} : G.neighbors[i] = H.neighbors[i]

\* An acknowledgement changes the entry it is counted in and nothing else.
LEMMA AckStep ==
  ASSUME NEW H \in Host, Listed(H), NEW heard, Marked(H, heard),
         NEW src, NEW c \in Channels, NEW ack \in Ack
  PROVE  Takes(H, count_ack(H, src, c, ack), src, c, ack, heard)
<1> DEFINE j == index(H, {src})
           k == slot(ack.hello_index)
           N == [H.neighbors[j] EXCEPT !.remote_received[c] = ack.hello_received]
           noted == [N EXCEPT !.host_stability[k] = ack.host_stability,
                              !.hello_sequence[c][k] = 1]
           new == IF in_window(H, ack.hello_index) THEN noted ELSE N
           near == [H.neighbors EXCEPT ![j] = new]
           G == count_ack(H, src, c, ack)
<1>1. /\ ack.hello_index \in Nat /\ ack.hello_received \in 0 .. BYTE - 1
      /\ ack.host_stability \in {0, 1} /\ k \in Ring /\ H.hello_head \in Nat
  <2>1. ack.hello_index \in 0 .. BYTE - 1 /\ ack.hello_received \in 0 .. BYTE - 1 /\ ack.host_stability \in {0, 1}
    BY DEF Ack
  <2>2. ack.hello_index \in Nat
    BY <2>1, Constants
  <2> QED BY <2>1, <2>2, SlotType DEF Host
<1>2. j \in Slots
  <2>1. j \in 0 .. H.neighbor_num /\ H.neighbor_num \in Slots
    BY IndexFound, EntriesBound
  <2> QED BY <2>1, Constants DEF Slots
<1>3. G = [H EXCEPT !.neighbors = near]
  <2>1. G = [H EXCEPT !.neighbors[j] = new]
    BY DEF count_ack
  <2> HIDE DEF j, new, G
  <2> QED BY <2>1 DEF Host
<1> HIDE DEF j, k
<1>4. H.neighbors[j] \in Entry
  BY <1>2 DEF Host
<1>5. N \in Entry /\ AckedIn(H, H.neighbors[j], new, c, ack) /\ new \in Entry
  <2> DEFINE E == H.neighbors[j]
             rem == [E.remote_received EXCEPT ![c] = ack.hello_received]
             stab == [E.host_stability EXCEPT ![k] = ack.host_stability]
             ring == [E.hello_sequence EXCEPT ![c] = [E.hello_sequence[c] EXCEPT ![k] = 1]]
  <2>1. /\ E.remote_received \in [Channels -> 0 .. BYTE - 1]
        /\ E.host_stability \in [Ring -> {0, 1}]
        /\ E.hello_sequence \in [Channels -> [Ring -> {0, 1}]]
    BY <1>4 DEF Entry
  <2>2. /\ rem \in [Channels -> 0 .. BYTE - 1]
        /\ \A b \in Channels : rem[b] = IF b = c THEN ack.hello_received ELSE E.remote_received[b]
    BY <1>1, <2>1
  <2>3. stab \in [Ring -> {0, 1}]
    BY <1>1, <2>1
  <2>4. /\ ring \in [Channels -> [Ring -> {0, 1}]]
        /\ \A b \in Channels, m \in Ring :
             ring[b][m] = IF b = c /\ m = k THEN 1 ELSE E.hello_sequence[b][m]
    BY <1>1, <2>1
  <2>5. N = [E EXCEPT !.remote_received = rem]
    <3> HIDE DEF j
    <3> QED BY <1>4 DEF Entry
  <2> HIDE DEF rem, E
  <2>6. /\ N \in Entry /\ N.remote_received = rem /\ N.host_stability = E.host_stability
        /\ N.hello_sequence = E.hello_sequence /\ N.ipaddr = E.ipaddr
        /\ N.isValid = E.isValid /\ N.self_received = E.self_received
    <3>1. E \in Entry
      BY <1>4 DEF E
    <3> HIDE DEF N
    <3> QED BY <2>2, <2>5, <3>1 DEF Entry
  <2> HIDE DEF N
  <2>7. noted = [N EXCEPT !.host_stability = stab, !.hello_sequence = ring]
    BY <1>1, <2>1, <2>6 DEF Entry
  <2> HIDE DEF noted, stab, ring
  <2>8. /\ noted \in Entry /\ noted.remote_received = rem
        /\ noted.hello_sequence = ring /\ noted.ipaddr = E.ipaddr
        /\ noted.isValid = E.isValid /\ noted.self_received = E.self_received
    BY <2>3, <2>4, <2>6, <2>7 DEF Entry
  <2>9. CASE ack.hello_index >= H.hello_head
    <3>1. new = noted
      BY <2>9 DEF in_window
    <3> HIDE DEF new
    <3> QED BY <2>2, <2>4, <2>6, <2>8, <2>9, <3>1 DEF AckedIn, E, k
  <2>10. CASE ~(ack.hello_index >= H.hello_head)
    <3>1. new = N
      BY <2>10 DEF in_window
    <3> HIDE DEF new
    <3> QED BY <2>2, <2>6, <2>10, <3>1 DEF AckedIn, E, k
  <2> QED BY <2>9, <2>10
<1> HIDE DEF new
<1>6. near \in [Slots -> Entry] /\ near[j] = new /\ \A i \in Slots \ {j} : near[i] = H.neighbors[i]
  BY <1>2, <1>5 DEF Host
<1> HIDE DEF near
<1>7. G \in Host
  BY <1>3, <1>6 DEF Host
<1>8. /\ G.neighbors = near /\ G.neighbor_num = H.neighbor_num
      /\ G.hello_head = H.hello_head /\ G.hello_tail = H.hello_tail
      /\ G.stability = H.stability /\ G.hello_timers = H.hello_timers
  BY <1>3 DEF Host
<1> HIDE DEF G
<1>9. \A i \in Slots : /\ G.neighbors[i].ipaddr = H.neighbors[i].ipaddr
                       /\ G.neighbors[i].isValid = H.neighbors[i].isValid
  BY <1>5, <1>6, <1>8 DEF AckedIn
<1>10. entries(G) = entries(H) /\ known(G) = known(H) /\ Listed(G)
  BY <1>7, <1>8, <1>9, SameListed
<1>11. Marked(G, heard)
  BY <1>9, <1>10 DEF Marked
<1>12. Takes(H, G, src, c, ack, heard)
  BY <1>2, <1>5, <1>6, <1>7, <1>8, <1>10, <1>11 DEF Takes, j
<1> QED BY <1>12 DEF G

---------------------------------------------------------------------------
(* The entries of every host agree with whom it heard *)

\* The ends and the channel of a link.
LEMMA LinkEnds ==
  ASSUME NEW l \in Links
  PROVE  /\ l[1][1] \in Hosts /\ l[1][2] \in Hosts /\ l[2] \in Channels
         /\ <<l[1][1], l[1][2]>> \in Reach /\ l = <<<<l[1][1], l[1][2]>>, l[2]>>
BY HelloStatsAssumption DEF Links

\* What is on the way is a HELLO or an acknowledgement, also when one is taken off
\* or added.
LEMMA FrameType ==
  ASSUME NEW f \in Hello \cup Ack
  PROVE  /\ f.type = "HELLO" => f \in Hello /\ f.hello_sent \in Nat
         /\ f.type = "ACK" => f \in Ack
BY DEF Hello, Ack

\* At the start nobody is known.
LEMMA InitStats == Init => StatsInv
<1> SUFFICES ASSUME Init PROVE StatsInv
  OBVIOUS
<1>1. neighbor_info \in Entry
  <2>1. \A c \in Channels : <<>> \in Cost
    BY DEF Cost
  <2> QED BY <2>1, Constants DEF neighbor_info, Entry
<1>2. /\ host_info \in Host
      /\ host_info.hello_head = 0 /\ host_info.hello_tail = 0 /\ host_info.neighbor_num = 0
      /\ host_info.hello_timers = {} /\ host_info.stability.neighbor_change = 0
      /\ host_info.neighbors = [i \in Slots |-> neighbor_info]
  <2> DEFINE sta == [neighbor_num |-> 0, neighbor_change |-> 0, isStable |-> 0]
             near == [i \in Slots |-> neighbor_info]
             bits == [k \in Ring |-> 0]
  <2>1. sta \in Stability /\ sta.neighbor_change = 0
    BY DEF Stability
  <2>2. near \in [Slots -> Entry] /\ bits \in [Ring -> {0, 1}]
    BY <1>1
  <2>3. 0 \in 0 .. MAX_NEIGHBORS
    BY Constants
  <2>4. host_info = [hello_head |-> 0, hello_tail |-> 0, neighbor_num |-> 0,
                     neighbors |-> near, stability |-> sta,
                     stability_sequence |-> bits, hello_timers |-> {}]
    BY DEF host_info, Slots
  <2> HIDE DEF sta, near, bits
  <2>5. host_info \in Host
    BY <2>1, <2>2, <2>3, <2>4 DEF Host
  <2> QED BY <2>1, <2>4, <2>5 DEF near
<1>3. StatsType
  <2>1. this_host \in [Hosts -> Host]
    BY <1>2 DEF Init
  <2>2. wire \in [Links -> Seq(Hello \cup Ack)]
    BY DEF Init
  <2> QED BY <2>1, <2>2 DEF Init, StatsType
<1>4. ASSUME NEW h \in Hosts
      PROVE  /\ Listed(this_host[h])
             /\ Marked(this_host[h], was_heard[h][2])
             /\ this_host[h].stability.neighbor_change =
                  Cardinality(differ(was_heard[h][1], was_heard[h][2]))
             /\ this_host[h].hello_tail <= MaxHellos[h]
  <2>1. this_host[h] = host_info /\ was_heard[h][1] = {} /\ was_heard[h][2] = {}
    BY DEF Init
  <2>2. entries(host_info) = {}
    BY <1>2 DEF entries
  <2>3. differ({}, {}) = {} /\ Cardinality({}) = 0
    BY FS_EmptySet DEF differ
  <2>4. ~neighbor_info.isValid
    BY DEF neighbor_info
  <2>5. MaxHellos[h] \in Nat
    BY HelloStatsAssumption
  <2>6. Listed(host_info)
    BY <1>2, <2>2 DEF Listed
  <2>7. Marked(host_info, {})
    BY <1>2, <2>2, <2>4 DEF Marked
  <2> QED BY <1>2, <2>1, <2>3, <2>5, <2>6, <2>7, SMTT(30)
<1> QED BY <1>3, <1>4 DEF StatsInv

HostOK(h, H, heard) ==
  /\ H \in Host /\ Listed(H) /\ heard \in (SUBSET Hosts) \X (SUBSET Hosts)
  /\ Marked(H, heard[2])
  /\ H.stability.neighbor_change = Cardinality(differ(heard[1], heard[2]))
  /\ H.hello_tail <= MaxHellos[h]

\* A step that changes one host and the frames.
LEMMA OneHost ==
  ASSUME StatsInv, NEW h \in Hosts, NEW G, NEW heard, HostOK(h, G, heard),
         this_host' = [this_host EXCEPT ![h] = G],
         was_heard' = [was_heard EXCEPT ![h] = heard],
         wire' \in [Links -> Seq(Hello \cup Ack)],
         acked' \in [Links -> SUBSET Nat],
         received' \in [Links -> Nat]
  PROVE  StatsInv'
<1>1. StatsType'
  BY DEF StatsInv, StatsType, HostOK
<1>2. ASSUME NEW g \in Hosts PROVE HostOK(g, this_host[g], was_heard[g])
  BY DEF StatsInv, StatsType, HostOK
<1>3. ASSUME NEW g \in Hosts PROVE HostOK(g, this_host'[g], was_heard'[g])
  <2>1. /\ this_host'[g] = IF g = h THEN G ELSE this_host[g]
        /\ was_heard'[g] = IF g = h THEN heard ELSE was_heard[g]
    BY DEF StatsInv, StatsType
  <2> QED BY <1>2, <2>1
<1> QED BY <1>1, <1>3 DEF StatsInv, HostOK

\* A frame that is taken off or added leaves a sequence of frames.
LEMMA WireType ==
  ASSUME NEW s \in Seq(Hello \cup Ack)
  PROVE  /\ s # <<>> => Head(s) \in Hello \cup Ack /\ Tail(s) \in Seq(Hello \cup Ack)
         /\ \A f \in Hello \cup Ack : Append(s, f) \in Seq(Hello \cup Ack)
BY HeadTailProperties, AppendProperties

\* hello_send in terms of the record before and after.
LEMMA SendFacts ==
  ASSUME StatsInv, NEW h \in Hosts, hello_send(h)
  PROVE  \E G :
           /\ Sends(this_host[h], G, was_heard[h][2])
           /\ this_host' = [this_host EXCEPT ![h] = G]
           /\ wire' = [l \in Links |->
                        IF l[1][1] = h
                        THEN Append(wire[l], [type |-> "HELLO", hello_sent |-> this_host[h].hello_tail + 1])
                        ELSE wire[l]]
           /\ was_heard' = [was_heard EXCEPT ![h] = <<was_heard[h][2], this_host[h].hello_timers>>]
           /\ acked' = acked /\ received' = received
           /\ this_host[h].hello_tail < MaxHellos[h]
<1> DEFINE H == this_host[h]
           reads == (0 .. H.neighbor_num - 1) \X Channels
           U(beyond, ava, snr) == update_sta_info(advance(update_costs(H, beyond)), ava, snr)
<1>1. H \in Host /\ Listed(H) /\ was_heard[h][2] \in SUBSET Hosts /\ Marked(H, was_heard[h][2])
  BY DEF StatsInv, StatsType
<1>2. PICK beyond \in [reads -> IF ring_full(H) THEN 0 .. stable_beyond(H) ELSE {0}],
           ava \in Idle, snr \in SNRs, order \in SetToSeqs(unlisted(H)) :
        /\ this_host' = [this_host EXCEPT ![h] = update_neighbor_info(U(beyond, ava, snr), order)]
        /\ broadcast(h, [type |-> "HELLO", hello_sent |-> U(beyond, ava, snr).hello_tail])
  BY DEF hello_send
<1>3. beyond \in [reads -> Nat]
  <2>1. IF ring_full(H) THEN 0 .. stable_beyond(H) \subseteq Nat ELSE {0} \subseteq Nat
    OBVIOUS
  <2> HIDE DEF H
  <2> QED BY <2>1
<1> DEFINE V == U(beyond, ava, snr)
           G == update_neighbor_info(V, order)
<1>4. V.hello_tail = H.hello_tail + 1 /\ Sends(H, G, was_heard[h][2])
  <2> HIDE DEF H
  <2> QED BY <1>1, <1>3, SendStep
<1>5. /\ this_host[h].hello_tail < MaxHellos[h]
      /\ was_heard' = [was_heard EXCEPT ![h] = <<was_heard[h][2], this_host[h].hello_timers>>]
      /\ acked' = acked /\ received' = received
  BY DEF hello_send
<1>6. broadcast(h, [type |-> "HELLO", hello_sent |-> H.hello_tail + 1])
  BY <1>2, <1>4
<1>7. wire' = [l \in Links |->
                 IF l[1][1] = h
                 THEN Append(wire[l], [type |-> "HELLO", hello_sent |-> this_host[h].hello_tail + 1])
                 ELSE wire[l]]
  BY <1>6 DEF broadcast
<1>8. this_host' = [this_host EXCEPT ![h] = G]
  BY <1>2
<1> HIDE DEF G, U, V
<1> QED BY <1>4, <1>5, <1>7, <1>8

\* hello_process in terms of the record before and after.
LEMMA ProcessFacts ==
  ASSUME 0 \notin Hosts, StatsInv, NEW l \in Links, hello_process(l)
  PROVE  \E G :
           /\ wire[l] # <<>> /\ Head(wire[l]).type = "HELLO" /\ Head(wire[l]).hello_sent \in Nat
           /\ Hears(this_host[l[1][2]], G, l[1][1], l[2], was_heard[l[1][2]][2])
           /\ this_host' = [this_host EXCEPT ![l[1][2]] = G]
           /\ wire' = [[wire EXCEPT ![l] = Tail(@)] EXCEPT
                         ![back(l)] = Append(@, hello_ack(G, l[1][1], l[2], Head(wire[l]).hello_sent))]
           /\ received' = [received EXCEPT ![l] = @ + 1]
           /\ acked' = acked /\ was_heard' = was_heard
<1> DEFINE from == l[1][1]
           to == l[1][2]
           sent == Head(wire[l]).hello_sent
           G == count_hello(add_neighbor(this_host[to], from), from, l[2], sent)
<1>1. from \in Hosts /\ to \in Hosts /\ l[2] \in Channels
  BY LinkEnds
<1>2. this_host[to] \in Host /\ Listed(this_host[to]) /\ Marked(this_host[to], was_heard[to][2])
  BY <1>1 DEF StatsInv, StatsType
<1>3. /\ wire[l] # <<>> /\ Head(wire[l]).type = "HELLO"
      /\ this_host' = [this_host EXCEPT ![to] = G]
      /\ wire' = [[wire EXCEPT ![l] = Tail(@)] EXCEPT
                    ![back(l)] = Append(@, hello_ack(G, from, l[2], sent))]
      /\ received' = [received EXCEPT ![l] = @ + 1]
      /\ acked' = acked /\ was_heard' = was_heard
  BY DEF hello_process, arrives
<1>4. sent \in Nat
  <2>1. wire[l] \in Seq(Hello \cup Ack)
    BY DEF StatsInv, StatsType
  <2> QED BY <1>3, <2>1, WireType, FrameType
<1> HIDE DEF from, to, sent
<1>5. Hears(this_host[to], G, from, l[2], was_heard[to][2])
  BY <1>1, <1>2, <1>4, ProcessStep
<1> HIDE DEF G
<1> QED BY <1>3, <1>4, <1>5 DEF from, to, sent

\* rrep_ack_process in terms of the record before and after.
LEMMA AckFacts ==
  ASSUME StatsInv, NEW l \in Links, rrep_ack_process(l)
  PROVE  \E G :
           /\ wire[l] # <<>> /\ Head(wire[l]) \in Ack
           /\ Takes(this_host[l[1][2]], G, l[1][1], l[2], Head(wire[l]), was_heard[l[1][2]][2])
           /\ this_host' = [this_host EXCEPT ![l[1][2]] = G]
           /\ wire' = [wire EXCEPT ![l] = Tail(@)]
           /\ acked' = [acked EXCEPT ![back(l)] = @ \cup {Head(wire[l]).of}]
           /\ received' = received /\ was_heard' = was_heard
<1> DEFINE from == l[1][1]
           to == l[1][2]
           ack == Head(wire[l])
           G == count_ack(this_host[to], from, l[2], ack)
<1>1. from \in Hosts /\ to \in Hosts /\ l[2] \in Channels
  BY LinkEnds
<1>2. this_host[to] \in Host /\ Listed(this_host[to]) /\ Marked(this_host[to], was_heard[to][2])
  BY <1>1 DEF StatsInv, StatsType
<1>3. /\ wire[l] # <<>> /\ ack.type = "ACK"
      /\ this_host' = [this_host EXCEPT ![to] = G]
      /\ wire' = [wire EXCEPT ![l] = Tail(@)]
      /\ acked' = [acked EXCEPT ![back(l)] = @ \cup {ack.of}]
      /\ received' = received /\ was_heard' = was_heard
  BY DEF rrep_ack_process, arrives
<1>4. ack \in Ack
  <2>1. wire[l] \in Seq(Hello \cup Ack)
    BY DEF StatsInv, StatsType
  <2> QED BY <1>3, <2>1, WireType, FrameType
<1> HIDE DEF from, to, ack
<1>5. Takes(this_host[to], G, from, l[2], ack, was_heard[to][2])
  BY <1>1, <1>2, <1>4, AckStep
<1> HIDE DEF G
<1> QED BY <1>3, <1>4, <1>5 DEF from, to, ack

\* A HELLO is sent: the marks are those of the hosts being heard now.
LEMMA SendStats ==
  ASSUME StatsInv, NEW h \in Hosts, hello_send(h)
  PROVE  StatsInv'
<1> DEFINE H == this_host[h]
           heard == <<was_heard[h][2], H.hello_timers>>
           msg == [type |-> "HELLO", hello_sent |-> H.hello_tail + 1]
<1>1. PICK G :
        /\ Sends(H, G, was_heard[h][2])
        /\ this_host' = [this_host EXCEPT ![h] = G]
        /\ wire' = [l \in Links |-> IF l[1][1] = h THEN Append(wire[l], msg) ELSE wire[l]]
        /\ was_heard' = [was_heard EXCEPT ![h] = heard]
        /\ acked' = acked /\ received' = received
        /\ H.hello_tail < MaxHellos[h]
  BY SendFacts
<1>2. H \in Host /\ was_heard[h][2] \in SUBSET Hosts /\ MaxHellos[h] \in Nat
  BY HelloStatsAssumption DEF StatsInv, StatsType
<1>3. H.hello_tail \in Nat /\ H.hello_timers \in SUBSET Hosts
  BY <1>2 DEF Host
<1>4. HostOK(h, G, heard)
  <2>1. heard[1] = was_heard[h][2] /\ heard[2] = H.hello_timers /\ heard \in (SUBSET Hosts) \X (SUBSET Hosts)
    BY <1>2, <1>3
  <2> HIDE DEF heard, H
  <2>2. G.hello_tail <= MaxHellos[h]
    BY <1>1, <1>2, <1>3 DEF Sends
  <2> QED BY <1>1, <2>1, <2>2 DEF HostOK, Sends
<1>5. msg \in Hello \cup Ack
  BY <1>3 DEF Hello
<1> HIDE DEF msg
<1>6. wire' \in [Links -> Seq(Hello \cup Ack)]
  BY <1>1, <1>5, WireType DEF StatsInv, StatsType
<1>7. acked' \in [Links -> SUBSET Nat] /\ received' \in [Links -> Nat]
  BY <1>1 DEF StatsInv, StatsType
<1> HIDE DEF H, heard
<1> QED BY <1>1, <1>4, <1>6, <1>7, OneHost

\* An acknowledgement says what was counted, in the eight bits of its fields.
LEMMA AckSent ==
  ASSUME NEW G \in Host, NEW d, NEW c \in Channels, NEW sent \in Nat, index(G, {d, 0}) \in Slots
  PROVE  /\ hello_ack(G, d, c, sent) \in Ack
         /\ hello_ack(G, d, c, sent).type = "ACK"
         /\ hello_ack(G, d, c, sent).of = sent
         /\ hello_ack(G, d, c, sent).hello_index = sent % BYTE
         /\ hello_ack(G, d, c, sent).hello_received <=
              G.neighbors[index(G, {d, 0})].self_received[c]
<1> DEFINE n == G.neighbors[index(G, {d, 0})].self_received[c]
           f == hello_ack(G, d, c, sent)
<1>1. n \in Nat
  <2>1. G.neighbors[index(G, {d, 0})] \in Entry
    BY DEF Host
  <2> QED BY <2>1 DEF Entry
<1>2. G.stability.isStable \in {0, 1}
  BY DEF Host, Stability
<1> HIDE DEF n
<1>3. n % BYTE \in 0 .. BYTE - 1 /\ n % BYTE <= n /\ sent % BYTE \in 0 .. BYTE - 1
  <2>1. BYTE \in Nat /\ BYTE > 0
    BY Constants
  <2>2. n % BYTE \in 0 .. BYTE - 1 /\ sent % BYTE \in 0 .. BYTE - 1
    BY <1>1, <2>1
  <2>3. n = BYTE * (n \div BYTE) + (n % BYTE) /\ n \div BYTE \in Int
    BY <1>1, <2>1
  <2>4. n \div BYTE >= 0
    BY <1>1, <2>1
  <2>5. BYTE * (n \div BYTE) >= 0
    BY <2>1, <2>3, <2>4
  <2> QED BY <1>1, <2>1, <2>2, <2>3, <2>5
<1>4. f = [type |-> "ACK", hello_index |-> sent % BYTE, hello_received |-> n % BYTE,
           host_stability |-> G.stability.isStable, of |-> sent]
  BY DEF hello_ack, n
<1> HIDE DEF f
<1>5. f \in Ack
  BY <1>2, <1>3, <1>4 DEF Ack
<1>6. f.type = "ACK" /\ f.of = sent /\ f.hello_index = sent % BYTE /\ f.hello_received = n % BYTE
  BY <1>4
<1> QED BY <1>3, <1>5, <1>6 DEF f, n

\* A HELLO arrives: its sender has an entry, and is being heard.
LEMMA ProcessStats ==
  ASSUME 0 \notin Hosts, StatsInv, NEW l \in Links, hello_process(l)
  PROVE  StatsInv'
<1> DEFINE from == l[1][1]
           to == l[1][2]
           sent == Head(wire[l]).hello_sent
           H == this_host[to]
<1>1. from \in Hosts /\ to \in Hosts /\ l[2] \in Channels
  BY LinkEnds
<1>2. PICK G :
        /\ wire[l] # <<>> /\ sent \in Nat
        /\ Hears(H, G, from, l[2], was_heard[to][2])
        /\ this_host' = [this_host EXCEPT ![to] = G]
        /\ wire' = [[wire EXCEPT ![l] = Tail(@)] EXCEPT
                      ![back(l)] = Append(@, hello_ack(G, from, l[2], sent))]
        /\ received' = [received EXCEPT ![l] = @ + 1]
        /\ acked' = acked /\ was_heard' = was_heard
  BY ProcessFacts
<1> HIDE DEF from, sent
<1>3. HostOK(to, H, was_heard[to])
  BY <1>1 DEF StatsInv, StatsType, HostOK
<1>4. HostOK(to, G, was_heard[to])
  <2> HIDE DEF H, to
  <2> QED BY <1>2, <1>3 DEF HostOK, Hears
<1>5. hello_ack(G, from, l[2], sent) \in Hello \cup Ack
  <2>1. G \in Host /\ index(G, {from, 0}) \in Slots
    BY <1>2 DEF Hears
  <2> QED BY <1>1, <1>2, <2>1, AckSent
<1>6. wire' \in [Links -> Seq(Hello \cup Ack)]
  <2> DEFINE W == [wire EXCEPT ![l] = Tail(@)]
             f == hello_ack(G, from, l[2], sent)
  <2>1. wire \in [Links -> Seq(Hello \cup Ack)]
    BY DEF StatsInv, StatsType
  <2>2. W \in [Links -> Seq(Hello \cup Ack)]
    BY <1>2, <2>1, WireType
  <2>3. wire' = [W EXCEPT ![back(l)] = Append(@, f)]
    BY <1>2
  <2> HIDE DEF W, f
  <2>4. back(l) \in Links => Append(W[back(l)], f) \in Seq(Hello \cup Ack)
    BY <1>5, <2>2, WireType DEF f
  <2> QED BY <2>2, <2>3, <2>4
<1>7. acked' \in [Links -> SUBSET Nat] /\ received' \in [Links -> Nat]
  BY <1>2 DEF StatsInv, StatsType
<1>8. was_heard' = [was_heard EXCEPT ![to] = was_heard[to]]
  BY <1>1, <1>2 DEF StatsInv, StatsType
<1> HIDE DEF H, to
<1> QED BY <1>1, <1>2, <1>4, <1>6, <1>7, <1>8, OneHost

\* An acknowledgement arrives: no entry is added or marked.
LEMMA AckStats ==
  ASSUME StatsInv, NEW l \in Links, rrep_ack_process(l)
  PROVE  StatsInv'
<1> DEFINE from == l[1][1]
           to == l[1][2]
           ack == Head(wire[l])
           H == this_host[to]
<1>1. from \in Hosts /\ to \in Hosts /\ l[2] \in Channels
  BY LinkEnds
<1>2. PICK G :
        /\ wire[l] # <<>> /\ ack \in Ack
        /\ Takes(H, G, from, l[2], ack, was_heard[to][2])
        /\ this_host' = [this_host EXCEPT ![to] = G]
        /\ wire' = [wire EXCEPT ![l] = Tail(@)]
        /\ acked' = [acked EXCEPT ![back(l)] = @ \cup {ack.of}]
        /\ received' = received /\ was_heard' = was_heard
  BY AckFacts
<1> HIDE DEF from, ack
<1>3. HostOK(to, H, was_heard[to])
  BY <1>1 DEF StatsInv, StatsType, HostOK
<1>4. HostOK(to, G, was_heard[to])
  <2> HIDE DEF H, to
  <2> QED BY <1>2, <1>3 DEF HostOK, Takes
<1>5. wire' \in [Links -> Seq(Hello \cup Ack)]
  BY <1>2, WireType DEF StatsInv, StatsType
<1>6. acked' \in [Links -> SUBSET Nat] /\ received' \in [Links -> Nat]
  <2>1. ack.of \in Nat
    BY <1>2 DEF Ack
  <2>2. acked \in [Links -> SUBSET Nat] /\ received \in [Links -> Nat]
    BY DEF StatsInv, StatsType
  <2> QED BY <1>2, <2>1, <2>2
<1>7. was_heard' = [was_heard EXCEPT ![to] = was_heard[to]]
  BY <1>1, <1>2 DEF StatsInv, StatsType
<1> HIDE DEF H, to
<1> QED BY <1>1, <1>2, <1>4, <1>5, <1>6, <1>7, OneHost

\* The record of a host one of whose timers stops.
LEMMA TimeoutStep ==
  ASSUME NEW H \in Host, Listed(H), NEW heard, Marked(H, heard), NEW d
  PROVE  LET G == [H EXCEPT !.hello_timers = @ \ {d}]
         IN  /\ G \in Host /\ Listed(G) /\ Marked(G, heard)
             /\ G.neighbors = H.neighbors /\ G.neighbor_num = H.neighbor_num
             /\ G.hello_head = H.hello_head /\ G.hello_tail = H.hello_tail
             /\ G.stability = H.stability
<1> DEFINE T == H.hello_timers \ {d}
           G == [H EXCEPT !.hello_timers = T]
<1>1. T \in SUBSET Hosts /\ T \subseteq H.hello_timers
  BY DEF Host
<1> HIDE DEF T
<1>2. /\ G \in Host /\ G.neighbors = H.neighbors /\ G.neighbor_num = H.neighbor_num
      /\ G.hello_head = H.hello_head /\ G.hello_tail = H.hello_tail
      /\ G.stability = H.stability /\ G.hello_timers = T
  BY <1>1 DEF Host
<1> HIDE DEF G
<1>3. entries(G) = entries(H) /\ known(G) = known(H)
  BY <1>2 DEF entries, known
<1>4. Listed(G) /\ Marked(G, heard)
  BY <1>1, <1>2, <1>3 DEF Listed, Marked
<1> QED BY <1>2, <1>4 DEF G, T

\* A hello timer stops: the marks follow only with the next HELLO.
LEMMA TimeoutStats ==
  ASSUME StatsInv, NEW h \in Hosts, NEW d, hello_timeout(h, d)
  PROVE  StatsInv'
<1> DEFINE H == this_host[h]
           G == [H EXCEPT !.hello_timers = @ \ {d}]
<1>1. HostOK(h, H, was_heard[h])
  BY DEF StatsInv, StatsType, HostOK
<1>2. this_host' = [this_host EXCEPT ![h] = G]
  BY DEF hello_timeout, StatsInv, StatsType
<1> HIDE DEF H
<1>3. HostOK(h, G, was_heard[h])
  BY <1>1, TimeoutStep DEF HostOK
<1> HIDE DEF G
<1>4. was_heard' = [was_heard EXCEPT ![h] = was_heard[h]] /\ wire' = wire /\ acked' = acked /\ received' = received
  BY DEF hello_timeout, history, StatsInv, StatsType
<1> QED BY <1>2, <1>3, <1>4, OneHost DEF StatsInv, StatsType

\* A frame is lost: the hosts notice nothing.
LEMMA LoseStats ==
  ASSUME StatsInv, NEW l \in Links, Lose(l)
  PROVE  StatsInv'
<1>1. this_host' = this_host /\ was_heard' = was_heard /\ acked' = acked /\ received' = received
  BY DEF Lose, history
<1>2. wire' \in [Links -> Seq(Hello \cup Ack)]
  BY WireType DEF Lose, StatsInv, StatsType
<1> QED BY <1>1, <1>2 DEF StatsInv, StatsType

\* Every step keeps the entries in order.
LEMMA NextStats ==
  ASSUME 0 \notin Hosts, StatsInv, [Next]_vars
  PROVE  StatsInv'
<1>1. ASSUME NEW h \in Hosts, hello_send(h) PROVE StatsInv'
  BY <1>1, SendStats
<1>2. ASSUME NEW l \in Links, hello_process(l) PROVE StatsInv'
  BY <1>2, ProcessStats
<1>3. ASSUME NEW l \in Links, rrep_ack_process(l) PROVE StatsInv'
  BY <1>3, AckStats
<1>4. ASSUME NEW l \in Links, Lose(l) PROVE StatsInv'
  BY <1>4, LoseStats
<1>5. ASSUME NEW h \in Hosts, NEW d \in Hosts, hello_timeout(h, d) PROVE StatsInv'
  BY <1>5, TimeoutStats
<1>6. CASE UNCHANGED vars
  BY <1>6 DEF vars, history, StatsInv, StatsType
<1> QED BY <1>1, <1>2, <1>3, <1>4, <1>5, <1>6 DEF Next

\* What the invariant says of the properties the runs check.
LEMMA StatsImplies ==
  ASSUME StatsInv PROVE TypeOK /\ HeardHasEntry /\ NeighborChangeCounted
<1>1. HeardHasEntry
  <2>1. ASSUME NEW h \in Hosts, NEW d \in this_host[h].hello_timers
        PROVE  index(this_host[h], {d}) < this_host[h].neighbor_num
    <3>1. this_host[h] \in Host /\ Listed(this_host[h])
      BY DEF StatsInv, StatsType
    <3>2. d \in known(this_host[h])
      BY <3>1 DEF Listed
    <3>3. index(this_host[h], {d}) \in 0 .. this_host[h].neighbor_num - 1
      BY <3>1, <3>2, IndexKnown DEF entries
    <3>4. this_host[h].neighbor_num \in Nat
      BY <3>1, Constants DEF Host
    <3> QED BY <3>3, <3>4
  <2> QED BY <2>1 DEF HeardHasEntry
<1>2. NeighborChangeCounted
  BY DEF StatsInv, NeighborChangeCounted, differ
<1>3. TypeOK
  <2>1. ASSUME NEW h \in Hosts
        PROVE  LET H == this_host[h]
               IN  /\ H.hello_head \in Nat /\ H.hello_tail \in 0 .. MaxHellos[h]
                   /\ H.neighbor_num \in 0 .. MAX_NEIGHBORS
                   /\ H.hello_timers \subseteq Hosts
                   /\ H.stability_sequence \in [Ring -> {0, 1}]
                   /\ \A i \in DOMAIN H.neighbors :
                        LET N == H.neighbors[i]
                        IN  /\ N.ipaddr \in Hosts \cup {0} /\ N.isValid \in BOOLEAN
                            /\ N.remote_sent \in Nat
                            /\ N.self_received \in [Channels -> Nat]
                            /\ N.remote_received \in [Channels -> 0 .. BYTE - 1]
                            /\ N.hello_sequence \in [Channels -> [Ring -> {0, 1}]]
                            /\ N.host_stability \in [Ring -> {0, 1}]
    <3> DEFINE H == this_host[h]
    <3>1. H \in Host /\ H.hello_tail <= MaxHellos[h] /\ MaxHellos[h] \in Nat
      BY HelloStatsAssumption DEF StatsInv, StatsType
    <3> HIDE DEF H
    <3>2. /\ H.hello_head \in Nat /\ H.hello_tail \in 0 .. MaxHellos[h]
          /\ H.neighbor_num \in 0 .. MAX_NEIGHBORS
          /\ H.hello_timers \subseteq Hosts
          /\ H.stability_sequence \in [Ring -> {0, 1}]
          /\ DOMAIN H.neighbors = Slots
      BY <3>1 DEF Host
    <3>3. ASSUME NEW i \in Slots
          PROVE  LET N == H.neighbors[i]
                 IN  /\ N.ipaddr \in Hosts \cup {0} /\ N.isValid \in BOOLEAN
                     /\ N.remote_sent \in Nat
                     /\ N.self_received \in [Channels -> Nat]
                     /\ N.remote_received \in [Channels -> 0 .. BYTE - 1]
                     /\ N.hello_sequence \in [Channels -> [Ring -> {0, 1}]]
                     /\ N.host_stability \in [Ring -> {0, 1}]
      <4>1. H.neighbors[i] \in Entry
        BY <3>1 DEF Host
      <4> QED BY <4>1 DEF Entry
    <3> QED BY <3>2, <3>3 DEF H
  <2>2. acked \in [Links -> SUBSET Nat] /\ received \in [Links -> Nat]
    BY DEF StatsInv, StatsType
  <2> QED BY <2>1, <2>2 DEF TypeOK
<1> QED BY <1>1, <1>2, <1>3

\* The inductive invariant of the entries, for any hosts, links and losses.
THEOREM StatsInvariance == ASSUME 0 \notin Hosts PROVE Spec => []StatsInv
<1>1. Init => StatsInv
  BY InitStats
<1>2. StatsInv /\ [Next]_vars => StatsInv'
  BY NextStats
<1> QED BY <1>1, <1>2, PTL DEF Spec

\* The record and the histories keep their types; in particular the host never
\* writes behind its array of neighbours.
THEOREM StatsTypeCorrect == ASSUME 0 \notin Hosts PROVE Spec => []TypeOK
<1>1. StatsInv => TypeOK
  BY StatsImplies
<1> QED BY <1>1, StatsInvariance, PTL

\* A neighbour being heard always has an entry.
THEOREM HeardListed == ASSUME 0 \notin Hosts PROVE Spec => []HeardHasEntry
<1>1. StatsInv => HeardHasEntry
  BY StatsImplies
<1> QED BY <1>1, StatsInvariance, PTL

\* neighbor_change is the number of hosts heard at only one of the last two HELLOs.
THEOREM ChangeCounted == ASSUME 0 \notin Hosts PROVE Spec => []NeighborChangeCounted
<1>1. StatsInv => NeighborChangeCounted
  BY StatsImplies
<1> QED BY <1>1, StatsInvariance, PTL

---------------------------------------------------------------------------
(* What is counted as received by a neighbour was received by it *)

\* What is left after the first frame is taken off, and what is there when one is
\* added.
LEMMA Frames ==
  ASSUME NEW s \in Seq(Hello \cup Ack)
  PROVE  /\ s # <<>> =>
              /\ 1 \in DOMAIN s /\ Head(s) = s[1]
              /\ \A n \in DOMAIN Tail(s) : n + 1 \in DOMAIN s /\ Tail(s)[n] = s[n + 1]
         /\ \A f \in Hello \cup Ack : \A n \in DOMAIN Append(s, f) :
              \/ n \in DOMAIN s /\ Append(s, f)[n] = s[n]
              \/ Append(s, f)[n] = f
<1>1. Len(s) \in Nat /\ DOMAIN s = 1 .. Len(s)
  BY LenProperties
<1>2. ASSUME s # <<>>
      PROVE  /\ 1 \in DOMAIN s /\ Head(s) = s[1]
             /\ \A n \in DOMAIN Tail(s) : n + 1 \in DOMAIN s /\ Tail(s)[n] = s[n + 1]
  <2>1. /\ Len(s) # 0 /\ Tail(s) \in Seq(Hello \cup Ack) /\ Len(Tail(s)) = Len(s) - 1
        /\ \A n \in 1 .. Len(Tail(s)) : Tail(s)[n] = s[n + 1]
    BY <1>2, HeadTailProperties, EmptySeq
  <2>2. DOMAIN Tail(s) = 1 .. Len(s) - 1
    BY <2>1, LenProperties
  <2>3. Head(s) = s[1]
    OBVIOUS
  <2> QED BY <1>1, <2>1, <2>2, <2>3
<1>3. ASSUME NEW f \in Hello \cup Ack, NEW n \in DOMAIN Append(s, f)
      PROVE  (n \in DOMAIN s /\ Append(s, f)[n] = s[n]) \/ Append(s, f)[n] = f
  <2>1. /\ Append(s, f) \in Seq(Hello \cup Ack) /\ Len(Append(s, f)) = Len(s) + 1
        /\ \A i \in 1 .. Len(s) : Append(s, f)[i] = s[i]
        /\ Append(s, f)[Len(s) + 1] = f
    BY AppendProperties
  <2>2. n \in 1 .. Len(s) + 1
    BY <1>3, <2>1, LenProperties
  <2> QED BY <1>1, <2>1, <2>2
<1> QED BY <1>2, <1>3

\* A frame stays truthful when hosts send and receive more.
LEMMA TruthfulKept ==
  ASSUME NEW l \in Links, NEW f \in Hello \cup Ack, NEW hosts \in [Hosts -> Host], NEW hosts2 \in [Hosts -> Host],
         NEW rcvd \in [Links -> Nat], NEW rcvd2 \in [Links -> Nat],
         \A h \in Hosts : hosts[h].hello_tail <= hosts2[h].hello_tail,
         \A m \in Links : rcvd[m] <= rcvd2[m],
         Truthful(l, f, hosts, rcvd)
  PROVE  Truthful(l, f, hosts2, rcvd2)
<1>1. l[1][1] \in Hosts /\ l[1][2] \in Hosts
  BY LinkEnds
<1>2. \A h \in Hosts : hosts[h].hello_tail \in Nat /\ hosts2[h].hello_tail \in Nat
  BY DEF Host
<1>3. \A m \in Links : rcvd[m] \in Nat /\ rcvd2[m] \in Nat
  OBVIOUS
<1>4. ASSUME f.type = "HELLO"
      PROVE  f.hello_sent \in 1 .. hosts2[l[1][1]].hello_tail
  BY <1>1, <1>2, <1>4 DEF Truthful
<1>5. ASSUME f.type = "ACK"
      PROVE  /\ back(l) \in Links
             /\ f.of \in 1 .. hosts2[l[1][2]].hello_tail
             /\ f.hello_index = f.of % BYTE
             /\ f.hello_received <= rcvd2[back(l)]
  <2>1. f \in Ack
    BY <1>5, FrameType
  <2>2. f.hello_received \in Nat
    BY <2>1, Constants DEF Ack
  <2>3. /\ back(l) \in Links
        /\ f.of \in 1 .. hosts[l[1][2]].hello_tail
        /\ f.hello_index = f.of % BYTE
        /\ f.hello_received <= rcvd[back(l)]
    BY <1>5 DEF Truthful
  <2> QED BY <1>1, <1>2, <1>3, <2>2, <2>3
<1> QED BY <1>4, <1>5 DEF Truthful

\* What a host has counted stays within what was received.
LEMMA CountsKept ==
  ASSUME NEW h \in Hosts, NEW H \in Host, Listed(H),
         NEW rcvd \in [Links -> Nat], NEW rcvd2 \in [Links -> Nat],
         \A m \in Links : rcvd[m] <= rcvd2[m],
         Counts(h, H, rcvd)
  PROVE  Counts(h, H, rcvd2)
<1>1. \A m \in Links : rcvd[m] \in Nat /\ rcvd2[m] \in Nat
  OBVIOUS
<1>2. ASSUME NEW i \in Slots, NEW c \in Channels
      PROVE  H.neighbors[i].self_received[c] \in Nat /\ H.neighbors[i].remote_received[c] \in Nat
  <2>1. H.neighbors[i] \in Entry
    BY DEF Host
  <2>2. H.neighbors[i].remote_received[c] \in 0 .. BYTE - 1 /\ H.neighbors[i].self_received[c] \in Nat
    BY <2>1 DEF Entry
  <2> QED BY <2>2, Constants
<1>3. ReceivedOK(h, H, rcvd2)
  BY <1>1, <1>2 DEF Counts, ReceivedOK
<1>4. RemoteOK(h, H, rcvd2)
  <2>1. ASSUME NEW p \in Hosts, NEW c \in Channels, <<h, p>> \in Reach
        PROVE  entry(H, p).remote_received[c] <= rcvd2[<<<<h, p>>, c>>]
    <3>1. index(H, {p}) \in Slots
      BY LookupSlot
    <3>2. entry(H, p).remote_received[c] \in Nat
      BY <1>2, <3>1 DEF entry
    <3>3. entry(H, p).remote_received[c] <= rcvd[<<<<h, p>>, c>>]
      BY <2>1 DEF Counts, RemoteOK
    <3>4. <<<<h, p>>, c>> \in Links
      BY <2>1 DEF Links
    <3> QED BY <1>1, <3>2, <3>3, <3>4
  <2> QED BY <2>1 DEF RemoteOK
<1> QED BY <1>3, <1>4 DEF Counts

\* What a host has counted after it sent a HELLO.
LEMMA SendCounts ==
  ASSUME NEW h \in Hosts, NEW H \in Host, Listed(H), NEW G, NEW heard, Sends(H, G, heard),
         NEW rcvd \in [Links -> Nat], Counts(h, H, rcvd)
  PROVE  Counts(h, G, rcvd)
<1>1. G \in Host /\ Listed(G) /\ entries(G) = entries(H) /\ entries(H) \subseteq Slots
  BY EntriesBound DEF Sends
<1>2. \A i \in Slots : Advanced(H, H.neighbors[i], G.neighbors[i])
  BY DEF Sends
<1>3. \A i \in Slots : /\ G.neighbors[i].ipaddr = H.neighbors[i].ipaddr
                       /\ G.neighbors[i].self_received = H.neighbors[i].self_received
                       /\ G.neighbors[i].remote_received = H.neighbors[i].remote_received
  BY <1>2 DEF Advanced
<1>4. ReceivedOK(h, G, rcvd)
  BY <1>1, <1>3 DEF Counts, ReceivedOK
<1>5. Clear(h, G)
  BY <1>1, <1>2, <1>3 DEF Counts, Clear, Advanced
<1>6. RemoteOK(h, G, rcvd)
  <2>1. ASSUME NEW p \in Hosts
        PROVE  entry(G, p).remote_received = entry(H, p).remote_received
    <3>1. index(G, {p}) = index(H, {p}) /\ index(H, {p}) \in Slots
      BY <1>1, <1>3, SameIndex, LookupSlot
    <3> QED BY <1>3, <3>1 DEF entry
  <2> QED BY <2>1 DEF Counts, RemoteOK
<1> QED BY <1>4, <1>5, <1>6 DEF Counts

\* What a host has counted after it heard host d, and what its acknowledgement says.
LEMMA ProcessCounts ==
  ASSUME Symmetric, NEW h \in Hosts, NEW d \in Hosts, NEW c \in Channels, <<<<d, h>>, c>> \in Links,
         NEW H \in Host, Listed(H), NEW G, NEW heard, Hears(H, G, d, c, heard),
         NEW rcvd \in [Links -> Nat], Counts(h, H, rcvd)
  PROVE  LET more == [rcvd EXCEPT ![<<<<d, h>>, c>>] = @ + 1]
         IN  /\ Counts(h, G, more)
             /\ G.neighbors[index(G, {d, 0})].self_received[c] <= more[<<<<d, h>>, c>>]
<1> DEFINE j == index(H, {d})
           l == <<<<d, h>>, c>>
           more == [rcvd EXCEPT ![l] = @ + 1]
<1>1. /\ G \in Host /\ j \in Slots /\ entries(G) = entries(H) \cup {j} /\ Listed(G)
      /\ known(G) = known(H) \cup {d}
      /\ CountedIn(H.neighbors[j], G.neighbors[j], d, c)
      /\ \A i \in Slots \ {j} : G.neighbors[i] = H.neighbors[i]
      /\ index(G, {d, 0}) = j
  BY DEF Hears
<1>2. /\ \A m \in Links : more[m] \in Nat /\ rcvd[m] \in Nat /\ rcvd[m] <= more[m]
      /\ more[l] = rcvd[l] + 1 /\ more \in [Links -> Nat]
  OBVIOUS
<1>3. Counts(h, H, more)
  <2> HIDE DEF more
  <2> QED BY <1>2, CountsKept
<1>4. entries(H) \subseteq Slots /\ entries(G) \subseteq Slots
  BY <1>1, EntriesBound
<1>5. j \in entries(H) => H.neighbors[j].ipaddr = d
  BY IndexFound
<1>6. \A b \in Channels : <<<<d, h>>, b>> \in Links
  BY DEF Links
<1>7. \A b \in Channels : H.neighbors[j].self_received[b] \in Nat
  <2>1. H.neighbors[j] \in Entry
    BY <1>1 DEF Host
  <2> HIDE DEF j
  <2> QED BY <2>1 DEF Entry
<1> HIDE DEF more
<1>8. ASSUME NEW b \in Channels
      PROVE  G.neighbors[j].ipaddr = d /\ G.neighbors[j].self_received[b] <= more[<<<<d, h>>, b>>]
  <2>1. H.neighbors[j].self_received[b] <= rcvd[<<<<d, h>>, b>>]
    <3>1. CASE j \in entries(H)
      BY <1>1, <1>5, <3>1 DEF Counts, ReceivedOK
    <3>2. CASE j \notin entries(H)
      <4>1. H.neighbors[j].self_received[b] = 0
        BY <1>1, <3>2 DEF Counts, ReceivedOK
      <4> QED BY <1>2, <1>6, <4>1
    <3> QED BY <3>1, <3>2
  <2>2. G.neighbors[j].self_received[b] =
          IF b = c THEN H.neighbors[j].self_received[b] + 1 ELSE H.neighbors[j].self_received[b]
    BY <1>1 DEF CountedIn
  <2>3. G.neighbors[j].ipaddr = d
    BY <1>1 DEF CountedIn
  <2> HIDE DEF j
  <2>4. CASE b = c
    BY <1>2, <1>6, <1>7, <2>1, <2>2, <2>3, <2>4
  <2>5. CASE b # c
    <3>1. G.neighbors[j].self_received[b] = H.neighbors[j].self_received[b]
      BY <2>2, <2>5
    <3>2. rcvd[<<<<d, h>>, b>>] <= more[<<<<d, h>>, b>>]
      BY <1>2, <1>6
    <3> QED BY <1>2, <1>6, <1>7, <2>1, <2>3, <3>1, <3>2
  <2> QED BY <2>4, <2>5
<1>9. ReceivedOK(h, G, more)
  <2>1. ASSUME NEW i \in Slots, NEW b \in Channels
        PROVE  LET N == G.neighbors[i]
               IN  IF i \in entries(G)
                   THEN <<<<N.ipaddr, h>>, b>> \in Links /\ N.self_received[b] <= more[<<<<N.ipaddr, h>>, b>>]
                   ELSE N.self_received[b] = 0
    <3>1. CASE i = j
      BY <1>1, <1>6, <1>8, <3>1
    <3>2. CASE i # j
      <4>1. G.neighbors[i] = H.neighbors[i] /\ (i \in entries(G) <=> i \in entries(H))
        BY <1>1, <3>2
      <4> QED BY <1>3, <4>1 DEF Counts, ReceivedOK
    <3> QED BY <3>1, <3>2
  <2> QED BY <2>1 DEF ReceivedOK
<1>10. Clear(h, G)
  <2>1. \A i \in Slots \ entries(G) : i \in Slots \ entries(H) /\ G.neighbors[i] = H.neighbors[i]
    BY <1>1
  <2> QED BY <1>3, <2>1 DEF Counts, Clear
<1>11. RemoteOK(h, G, more)
  <2>1. ASSUME NEW p \in Hosts, NEW b \in Channels, <<h, p>> \in Reach
        PROVE  entry(G, p).remote_received[b] <= more[<<<<h, p>>, b>>]
    <3>1. entry(H, p).remote_received[b] <= more[<<<<h, p>>, b>>]
      BY <1>3, <2>1 DEF Counts, RemoteOK
    <3>2. CASE p = d
      <4>1. index(G, {d}) = j
        BY <1>1, <1>8, IndexKnown
      <4>2. G.neighbors[j].remote_received = H.neighbors[j].remote_received
        BY <1>1 DEF CountedIn
      <4> QED BY <3>1, <3>2, <4>1, <4>2 DEF entry, j
    <3>3. CASE p # d /\ p \in known(H)
      <4>1. index(H, {p}) \in entries(H) /\ H.neighbors[index(H, {p})].ipaddr = p
        BY <3>3, IndexKnown
      <4>2. index(H, {p}) # j
        BY <1>5, <3>3, <4>1
      <4> DEFINE i == index(H, {p})
      <4>3. i \in Slots /\ G.neighbors[i] = H.neighbors[i] /\ i \in entries(G)
        BY <1>1, <1>4, <4>1, <4>2
      <4>4. index(G, {p}) = i
        <5>1. i \in entries(G) /\ G.neighbors[i].ipaddr = p
          BY <4>1, <4>3
        <5>2. \A k \in entries(G) : G.neighbors[k].ipaddr = p => index(G, {p}) = k
          BY <1>1, IndexKnown
        <5> HIDE DEF i
        <5> QED BY <5>1, <5>2
      <4> QED BY <3>1, <4>3, <4>4 DEF entry
    <3>4. CASE p # d /\ p \notin known(H)
      <4>1. ~Lone(h)
        <5>1. <<d, h>> \in Reach
          BY DEF Links
        <5>2. <<h, d>> \in Reach
          BY <5>1 DEF Symmetric
        <5> QED BY <2>1, <3>4, <5>2 DEF Lone
      <4>2. index(G, {p}) \in Slots \ entries(G)
        <5>1. index(G, {p}) = G.neighbor_num
          BY <1>1, <3>4, IndexKnown
        <5>2. G.neighbor_num \notin entries(G)
          <6>1. G.neighbor_num \in Nat
            BY <1>1, Constants DEF Host
          <6> QED BY <6>1 DEF entries
        <5> QED BY <1>1, <5>1, <5>2, LookupSlot
      <4>3. entry(G, p).remote_received[b] = 0
        BY <1>10, <4>1, <4>2 DEF Clear, entry
      <4>4. <<<<h, p>>, b>> \in Links
        BY <2>1 DEF Links
      <4> QED BY <1>2, <4>3, <4>4
    <3> QED BY <3>2, <3>3, <3>4
  <2> QED BY <2>1 DEF RemoteOK
<1>12. G.neighbors[index(G, {d, 0})].self_received[c] <= more[l]
  BY <1>1, <1>8
<1> QED BY <1>9, <1>10, <1>11, <1>12 DEF Counts, more

\* Where an acknowledgement of host src is counted no other host of the neighbourhood
\* is looked up.
LEMMA OwnEntry ==
  ASSUME NEW h \in Hosts, NEW H \in Host, Listed(H), NEW src \in Hosts, NEW p \in Hosts,
         <<h, src>> \in Reach, <<h, p>> \in Reach,
         src \in known(H) \/ Lone(h), index(H, {p}) = index(H, {src})
  PROVE  p = src
<1>1. CASE src \in known(H)
  <2>1. index(H, {src}) \in entries(H) /\ H.neighbors[index(H, {src})].ipaddr = src
    BY <1>1, IndexKnown
  <2>2. H.neighbors[index(H, {p})].ipaddr \in {p}
    BY <2>1, IndexFound
  <2> QED BY <2>1, <2>2
<1>2. CASE Lone(h)
  BY <1>2 DEF Lone
<1> QED BY <1>1, <1>2

\* What a host has counted after it took an acknowledgement of host src.
LEMMA AckCounts ==
  ASSUME NEW h \in Hosts, NEW src \in Hosts, NEW c \in Channels, <<h, src>> \in Reach,
         NEW H \in Host, Listed(H), NEW G, NEW ack \in Ack, NEW heard, Takes(H, G, src, c, ack, heard),
         NEW rcvd \in [Links -> Nat], Counts(h, H, rcvd),
         ack.hello_received <= rcvd[<<<<h, src>>, c>>],
         src \in known(H) \/ Lone(h)
  PROVE  Counts(h, G, rcvd)
<1> DEFINE j == index(H, {src})
<1>1. /\ G \in Host /\ j \in Slots /\ entries(G) = entries(H) /\ Listed(G)
      /\ AckedIn(H, H.neighbors[j], G.neighbors[j], c, ack)
      /\ \A i \in Slots \ {j} : G.neighbors[i] = H.neighbors[i]
  BY DEF Takes
<1>2. \A i \in Slots : /\ G.neighbors[i].ipaddr = H.neighbors[i].ipaddr
                       /\ G.neighbors[i].self_received = H.neighbors[i].self_received
  BY <1>1 DEF AckedIn
<1>3. entries(H) \subseteq Slots
  BY EntriesBound
<1>4. ReceivedOK(h, G, rcvd)
  BY <1>1, <1>2 DEF Counts, ReceivedOK
<1>5. Clear(h, G)
  <2>1. ASSUME ~Lone(h) PROVE \A i \in Slots \ entries(G) : i \in Slots \ entries(H) /\ G.neighbors[i] = H.neighbors[i]
    <3>1. j \in entries(H)
      BY <2>1, IndexKnown
    <3> QED BY <1>1, <3>1
  <2> QED BY <2>1 DEF Counts, Clear
<1>6. RemoteOK(h, G, rcvd)
  <2>1. ASSUME NEW p \in Hosts, NEW b \in Channels, <<h, p>> \in Reach
        PROVE  entry(G, p).remote_received[b] <= rcvd[<<<<h, p>>, b>>]
    <3>1. index(G, {p}) = index(H, {p}) /\ index(H, {p}) \in Slots
      BY <1>1, <1>2, <1>3, SameIndex, LookupSlot
    <3>2. entry(H, p).remote_received[b] <= rcvd[<<<<h, p>>, b>>]
      BY <2>1 DEF Counts, RemoteOK
    <3>3. CASE index(H, {p}) # j
      BY <1>1, <3>1, <3>2, <3>3 DEF entry
    <3>4. CASE index(H, {p}) = j
      <4>1. p = src
        BY <2>1, <3>4, OwnEntry
      <4>2. entry(G, p).remote_received[b] =
              IF b = c THEN ack.hello_received ELSE entry(H, p).remote_received[b]
        BY <1>1, <3>1, <3>4, SMTT(30) DEF entry, AckedIn
      <4> QED BY <3>2, <4>1, <4>2
    <3> QED BY <3>3, <3>4
  <2> QED BY <2>1 DEF RemoteOK
<1> QED BY <1>4, <1>5, <1>6 DEF Counts

\* A step that changes one host, and adds no frame that is not truthful.
LEMMA CountStep ==
  ASSUME StatsInv, StatsInv', CountInv,
         NEW h \in Hosts, NEW G, this_host' = [this_host EXCEPT ![h] = G],
         this_host[h].hello_tail <= G.hello_tail,
         Counts(h, G, received'),
         \A m \in Links : received[m] <= received'[m],
         \A l \in Links : \A n \in DOMAIN wire'[l] :
           \/ \E m \in DOMAIN wire[l] : wire'[l][n] = wire[l][m]
           \/ Truthful(l, wire'[l][n], this_host', received')
  PROVE  CountInv'
<1>1. /\ this_host \in [Hosts -> Host] /\ this_host' \in [Hosts -> Host]
      /\ received \in [Links -> Nat] /\ received' \in [Links -> Nat]
      /\ wire \in [Links -> Seq(Hello \cup Ack)]
      /\ \A g \in Hosts : Listed(this_host[g])
  BY DEF StatsInv, StatsType
<1>2. \A g \in Hosts : this_host[g].hello_tail <= this_host'[g].hello_tail
  <2>1. \A g \in Hosts : this_host[g].hello_tail \in Nat
    BY <1>1 DEF Host
  <2>2. \A g \in Hosts : this_host'[g] = IF g = h THEN G ELSE this_host[g]
    BY <1>1
  <2>3. \A n \in Nat : n <= n
    OBVIOUS
  <2> QED BY <2>1, <2>2, <2>3
<1>3. ASSUME NEW l \in Links, NEW n \in DOMAIN wire'[l]
      PROVE  Truthful(l, wire'[l][n], this_host', received')
  <2>1. CASE \E m \in DOMAIN wire[l] : wire'[l][n] = wire[l][m]
    <3>1. PICK m \in DOMAIN wire[l] : wire'[l][n] = wire[l][m]
      BY <2>1
    <3> DEFINE f == wire[l][m]
    <3>2. f \in Hello \cup Ack
      BY <1>1, ElementOfSeq, LenProperties
    <3>3. Truthful(l, f, this_host, received)
      BY DEF CountInv
    <3> HIDE DEF f
    <3>4. Truthful(l, f, this_host', received')
      BY <1>1, <1>2, <3>2, <3>3, TruthfulKept
    <3> QED BY <3>1, <3>4 DEF f
  <2> QED BY <2>1
<1>4. ASSUME NEW g \in Hosts
      PROVE  Counts(g, this_host'[g], received')
  <2>1. CASE g = h
    BY <1>1, <2>1
  <2>2. CASE g # h
    <3>1. this_host'[g] = this_host[g] /\ this_host[g] \in Host /\ Listed(this_host[g])
      BY <1>1, <2>2
    <3>2. Counts(g, this_host[g], received)
      BY DEF CountInv
    <3>3. Counts(g, this_host[g], received')
      BY <1>1, <3>1, <3>2, CountsKept
    <3> QED BY <3>1, <3>3
  <2> QED BY <2>1, <2>2
<1> QED BY <1>3, <1>4 DEF CountInv

\* At the start nothing is counted.
LEMMA InitCount == Init => CountInv
<1> SUFFICES ASSUME Init PROVE CountInv
  OBVIOUS
<1>1. StatsInv
  BY InitStats
<1>2. ASSUME NEW l \in Links, NEW n \in DOMAIN wire[l]
      PROVE  Truthful(l, wire[l][n], this_host, received)
  <2>1. wire[l] = <<>>
    BY DEF Init
  <2> QED BY <2>1, EmptySeq
<1>3. ASSUME NEW h \in Hosts
      PROVE  Counts(h, this_host[h], received)
  <2> DEFINE H == this_host[h]
  <2>1. H \in Host /\ Listed(H)
    BY <1>1 DEF StatsInv, StatsType
  <2>2. H = host_info
    BY DEF Init
  <2>3. /\ \A i \in Slots : H.neighbors[i] = neighbor_info
        /\ H.neighbor_num = 0
    BY <2>2 DEF host_info, Slots
  <2> HIDE DEF H
  <2>4. entries(H) = {}
    BY <2>3 DEF entries
  <2>5. ASSUME NEW i \in Slots, NEW c \in Channels
        PROVE  LET N == H.neighbors[i]
               IN  /\ N.self_received[c] = 0 /\ N.remote_received[c] = 0
                   /\ \A k \in Ring : N.hello_sequence[c][k] = 0
    BY <2>3 DEF neighbor_info
  <2>6. ReceivedOK(h, H, received)
    BY <2>4, <2>5 DEF ReceivedOK
  <2>7. Clear(h, H)
    BY <2>5 DEF Clear
  <2>8. RemoteOK(h, H, received)
    <3>1. ASSUME NEW p \in Hosts, NEW c \in Channels, <<h, p>> \in Reach
          PROVE  entry(H, p).remote_received[c] <= received[<<<<h, p>>, c>>]
      <4>1. entry(H, p).remote_received[c] = 0
        BY <2>1, <2>5, LookupSlot DEF entry
      <4>2. <<<<h, p>>, c>> \in Links
        BY <3>1 DEF Links
      <4>3. received[<<<<h, p>>, c>>] = 0
        BY <4>2 DEF Init
      <4> QED BY <4>1, <4>3
    <3> QED BY <3>1 DEF RemoteOK
  <2> QED BY <2>6, <2>7, <2>8 DEF Counts, H
<1> QED BY <1>2, <1>3 DEF CountInv

\* A HELLO is sent: the frames say its number.
LEMMA SendCount ==
  ASSUME StatsInv, CountInv, NEW h \in Hosts, hello_send(h), StatsInv'
  PROVE  CountInv'
<1> DEFINE H == this_host[h]
           msg == [type |-> "HELLO", hello_sent |-> H.hello_tail + 1]
<1>1. PICK G :
        /\ Sends(H, G, was_heard[h][2])
        /\ this_host' = [this_host EXCEPT ![h] = G]
        /\ wire' = [l \in Links |-> IF l[1][1] = h THEN Append(wire[l], msg) ELSE wire[l]]
        /\ received' = received
  BY SendFacts
<1>2. /\ H \in Host /\ Listed(H) /\ received \in [Links -> Nat] /\ Counts(h, H, received)
      /\ this_host'[h] = G /\ wire \in [Links -> Seq(Hello \cup Ack)]
  BY <1>1 DEF StatsInv, StatsType, CountInv
<1>3. H.hello_tail \in Nat
  BY <1>2 DEF Host
<1>4. G.hello_tail = H.hello_tail + 1
  BY <1>1 DEF Sends
<1>5. Counts(h, G, received')
  <2> HIDE DEF H
  <2> QED BY <1>1, <1>2, SendCounts
<1>6. \A m \in Links : received[m] <= received'[m]
  BY <1>1, <1>2
<1>7. msg \in Hello /\ msg.type = "HELLO" /\ msg.hello_sent = H.hello_tail + 1
  BY <1>3 DEF Hello
<1> HIDE DEF msg
<1>8. ASSUME NEW l \in Links, NEW n \in DOMAIN wire'[l]
      PROVE  \/ \E m \in DOMAIN wire[l] : wire'[l][n] = wire[l][m]
             \/ Truthful(l, wire'[l][n], this_host', received')
  <2>1. CASE l[1][1] = h
    <3>1. wire'[l] = Append(wire[l], msg)
      BY <1>1, <2>1
    <3>2. (n \in DOMAIN wire[l] /\ wire'[l][n] = wire[l][n]) \/ wire'[l][n] = msg
      BY <1>2, <1>7, <3>1, Frames
    <3>3. Truthful(l, msg, this_host', received')
      BY <1>2, <1>3, <1>4, <1>7, <2>1 DEF Truthful
    <3> QED BY <3>2, <3>3
  <2>2. CASE l[1][1] # h
    BY <1>1, <2>2
  <2> QED BY <2>1, <2>2
<1>9. H.hello_tail <= G.hello_tail
  BY <1>3, <1>4
<1> QED BY <1>1, <1>5, <1>6, <1>8, <1>9, CountStep

\* A HELLO arrives: the acknowledgement says what was counted.
LEMMA ProcessCount ==
  ASSUME 0 \notin Hosts, Symmetric, StatsInv, CountInv, NEW l \in Links, hello_process(l), StatsInv'
  PROVE  CountInv'
<1> DEFINE d == l[1][1]
           h == l[1][2]
           c == l[2]
           sent == Head(wire[l]).hello_sent
           H == this_host[h]
<1>1. d \in Hosts /\ h \in Hosts /\ c \in Channels /\ l = <<<<d, h>>, c>>
  BY LinkEnds
<1>2. PICK G :
        /\ wire[l] # <<>> /\ Head(wire[l]).type = "HELLO" /\ sent \in Nat
        /\ Hears(H, G, d, c, was_heard[h][2])
        /\ this_host' = [this_host EXCEPT ![h] = G]
        /\ wire' = [[wire EXCEPT ![l] = Tail(@)] EXCEPT
                      ![back(l)] = Append(@, hello_ack(G, d, c, sent))]
        /\ received' = [received EXCEPT ![l] = @ + 1]
  BY ProcessFacts
<1>3. /\ H \in Host /\ Listed(H) /\ received \in [Links -> Nat] /\ Counts(h, H, received)
      /\ wire \in [Links -> Seq(Hello \cup Ack)]
      /\ this_host \in [Hosts -> Host] /\ this_host' \in [Hosts -> Host]
  BY <1>1 DEF StatsInv, StatsType, CountInv
<1>4. sent \in 1 .. this_host[d].hello_tail
  <2>1. Truthful(l, wire[l][1], this_host, received) /\ Head(wire[l]) = wire[l][1]
    BY <1>2, <1>3, Frames DEF CountInv
  <2> QED BY <1>2, <2>1 DEF Truthful
<1>5. /\ Counts(h, G, received')
      /\ G.neighbors[index(G, {d, 0})].self_received[c] <= received'[l]
  <2>1. received' = [received EXCEPT ![<<<<d, h>>, c>>] = @ + 1] /\ <<<<d, h>>, c>> \in Links
    BY <1>1, <1>2
  <2> DEFINE more == [received EXCEPT ![<<<<d, h>>, c>>] = @ + 1]
  <2>2. Hears(H, G, d, c, was_heard[h][2])
    BY <1>2
  <2>3. Counts(h, G, more) /\ G.neighbors[index(G, {d, 0})].self_received[c] <= more[<<<<d, h>>, c>>]
    <3> HIDE DEF H, d, h, c
    <3> QED BY <1>1, <1>3, <2>1, <2>2, ProcessCounts
  <2>4. received' = more /\ l = <<<<d, h>>, c>>
    BY <1>1, <1>2
  <2> HIDE DEF H, d, h, c, more
  <2> QED BY <2>3, <2>4
<1>6. G \in Host /\ G.hello_tail = H.hello_tail /\ index(G, {d, 0}) \in Slots
  BY <1>2 DEF Hears
<1>7. H.hello_tail <= G.hello_tail
  <2>1. H.hello_tail \in Nat
    BY <1>3 DEF Host
  <2> QED BY <1>6, <2>1
<1>8. \A m \in Links : received[m] <= received'[m]
  BY <1>2, <1>3
<1> DEFINE f == hello_ack(G, d, c, sent)
<1>9. /\ f \in Ack /\ f.type = "ACK" /\ f.of = sent /\ f.hello_index = sent % BYTE
      /\ f.hello_received <= G.neighbors[index(G, {d, 0})].self_received[c]
  <2>1. c \in Channels /\ sent \in Nat
    BY <1>1, <1>2
  <2> HIDE DEF d, c, sent
  <2> QED BY <1>6, <2>1, AckSent
<1> HIDE DEF f, sent
<1>10. this_host'[d].hello_tail = this_host[d].hello_tail
  BY <1>1, <1>2, <1>3, <1>6
<1>11. back(l) = <<<<h, d>>, c>> /\ back(back(l)) = l
  BY <1>1 DEF back
<1>12. Truthful(back(l), f, this_host', received')
  <2>1. f.hello_received <= received'[l]
    <3>1. f.hello_received \in Nat
      BY <1>9, Constants DEF Ack
    <3>2. G.neighbors[index(G, {d, 0})].self_received[c] \in Nat
      <4>1. G.neighbors[index(G, {d, 0})] \in Entry
        BY <1>6 DEF Host
      <4> HIDE DEF d, c
      <4> QED BY <1>1, <4>1 DEF Entry
    <3>3. received'[l] \in Nat
      BY <1>2, <1>3
    <3> HIDE DEF d, c
    <3> QED BY <1>5, <1>9, <3>1, <3>2, <3>3
  <2>2. f.of \in 1 .. this_host'[back(l)[1][2]].hello_tail
    BY <1>4, <1>9, <1>10, <1>11
  <2>3. f.type # "HELLO"
    BY <1>9
  <2> HIDE DEF d, h, c
  <2> QED BY <1>9, <1>11, <2>1, <2>2, <2>3 DEF Truthful
<1>13. ASSUME NEW m \in Links, NEW n \in DOMAIN wire'[m]
       PROVE  \/ \E k \in DOMAIN wire[m] : wire'[m][n] = wire[m][k]
              \/ Truthful(m, wire'[m][n], this_host', received')
  <2> DEFINE W == [wire EXCEPT ![l] = Tail(@)]
  <2>1. /\ W \in [Links -> Seq(Hello \cup Ack)]
        /\ \A k \in DOMAIN W[m] : \E i \in DOMAIN wire[m] : W[m][k] = wire[m][i]
    <3>1. Tail(wire[l]) \in Seq(Hello \cup Ack)
      BY <1>2, <1>3, WireType
    <3>2. \A k \in DOMAIN Tail(wire[l]) : k + 1 \in DOMAIN wire[l] /\ Tail(wire[l])[k] = wire[l][k + 1]
      BY <1>2, <1>3, Frames
    <3> QED BY <1>3, <3>1, <3>2
  <2>2. wire' = [W EXCEPT ![back(l)] = Append(@, f)]
    BY <1>2 DEF f
  <2> HIDE DEF W
  <2>3. CASE m = back(l)
    <3>1. wire'[m] = Append(W[m], f)
      BY <2>1, <2>2, <2>3
    <3>2. (n \in DOMAIN W[m] /\ wire'[m][n] = W[m][n]) \/ wire'[m][n] = f
      BY <1>9, <2>1, <3>1, Frames
    <3> QED BY <1>12, <2>1, <2>3, <3>2
  <2>4. CASE m # back(l)
    BY <2>1, <2>2, <2>4
  <2> QED BY <2>3, <2>4
<1> HIDE DEF h, H
<1> QED BY <1>1, <1>2, <1>5, <1>7, <1>8, <1>13, CountStep DEF H

\* The frames that remain when the first one of a link is taken off.
LEMMA TakenOff ==
  ASSUME StatsInv, NEW l \in Links, wire[l] # <<>>, wire' = [wire EXCEPT ![l] = Tail(@)],
         NEW m \in Links, NEW n \in DOMAIN wire'[m]
  PROVE  \E k \in DOMAIN wire[m] : wire'[m][n] = wire[m][k]
<1>1. wire \in [Links -> Seq(Hello \cup Ack)]
  BY DEF StatsInv, StatsType
<1>2. \A k \in DOMAIN Tail(wire[l]) : k + 1 \in DOMAIN wire[l] /\ Tail(wire[l])[k] = wire[l][k + 1]
  BY <1>1, Frames
<1> QED BY <1>1, <1>2

\* An acknowledgement arrives, and is counted for the host it comes from.
LEMMA AckCount ==
  ASSUME StatsInv, CountInv, NEW l \in Links, rrep_ack_process(l), NotBorrowed, StatsInv'
  PROVE  CountInv'
<1> DEFINE src == l[1][1]
           h == l[1][2]
           c == l[2]
           ack == Head(wire[l])
           H == this_host[h]
<1>1. src \in Hosts /\ h \in Hosts /\ c \in Channels /\ back(l) = <<<<h, src>>, c>>
  BY LinkEnds DEF back
<1>2. PICK G :
        /\ wire[l] # <<>> /\ ack \in Ack
        /\ Takes(H, G, src, c, ack, was_heard[h][2])
        /\ this_host' = [this_host EXCEPT ![h] = G]
        /\ wire' = [wire EXCEPT ![l] = Tail(@)]
        /\ received' = received
  BY AckFacts
<1>3. /\ H \in Host /\ Listed(H) /\ received \in [Links -> Nat] /\ Counts(h, H, received)
      /\ wire \in [Links -> Seq(Hello \cup Ack)]
  BY <1>1 DEF StatsInv, StatsType, CountInv
<1>4. src \in known(H) \/ Lone(h)
  BY DEF NotBorrowed
<1>5. ack.hello_received <= received[<<<<h, src>>, c>>] /\ <<h, src>> \in Reach
  <2>1. Truthful(l, ack, this_host, received)
    BY <1>2, <1>3, Frames DEF CountInv
  <2>2. ack.type = "ACK"
    BY <1>2 DEF Ack
  <2>3. back(l) \in Links /\ ack.hello_received <= received[back(l)]
    BY <2>1, <2>2 DEF Truthful
  <2> HIDE DEF src, h, c, ack
  <2> QED BY <1>1, <2>3 DEF Links
<1>6. Counts(h, G, received')
  <2>1. Takes(H, G, src, c, ack, was_heard[h][2]) /\ ack \in Ack /\ received' = received
    BY <1>2
  <2> HIDE DEF src, h, c, ack, H
  <2> QED BY <1>1, <1>3, <1>4, <1>5, <2>1, AckCounts
<1>7. H.hello_tail <= G.hello_tail
  <2>1. H.hello_tail \in Nat /\ G.hello_tail = H.hello_tail
    BY <1>2, <1>3 DEF Host, Takes
  <2> QED BY <2>1
<1>8. \A m \in Links : received[m] <= received'[m]
  BY <1>2, <1>3
<1>9. \A m \in Links : \A n \in DOMAIN wire'[m] : \E k \in DOMAIN wire[m] : wire'[m][n] = wire[m][k]
  BY <1>2, TakenOff
<1> HIDE DEF h, H
<1> QED BY <1>1, <1>2, <1>6, <1>7, <1>8, <1>9, CountStep DEF H

\* A frame is lost: what remains is as true as before.
LEMMA LoseCount ==
  ASSUME StatsInv, CountInv, NEW l \in Links, Lose(l), StatsInv'
  PROVE  CountInv'
<1> DEFINE h == l[1][1]
           H == this_host[h]
<1>1. h \in Hosts
  BY LinkEnds
<1>2. /\ this_host' = [this_host EXCEPT ![h] = H] /\ received' = received
      /\ received \in [Links -> Nat] /\ H \in Host /\ Counts(h, H, received)
  BY <1>1 DEF Lose, history, StatsInv, StatsType, CountInv
<1>3. H.hello_tail <= H.hello_tail
  BY <1>2 DEF Host
<1>4. \A m \in Links : received[m] <= received'[m]
  BY <1>2
<1>5. \A m \in Links : \A n \in DOMAIN wire'[m] : \E k \in DOMAIN wire[m] : wire'[m][n] = wire[m][k]
  BY TakenOff DEF Lose
<1> HIDE DEF h, H
<1> QED BY <1>1, <1>2, <1>3, <1>4, <1>5, CountStep DEF H

\* A hello timer stops: no count changes.
LEMMA TimeoutCount ==
  ASSUME StatsInv, CountInv, NEW h \in Hosts, NEW d, hello_timeout(h, d), StatsInv'
  PROVE  CountInv'
<1> DEFINE H == this_host[h]
           G == [H EXCEPT !.hello_timers = @ \ {d}]
<1>1. /\ H \in Host /\ Listed(H) /\ Marked(H, was_heard[h][2])
      /\ received \in [Links -> Nat] /\ Counts(h, H, received)
  BY DEF StatsInv, StatsType, CountInv
<1>2. this_host' = [this_host EXCEPT ![h] = G] /\ wire' = wire /\ received' = received
  BY DEF hello_timeout, history, StatsInv, StatsType
<1> HIDE DEF H
<1>3. G.neighbors = H.neighbors /\ G.neighbor_num = H.neighbor_num /\ G.hello_tail = H.hello_tail
  BY <1>1, TimeoutStep
<1> HIDE DEF G
<1>4. entries(G) = entries(H) /\ \A p : index(G, {p}) = index(H, {p})
  BY <1>3 DEF entries, index
<1>5. Counts(h, G, received')
  <2>1. ReceivedOK(h, G, received) <=> ReceivedOK(h, H, received)
    BY <1>3, <1>4 DEF ReceivedOK
  <2>2. Clear(h, G) <=> Clear(h, H)
    BY <1>3, <1>4 DEF Clear
  <2>3. \A p : entry(G, p) = entry(H, p)
    BY <1>3, <1>4 DEF entry
  <2>4. RemoteOK(h, G, received) <=> RemoteOK(h, H, received)
    BY <2>3 DEF RemoteOK
  <2> QED BY <1>1, <1>2, <2>1, <2>2, <2>4 DEF Counts
<1>6. H.hello_tail <= G.hello_tail
  <2>1. H.hello_tail \in Nat
    BY <1>1 DEF Host
  <2> QED BY <1>3, <2>1
<1>7. \A m \in Links : received[m] <= received'[m]
  BY <1>1, <1>2
<1>8. \A m \in Links : \A n \in DOMAIN wire'[m] : wire'[m][n] = wire[m][n] /\ n \in DOMAIN wire[m]
  BY <1>2
<1> QED BY <1>2, <1>5, <1>6, <1>7, <1>8, CountStep DEF H

\* Every step keeps the counts right, as long as no entry is borrowed.
LEMMA NextCount ==
  ASSUME 0 \notin Hosts, Symmetric, StatsInv, CountInv, [Next]_vars, [NotBorrowed]_vars
  PROVE  CountInv'
<1>1. StatsInv'
  BY NextStats
<1>2. CASE UNCHANGED vars
  <2>1. this_host' = this_host /\ wire' = wire /\ received' = received
    BY <1>2 DEF vars, history
  <2> QED BY <2>1 DEF CountInv
<1>3. CASE Next /\ NotBorrowed
  <2>1. ASSUME NEW h \in Hosts, hello_send(h) PROVE CountInv'
    BY <1>1, <2>1, SendCount
  <2>2. ASSUME NEW l \in Links, hello_process(l) PROVE CountInv'
    BY <1>1, <2>2, ProcessCount
  <2>3. ASSUME NEW l \in Links, rrep_ack_process(l) PROVE CountInv'
    BY <1>1, <1>3, <2>3, AckCount
  <2>4. ASSUME NEW l \in Links, Lose(l) PROVE CountInv'
    BY <1>1, <2>4, LoseCount
  <2>5. ASSUME NEW h \in Hosts, NEW d \in Hosts, hello_timeout(h, d) PROVE CountInv'
    BY <1>1, <2>5, TimeoutCount
  <2> QED BY <1>3, <2>1, <2>2, <2>3, <2>4, <2>5 DEF Next
<1> QED BY <1>2, <1>3

\* The entry of a neighbour is that in which its acknowledgements are counted.
LEMMA EntryOf ==
  ASSUME Symmetric, StatsInv, CountInv, NEW h \in Hosts, NEW i \in entries(this_host[h]), NEW c \in Channels
  PROVE  /\ this_host[h].neighbors[i].ipaddr \in Hosts
         /\ <<h, this_host[h].neighbors[i].ipaddr>> \in Reach
         /\ entry(this_host[h], this_host[h].neighbors[i].ipaddr) = this_host[h].neighbors[i]
<1> DEFINE H == this_host[h]
           p == H.neighbors[i].ipaddr
<1>1. H \in Host /\ Listed(H) /\ Counts(h, H, received)
  BY DEF StatsInv, StatsType, CountInv
<1> HIDE DEF H
<1>2. i \in entries(H) /\ i \in Slots
  BY <1>1, EntriesBound DEF H
<1>3. p \in Hosts
  BY <1>1, <1>2 DEF Listed
<1>4. <<p, h>> \in Reach
  BY <1>1, <1>2 DEF Counts, ReceivedOK, Links
<1>5. <<h, p>> \in Reach
  BY <1>3, <1>4 DEF Symmetric
<1>6. entry(H, p) = H.neighbors[i]
  <2>1. \A k \in entries(H) : H.neighbors[k].ipaddr = p => index(H, {p}) = k
    BY <1>1, IndexKnown
  <2>2. index(H, {p}) = i
    BY <1>2, <2>1
  <2> HIDE DEF p
  <2> QED BY <2>2 DEF entry
<1> QED BY <1>3, <1>5, <1>6 DEF H

\* What the invariant says of the property the runs check.
LEMMA CountImplies ==
  ASSUME Symmetric, StatsInv, CountInv PROVE RemoteReceivedIsReal
<1>1. ASSUME NEW h \in Hosts, NEW i \in entries(this_host[h]), NEW c \in Channels
      PROVE  this_host[h].neighbors[i].remote_received[c] <= received[link(h, i, c)]
  <2>1. Counts(h, this_host[h], received)
    BY DEF CountInv
  <2> QED BY <2>1, EntryOf DEF Counts, RemoteOK, link
<1> QED BY <1>1 DEF RemoteReceivedIsReal

\* Without borrowed entries the counts stay right, for any hosts, losses and order.
THEOREM CountInvariance ==
  ASSUME 0 \notin Hosts, Symmetric
  PROVE  Spec /\ [][NotBorrowed]_vars => [](StatsInv /\ CountInv)
<1>1. Init => StatsInv /\ CountInv
  BY InitStats, InitCount
<1>2. StatsInv /\ CountInv /\ [Next]_vars /\ [NotBorrowed]_vars => (StatsInv /\ CountInv)'
  BY NextStats, NextCount
<1> QED BY <1>1, <1>2, PTL DEF Spec

\* No entry says that a neighbour received more HELLOs than it did.
THEOREM RemoteCounted ==
  ASSUME 0 \notin Hosts, Symmetric
  PROVE  Spec /\ [][NotBorrowed]_vars => []RemoteReceivedIsReal
<1>1. StatsInv /\ CountInv => RemoteReceivedIsReal
  BY CountImplies
<1> QED BY <1>1, CountInvariance, PTL

\* A host with one peer has no other to borrow an entry for.
LEMMA LoneNotBorrowed ==
  ASSUME \A h \in Hosts : Lone(h) PROVE NotBorrowed
BY LinkEnds DEF NotBorrowed

\* So in a network of pairs no step borrows an entry, and the counts are right.
THEOREM RemoteCountedInPairs ==
  ASSUME 0 \notin Hosts, Symmetric, \A h \in Hosts : Lone(h)
  PROVE  Spec => []RemoteReceivedIsReal
<1>1. NotBorrowed
  BY LoneNotBorrowed
<1>2. [NotBorrowed]_vars
  BY <1>1
<1> QED BY <1>2, RemoteCounted, PTL

---------------------------------------------------------------------------
(* The ring of a neighbour says which HELLOs of the window it acknowledged *)

\* The ring after a HELLO was sent: the new one is not acknowledged, the others keep
\* their slots.
LEMMA SendRing ==
  ASSUME NEW h \in Hosts, NEW H \in Host, Listed(H), NEW G, NEW heard, Sends(H, G, heard),
         NEW acks, Window(H), RingOK(h, H, acks),
         \A p \in Hosts, c \in Channels : <<h, p>> \in Reach =>
           \A k \in acks[<<<<h, p>>, c>>] : k \in 1 .. H.hello_tail
  PROVE  Window(G) /\ RingOK(h, G, acks)
<1>1. /\ G \in Host /\ Listed(G) /\ entries(G) = entries(H) /\ entries(H) \subseteq Slots
      /\ G.hello_head = IF ring_full(H) THEN H.hello_head + 1 ELSE H.hello_head
      /\ G.hello_tail = H.hello_tail + 1
      /\ \A i \in Slots : Advanced(H, H.neighbors[i], G.neighbors[i])
  BY EntriesBound DEF Sends
<1>2. H.hello_head \in Nat /\ H.hello_tail \in Nat
  BY DEF Host
<1>3. ring_full(H) <=> H.hello_tail - H.hello_head = MAX_SEQUENCE_LEN - 1
  BY RingFull
<1>4. /\ Window(G) /\ G.hello_head \in Nat /\ H.hello_head <= G.hello_head
      /\ H.hello_tail + 1 - G.hello_head < MAX_SEQUENCE_LEN
  BY <1>1, <1>2, <1>3, Constants, SMTT(30) DEF Window
<1>5. ASSUME NEW p \in Hosts, NEW c \in Channels, <<h, p>> \in Reach,
             NEW k \in G.hello_head .. G.hello_tail
      PROVE  entry(G, p).hello_sequence[c][slot(k)] = 1 <=> k \in acks[<<<<h, p>>, c>>]
  <2>1. index(G, {p}) = index(H, {p}) /\ index(H, {p}) \in Slots
    <3>1. \A i \in entries(H) : G.neighbors[i].ipaddr = H.neighbors[i].ipaddr
      BY <1>1 DEF Advanced
    <3> QED BY <1>1, <3>1, SameIndex, LookupSlot
  <2>2. Advanced(H, entry(H, p), entry(G, p))
    BY <1>1, <2>1 DEF entry
  <2>3. k \in Int /\ G.hello_head <= k /\ k <= H.hello_tail + 1
    BY <1>1, <1>2, <1>4
  <2>4. slot(k) \in Ring
    BY <2>3, SlotType
  <2>5. entry(G, p).hello_sequence[c][slot(k)] =
          IF slot(k) = slot(H.hello_tail + 1) THEN 0 ELSE entry(H, p).hello_sequence[c][slot(k)]
    BY <2>2, <2>4 DEF Advanced
  <2>6. CASE k = H.hello_tail + 1
    <3>1. k \notin acks[<<<<h, p>>, c>>]
      <4>1. \A n \in acks[<<<<h, p>>, c>>] : n \in 1 .. H.hello_tail
        BY <1>5
      <4>2. k \notin 1 .. H.hello_tail
        BY <1>2, <2>6
      <4> QED BY <4>1, <4>2
    <3> QED BY <2>5, <2>6, <3>1
  <2>7. CASE k # H.hello_tail + 1
    <3> DEFINE t == H.hello_tail + 1
               g == G.hello_head
    <3>1. k < t /\ t - k < MAX_SEQUENCE_LEN /\ t \in Int
      <4>1. k \in Int /\ g <= k /\ k <= t /\ k # t
        BY <2>3, <2>7
      <4>2. t \in Int /\ g \in Int /\ t - g < MAX_SEQUENCE_LEN
        BY <1>2, <1>4
      <4>3. MAX_SEQUENCE_LEN \in Int
        BY Constants
      <4> HIDE DEF t, g
      <4> QED BY <4>1, <4>2, <4>3
    <3>2. slot(k) # slot(t)
      <4> HIDE DEF t
      <4> QED BY <2>3, <3>1, SlotsDiffer
    <3>3. k \in H.hello_head .. H.hello_tail
      BY <1>2, <1>4, <2>3, <2>7
    <3> QED BY <1>5, <2>5, <3>2, <3>3 DEF RingOK
  <2> QED BY <2>6, <2>7
<1> QED BY <1>4, <1>5 DEF RingOK

\* The ring after host d was heard: whoever has no entry yet has acknowledged nothing.
LEMMA ProcessRing ==
  ASSUME Symmetric, NEW h \in Hosts, NEW d \in Hosts, NEW c \in Channels, <<<<d, h>>, c>> \in Links,
         NEW H \in Host, Listed(H), NEW G, NEW heard, Hears(H, G, d, c, heard),
         Clear(h, H), Clear(h, G), NEW acks, Window(H), RingOK(h, H, acks)
  PROVE  Window(G) /\ RingOK(h, G, acks)
<1> DEFINE j == index(H, {d})
<1>1. /\ G \in Host /\ j \in Slots /\ entries(G) = entries(H) \cup {j} /\ Listed(G)
      /\ known(G) = known(H) \cup {d}
      /\ G.hello_head = H.hello_head /\ G.hello_tail = H.hello_tail
      /\ CountedIn(H.neighbors[j], G.neighbors[j], d, c)
      /\ \A i \in Slots \ {j} : G.neighbors[i] = H.neighbors[i]
  BY DEF Hears
<1>2. entries(H) \subseteq Slots /\ j \in entries(G)
  BY <1>1, EntriesBound
<1>3. j \in entries(H) => H.neighbors[j].ipaddr = d
  BY IndexFound
<1>4. G.neighbors[j].ipaddr = d /\ G.neighbors[j].hello_sequence = H.neighbors[j].hello_sequence
  BY <1>1 DEF CountedIn
<1>5. \A p, i : i \in entries(G) /\ G.neighbors[i].ipaddr = p => index(G, {p}) = i
  BY <1>1, IndexKnown
<1>6. \A K \in Host : Listed(K) => \A p : p \notin known(K) => index(K, {p}) \in Slots \ entries(K)
  <2>1. ASSUME NEW K \in Host, Listed(K), NEW p, p \notin known(K)
        PROVE  index(K, {p}) \in Slots \ entries(K)
    <3>1. index(K, {p}) = K.neighbor_num
      BY <2>1, IndexKnown
    <3>2. K.neighbor_num \notin entries(K)
      <4>1. K.neighbor_num \in Nat
        BY Constants DEF Host
      <4> QED BY <4>1 DEF entries
    <3> QED BY <2>1, <3>1, <3>2, LookupSlot
  <2> QED BY <2>1
<1>7. ASSUME NEW p \in Hosts, <<h, p>> \in Reach, NEW b \in Channels, NEW k \in Ring
      PROVE  entry(G, p).hello_sequence[b][k] = entry(H, p).hello_sequence[b][k]
  <2>1. CASE p = d
    <3>1. index(G, {p}) = j
      BY <1>2, <1>4, <1>5, <2>1
    <3> QED BY <1>4, <2>1, <3>1 DEF entry
  <2>2. CASE p # d /\ p \in known(H)
    <3> DEFINE i == index(H, {p})
    <3>1. i \in entries(H) /\ H.neighbors[i].ipaddr = p
      BY <2>2, IndexKnown
    <3>2. i # j
      BY <1>3, <2>2, <3>1
    <3>3. i \in Slots /\ G.neighbors[i] = H.neighbors[i] /\ i \in entries(G)
      BY <1>1, <1>2, <3>1, <3>2
    <3>4. index(G, {p}) = i
      <4> HIDE DEF i
      <4> QED BY <1>5, <3>1, <3>3
    <3> QED BY <3>3, <3>4 DEF entry
  <2>3. CASE p # d /\ p \notin known(H)
    <3>1. ~Lone(h)
      <4>1. <<d, h>> \in Reach
        BY DEF Links
      <4>2. <<h, d>> \in Reach
        BY <4>1 DEF Symmetric
      <4> QED BY <1>7, <2>3, <4>2 DEF Lone
    <3>2. index(H, {p}) \in Slots \ entries(H) /\ index(G, {p}) \in Slots \ entries(G)
      BY <1>1, <1>6, <2>3
    <3>3. entry(H, p).hello_sequence[b][k] = 0 /\ entry(G, p).hello_sequence[b][k] = 0
      BY <3>1, <3>2 DEF Clear, entry
    <3> QED BY <3>3
  <2> QED BY <2>1, <2>2, <2>3
<1>8. Window(G)
  BY <1>1 DEF Window
<1>9. RingOK(h, G, acks)
  <2>1. \A k \in H.hello_head .. H.hello_tail : slot(k) \in Ring
    BY SlotType DEF Host
  <2> QED BY <1>1, <1>7, <2>1 DEF RingOK
<1> QED BY <1>8, <1>9

\* In the window, the ring of host src's entry in G has HELLO n marked besides those
\* in acks.
RingMarks(h, G, src, c, n, acks) ==
  \A p \in Hosts, b \in Channels :
    <<h, p>> \in Reach =>
      \A k \in G.hello_head .. G.hello_tail :
        entry(G, p).hello_sequence[b][slot(k)] = 1 <=>
          k \in acks[<<<<h, p>>, b>>] \/ (p = src /\ b = c /\ k = n)

\* The ring after an acknowledgement of host src: the HELLO it is for is marked when
\* it is still in the window, and no other.
LEMMA AckRing ==
  ASSUME NEW h \in Hosts, NEW src \in Hosts, NEW c \in Channels, <<h, src>> \in Reach,
         NEW H \in Host, Listed(H), NEW G, NEW ack \in Ack, NEW heard, Takes(H, G, src, c, ack, heard),
         src \in known(H) \/ Lone(h),
         ack.of \in 1 .. H.hello_tail, ack.hello_index = ack.of,
         NEW acks, Window(H), RingOK(h, H, acks)
  PROVE  Window(G) /\ RingMarks(h, G, src, c, ack.of, acks)
<1> DEFINE j == index(H, {src})
<1>1. /\ G \in Host /\ j \in Slots /\ entries(G) = entries(H) /\ Listed(G)
      /\ G.hello_head = H.hello_head /\ G.hello_tail = H.hello_tail
      /\ AckedIn(H, H.neighbors[j], G.neighbors[j], c, ack)
      /\ \A i \in Slots \ {j} : G.neighbors[i] = H.neighbors[i]
  BY DEF Takes
<1>2. H.hello_head \in Nat /\ H.hello_tail \in Nat /\ ack.of \in Int /\ entries(H) \subseteq Slots
  BY EntriesBound DEF Host
<1>3. \A i \in Slots : G.neighbors[i].ipaddr = H.neighbors[i].ipaddr
  BY <1>1 DEF AckedIn
<1>4. ASSUME NEW p \in Hosts, NEW b \in Channels, <<h, p>> \in Reach,
             NEW k \in H.hello_head .. H.hello_tail
      PROVE  entry(G, p).hello_sequence[b][slot(k)] = 1 <=>
               k \in acks[<<<<h, p>>, b>>] \/ (p = src /\ b = c /\ k = ack.of)
  <2>1. index(G, {p}) = index(H, {p}) /\ index(H, {p}) \in Slots
    BY <1>1, <1>2, <1>3, SameIndex, LookupSlot
  <2>2. entry(H, p).hello_sequence[b][slot(k)] = 1 <=> k \in acks[<<<<h, p>>, b>>]
    BY <1>4 DEF RingOK
  <2>3. k \in Int /\ H.hello_head <= k /\ k <= H.hello_tail /\ slot(k) \in Ring
    BY <1>2, SlotType
  <2>5. CASE index(H, {p}) # j
    <3>1. p # src
      BY <2>5
    <3>2. entry(G, p) = entry(H, p)
      BY <1>1, <2>1, <2>5 DEF entry
    <3> QED BY <2>2, <3>1, <3>2
  <2>6. CASE index(H, {p}) = j
    <3>1. p = src
      BY <1>4, <2>6, OwnEntry
    <3>2. entry(G, p).hello_sequence[b][slot(k)] =
            IF b = c /\ slot(k) = slot(ack.of) /\ ack.of >= H.hello_head
            THEN 1 ELSE entry(H, p).hello_sequence[b][slot(k)]
      <4>1. AckedIn(H, entry(H, p), entry(G, p), c, ack)
        BY <1>1, <2>1, <2>6 DEF entry
      <4> QED BY <2>3, <4>1 DEF AckedIn
    <3>3. ack.of >= H.hello_head => (slot(k) = slot(ack.of) <=> k = ack.of)
      <4>1. ASSUME ack.of >= H.hello_head, k < ack.of PROVE slot(k) # slot(ack.of)
        <5>1. ack.of - k < MAX_SEQUENCE_LEN
          BY <1>2, <2>3, <4>1, Constants DEF Window
        <5> QED BY <1>2, <2>3, <4>1, <5>1, SlotsDiffer
      <4>2. ASSUME ack.of >= H.hello_head, ack.of < k PROVE slot(k) # slot(ack.of)
        <5>1. k - ack.of < MAX_SEQUENCE_LEN
          BY <1>2, <2>3, <4>2, Constants DEF Window
        <5> QED BY <1>2, <2>3, <4>2, <5>1, SlotsDiffer
      <4>3. k = ack.of => slot(k) = slot(ack.of)
        OBVIOUS
      <4> QED BY <1>2, <2>3, <4>1, <4>2, <4>3
    <3>4. ~(ack.of >= H.hello_head) => k # ack.of
      BY <1>2, <2>3
    <3> QED BY <2>2, <3>1, <3>2, <3>3, <3>4
  <2> QED BY <2>5, <2>6
<1>5. Window(G)
  BY <1>1 DEF Window
<1> QED BY <1>1, <1>4, <1>5 DEF RingMarks

\* A step that changes one host, and what is acknowledged to it.
LEMMA RingStep ==
  ASSUME StatsInv, StatsInv', RingInv,
         NEW h \in Hosts, NEW G, this_host' = [this_host EXCEPT ![h] = G],
         this_host[h].hello_tail <= G.hello_tail,
         Window(G), RingOK(h, G, acked'),
         \A l \in Links : l[1][1] # h => acked'[l] = acked[l],
         \A l \in Links : \A k \in acked'[l] : k \in acked[l] \/ k \in 1 .. this_host[l[1][1]].hello_tail
  PROVE  RingInv'
<1>1. /\ this_host \in [Hosts -> Host] /\ this_host' \in [Hosts -> Host]
      /\ acked \in [Links -> SUBSET Nat]
  BY DEF StatsInv, StatsType
<1>2. \A g \in Hosts : this_host'[g] = IF g = h THEN G ELSE this_host[g]
  BY <1>1
<1>3. ASSUME NEW g \in Hosts PROVE Window(this_host'[g]) /\ RingOK(g, this_host'[g], acked')
  <2>1. CASE g = h
    BY <1>2, <2>1
  <2>2. CASE g # h
    <3>1. this_host'[g] = this_host[g] /\ Window(this_host[g]) /\ RingOK(g, this_host[g], acked)
      BY <1>2, <2>2 DEF RingInv
    <3>2. ASSUME NEW p \in Hosts, NEW c \in Channels, <<g, p>> \in Reach
          PROVE  acked'[<<<<g, p>>, c>>] = acked[<<<<g, p>>, c>>]
      <4>1. <<<<g, p>>, c>> \in Links
        BY <3>2 DEF Links
      <4> QED BY <2>2, <4>1
    <3>3. RingOK(g, this_host[g], acked')
      BY <3>1, <3>2 DEF RingOK
    <3> QED BY <3>1, <3>3
  <2> QED BY <2>1, <2>2
<1>4. ASSUME NEW l \in Links, NEW k \in acked'[l]
      PROVE  k \in 1 .. this_host'[l[1][1]].hello_tail
  <2>1. l[1][1] \in Hosts
    BY LinkEnds
  <2>2. k \in 1 .. this_host[l[1][1]].hello_tail
    BY DEF RingInv
  <2>3. \A g \in Hosts : this_host[g].hello_tail \in Nat /\ this_host'[g].hello_tail \in Nat
    BY <1>1 DEF Host
  <2>4. this_host[l[1][1]].hello_tail <= this_host'[l[1][1]].hello_tail
    BY <1>2, <2>1, <2>3
  <2> QED BY <2>1, <2>2, <2>3, <2>4
<1> QED BY <1>3, <1>4 DEF RingInv

\* At the start no HELLO is in the ring.
LEMMA InitRing == Init => RingInv
<1> SUFFICES ASSUME Init PROVE RingInv
  OBVIOUS
<1>1. StatsInv
  BY InitStats
<1>2. ASSUME NEW h \in Hosts
      PROVE  Window(this_host[h]) /\ RingOK(h, this_host[h], acked)
  <2> DEFINE H == this_host[h]
  <2>1. H \in Host /\ Listed(H)
    BY <1>1 DEF StatsInv, StatsType
  <2>2. H = host_info
    BY DEF Init
  <2>3. /\ \A i \in Slots : H.neighbors[i] = neighbor_info
        /\ H.hello_head = 0 /\ H.hello_tail = 0
    BY <2>2 DEF host_info, Slots
  <2> HIDE DEF H
  <2>4. Window(H)
    BY <2>3, Constants DEF Window
  <2>5. ASSUME NEW p \in Hosts, NEW c \in Channels, <<h, p>> \in Reach, NEW k \in 0 .. 0
        PROVE  entry(H, p).hello_sequence[c][slot(k)] = 1 <=> k \in acked[<<<<h, p>>, c>>]
    <3>1. entry(H, p) = neighbor_info
      BY <2>1, <2>3, LookupSlot DEF entry
    <3>2. neighbor_info.hello_sequence[c][slot(k)] = 0
      BY SlotType DEF neighbor_info
    <3>3. <<<<h, p>>, c>> \in Links
      BY <2>5 DEF Links
    <3>4. acked[<<<<h, p>>, c>>] = {}
      BY <3>3 DEF Init
    <3> QED BY <3>1, <3>2, <3>4
  <2>6. RingOK(h, H, acked)
    BY <2>3, <2>5 DEF RingOK
  <2> QED BY <2>4, <2>6 DEF H
<1>3. \A l \in Links : acked[l] = {}
  BY DEF Init
<1> QED BY <1>2, <1>3 DEF RingInv

\* A HELLO is sent: the window moves.
LEMMA SendRings ==
  ASSUME StatsInv, RingInv, NEW h \in Hosts, hello_send(h), StatsInv'
  PROVE  RingInv'
<1> DEFINE H == this_host[h]
<1>1. PICK G :
        /\ Sends(H, G, was_heard[h][2])
        /\ this_host' = [this_host EXCEPT ![h] = G]
        /\ acked' = acked
  BY SendFacts
<1>2. H \in Host /\ Listed(H) /\ Window(H) /\ RingOK(h, H, acked)
  BY DEF StatsInv, StatsType, RingInv
<1>3. H.hello_tail <= G.hello_tail
  <2>1. H.hello_tail \in Nat /\ G.hello_tail = H.hello_tail + 1
    BY <1>1, <1>2 DEF Host, Sends
  <2> QED BY <2>1
<1>4. ASSUME NEW p \in Hosts, NEW c \in Channels, <<h, p>> \in Reach, NEW k \in acked[<<<<h, p>>, c>>]
      PROVE  k \in 1 .. H.hello_tail
  <2>1. <<<<h, p>>, c>> \in Links
    BY <1>4 DEF Links
  <2> QED BY <2>1 DEF RingInv
<1>5. Window(G) /\ RingOK(h, G, acked)
  <2> HIDE DEF H
  <2> QED BY <1>1, <1>2, <1>4, SendRing
<1> HIDE DEF H
<1> QED BY <1>1, <1>3, <1>5, RingStep DEF H

\* A HELLO arrives: what is known of the own HELLOs stays.
LEMMA ProcessRings ==
  ASSUME 0 \notin Hosts, Symmetric, StatsInv, CountInv, RingInv,
         NEW l \in Links, hello_process(l), StatsInv', CountInv'
  PROVE  RingInv'
<1> DEFINE d == l[1][1]
           h == l[1][2]
           c == l[2]
           H == this_host[h]
<1>1. d \in Hosts /\ h \in Hosts /\ c \in Channels /\ <<<<d, h>>, c>> \in Links
  BY LinkEnds
<1>2. PICK G :
        /\ Hears(H, G, d, c, was_heard[h][2])
        /\ this_host' = [this_host EXCEPT ![h] = G]
        /\ acked' = acked
  BY ProcessFacts
<1>3. /\ H \in Host /\ Listed(H) /\ Window(H) /\ RingOK(h, H, acked) /\ Clear(h, H)
      /\ this_host' [h] = G
  BY <1>1, <1>2 DEF StatsInv, StatsType, RingInv, CountInv, Counts
<1>4. Clear(h, G)
  BY <1>1, <1>3 DEF CountInv, Counts
<1>5. H.hello_tail <= G.hello_tail
  <2>1. H.hello_tail \in Nat /\ G.hello_tail = H.hello_tail
    BY <1>2, <1>3 DEF Host, Hears
  <2> QED BY <2>1
<1>6. Window(G) /\ RingOK(h, G, acked)
  <2> HIDE DEF H, d, h, c
  <2> QED BY <1>1, <1>2, <1>3, <1>4, ProcessRing
<1> HIDE DEF h, H
<1> QED BY <1>1, <1>2, <1>5, <1>6, RingStep DEF H

\* An acknowledgement arrives: as long as the number of a HELLO fits into eight bits
\* it is the right slot that is marked.
LEMMA AckRings ==
  ASSUME \A h \in Hosts : MaxHellos[h] < BYTE, StatsInv, CountInv, RingInv,
         NEW l \in Links, rrep_ack_process(l), NotBorrowed, StatsInv'
  PROVE  RingInv'
<1> DEFINE src == l[1][1]
           h == l[1][2]
           c == l[2]
           ack == Head(wire[l])
           H == this_host[h]
<1>1. src \in Hosts /\ h \in Hosts /\ c \in Channels /\ back(l) = <<<<h, src>>, c>>
  BY LinkEnds DEF back
<1>2. PICK G :
        /\ wire[l] # <<>> /\ ack \in Ack
        /\ Takes(H, G, src, c, ack, was_heard[h][2])
        /\ this_host' = [this_host EXCEPT ![h] = G]
        /\ acked' = [acked EXCEPT ![back(l)] = @ \cup {ack.of}]
  BY AckFacts
<1>3. /\ H \in Host /\ Listed(H) /\ Window(H) /\ RingOK(h, H, acked) /\ acked \in [Links -> SUBSET Nat]
      /\ wire \in [Links -> Seq(Hello \cup Ack)] /\ H.hello_tail <= MaxHellos[h]
      /\ MaxHellos[h] \in Nat
  BY <1>1, HelloStatsAssumption DEF StatsInv, StatsType, RingInv
<1>4. src \in known(H) \/ Lone(h)
  BY DEF NotBorrowed
<1>5. /\ <<h, src>> \in Reach /\ back(l) \in Links
      /\ ack.of \in 1 .. H.hello_tail /\ ack.hello_index = ack.of % BYTE
  <2>1. Truthful(l, ack, this_host, received)
    BY <1>2, <1>3, Frames DEF CountInv
  <2>2. ack.type = "ACK"
    BY <1>2 DEF Ack
  <2>3. back(l) \in Links /\ ack.of \in 1 .. H.hello_tail /\ ack.hello_index = ack.of % BYTE
    BY <2>1, <2>2 DEF Truthful
  <2> HIDE DEF src, h, c, ack, H
  <2> QED BY <1>1, <2>3 DEF Links
<1>6. H.hello_tail \in Nat
  BY <1>3 DEF Host
<1>7. ack.hello_index = ack.of
  <2>1. MaxHellos[h] < BYTE
    BY <1>1
  <2> HIDE DEF H, h, ack
  <2>2. ack.of \in Nat /\ ack.of < BYTE /\ BYTE \in Nat
    BY <1>3, <1>5, <1>6, <2>1, Constants
  <2> QED BY <1>5, <2>2
<1>8. Window(G) /\ RingOK(h, G, acked')
  <2>1. Window(G) /\ RingMarks(h, G, src, c, ack.of, acked)
    <3>1. Window(H) /\ RingOK(h, H, acked) /\ H \in Host /\ Listed(H)
      BY <1>3
    <3>2. src \in Hosts /\ h \in Hosts /\ c \in Channels /\ <<h, src>> \in Reach
      BY <1>1, <1>5
    <3>3. Takes(H, G, src, c, ack, was_heard[h][2]) /\ ack \in Ack
      BY <1>2
    <3>4. ack.of \in 1 .. H.hello_tail /\ ack.hello_index = ack.of /\ (src \in known(H) \/ Lone(h))
      BY <1>4, <1>5, <1>7
    <3> HIDE DEF H, h, c, src, ack
    <3> QED BY <3>1, <3>2, <3>3, <3>4, AckRing
  <2>2. ASSUME NEW p \in Hosts, NEW b \in Channels, <<h, p>> \in Reach
        PROVE  acked'[<<<<h, p>>, b>>] =
                 IF p = src /\ b = c THEN acked[<<<<h, p>>, b>>] \cup {ack.of} ELSE acked[<<<<h, p>>, b>>]
    <3>1. <<<<h, p>>, b>> \in Links
      BY <2>2 DEF Links
    <3>2. acked' = [acked EXCEPT ![<<<<h, src>>, c>>] = @ \cup {ack.of}]
      BY <1>1, <1>2
    <3> HIDE DEF h, src, c, ack
    <3> QED BY <1>3, <3>1, <3>2
  <2> HIDE DEF H, h, c, src, ack
  <2>3. ASSUME NEW p \in Hosts, NEW b \in Channels, <<h, p>> \in Reach,
               NEW k \in G.hello_head .. G.hello_tail
        PROVE  entry(G, p).hello_sequence[b][slot(k)] = 1 <=> k \in acked'[<<<<h, p>>, b>>]
    <3>1. entry(G, p).hello_sequence[b][slot(k)] = 1 <=>
            k \in acked[<<<<h, p>>, b>>] \/ (p = src /\ b = c /\ k = ack.of)
      BY <2>1, <2>3 DEF RingMarks
    <3> QED BY <2>2, <2>3, <3>1
  <2> QED BY <2>1, <2>3 DEF RingOK
<1>9. H.hello_tail <= G.hello_tail
  <2>1. G.hello_tail = H.hello_tail
    BY <1>2 DEF Takes
  <2> QED BY <1>6, <2>1
<1>10. ASSUME NEW m \in Links, m[1][1] # h PROVE acked'[m] = acked[m]
  BY <1>1, <1>2, <1>3, <1>10
<1>11. ASSUME NEW m \in Links, NEW k \in acked'[m]
       PROVE  k \in acked[m] \/ k \in 1 .. this_host[m[1][1]].hello_tail
  <2>1. CASE m = back(l)
    <3>1. m[1][1] = h
      BY <1>1, <2>1
    <3>2. k \in acked[m] \/ k = ack.of
      BY <1>2, <1>3, <1>11, <2>1
    <3> QED BY <1>5, <3>1, <3>2
  <2>2. CASE m # back(l)
    BY <1>2, <1>3, <1>11, <2>2
  <2> QED BY <2>1, <2>2
<1>12. \A m \in Links : \A k \in acked'[m] : k \in acked[m] \/ k \in 1 .. this_host[m[1][1]].hello_tail
  BY <1>11
<1> HIDE DEF h, H, src, c, ack
<1> QED BY <1>1, <1>2, <1>8, <1>9, <1>10, <1>12, RingStep DEF H

\* A frame is lost: nothing is acknowledged.
LEMMA LoseRings ==
  ASSUME RingInv, NEW l \in Links, Lose(l)
  PROVE  RingInv'
BY DEF Lose, history, RingInv

\* A hello timer stops: the rings stay.
LEMMA TimeoutRings ==
  ASSUME StatsInv, RingInv, NEW h \in Hosts, NEW d, hello_timeout(h, d), StatsInv'
  PROVE  RingInv'
<1> DEFINE H == this_host[h]
           G == [H EXCEPT !.hello_timers = @ \ {d}]
<1>1. H \in Host /\ Listed(H) /\ Marked(H, was_heard[h][2]) /\ Window(H) /\ RingOK(h, H, acked)
  BY DEF StatsInv, StatsType, RingInv
<1>2. this_host' = [this_host EXCEPT ![h] = G] /\ acked' = acked
  BY DEF hello_timeout, history, StatsInv, StatsType
<1> HIDE DEF H
<1>3. /\ G.neighbors = H.neighbors /\ G.neighbor_num = H.neighbor_num
      /\ G.hello_head = H.hello_head /\ G.hello_tail = H.hello_tail
  BY <1>1, TimeoutStep
<1> HIDE DEF G
<1>4. \A p : entry(G, p) = entry(H, p)
  BY <1>3 DEF entries, index, entry
<1>5. Window(G) /\ RingOK(h, G, acked)
  BY <1>1, <1>3, <1>4 DEF Window, RingOK
<1>6. H.hello_tail <= G.hello_tail
  <2>1. H.hello_tail \in Nat
    BY <1>1 DEF Host
  <2> QED BY <1>3, <2>1
<1> QED BY <1>2, <1>5, <1>6, RingStep DEF H

\* Every step keeps the rings right, as long as no entry is borrowed and the numbers
\* fit into eight bits.
LEMMA NextRing ==
  ASSUME 0 \notin Hosts, Symmetric, \A h \in Hosts : MaxHellos[h] < BYTE,
         StatsInv, CountInv, RingInv, [Next]_vars, [NotBorrowed]_vars
  PROVE  RingInv'
<1>1. StatsInv' /\ CountInv'
  BY NextStats, NextCount
<1>2. CASE UNCHANGED vars
  <2>1. this_host' = this_host /\ acked' = acked
    BY <1>2 DEF vars, history
  <2> QED BY <2>1 DEF RingInv
<1>3. CASE Next /\ NotBorrowed
  <2>1. ASSUME NEW h \in Hosts, hello_send(h) PROVE RingInv'
    BY <1>1, <2>1, SendRings
  <2>2. ASSUME NEW l \in Links, hello_process(l) PROVE RingInv'
    BY <1>1, <2>2, ProcessRings
  <2>3. ASSUME NEW l \in Links, rrep_ack_process(l) PROVE RingInv'
    BY <1>1, <1>3, <2>3, AckRings
  <2>4. ASSUME NEW l \in Links, Lose(l) PROVE RingInv'
    BY <2>4, LoseRings
  <2>5. ASSUME NEW h \in Hosts, NEW d \in Hosts, hello_timeout(h, d) PROVE RingInv'
    BY <1>1, <2>5, TimeoutRings
  <2> QED BY <1>3, <2>1, <2>2, <2>3, <2>4, <2>5 DEF Next
<1> QED BY <1>2, <1>3

\* What the invariant says of the property the runs check.
LEMMA RingImplies ==
  ASSUME Symmetric, StatsInv, CountInv, RingInv PROVE RingIsHistory
<1>1. ASSUME NEW h \in Hosts, NEW i \in entries(this_host[h]), NEW c \in Channels,
             NEW k \in this_host[h].hello_head .. this_host[h].hello_tail
      PROVE  this_host[h].neighbors[i].hello_sequence[c][slot(k)] = 1 <=> k \in acked[link(h, i, c)]
  <2>1. RingOK(h, this_host[h], acked)
    BY DEF RingInv
  <2> QED BY <2>1, EntryOf DEF RingOK, link
<1> QED BY <1>1 DEF RingIsHistory

\* The ring of an entry is the history of its neighbour's acknowledgements, for any
\* hosts, losses and order, without borrowed entries and wrapped numbers.
THEOREM RingRemembers ==
  ASSUME 0 \notin Hosts, Symmetric, \A h \in Hosts : MaxHellos[h] < BYTE
  PROVE  Spec /\ [][NotBorrowed]_vars => []RingIsHistory
<1> DEFINE Inv == StatsInv /\ CountInv /\ RingInv
<1>1. Init => Inv
  BY InitStats, InitCount, InitRing
<1>2. Inv /\ [Next]_vars /\ [NotBorrowed]_vars => Inv'
  BY NextStats, NextCount, NextRing
<1>3. Inv => RingIsHistory
  BY RingImplies
<1> QED BY <1>1, <1>2, <1>3, PTL DEF Spec

\* In a network of pairs it is so with every order of steps.
THEOREM RingRemembersInPairs ==
  ASSUME 0 \notin Hosts, Symmetric, \A h \in Hosts : Lone(h), \A h \in Hosts : MaxHellos[h] < BYTE
  PROVE  Spec => []RingIsHistory
<1>1. NotBorrowed
  BY LoneNotBorrowed
<1>2. [NotBorrowed]_vars
  BY <1>1
<1> QED BY <1>2, RingRemembers, PTL
=============================================================================
