# AODV-UU with several channels: a TLA+ verification project

The repository is AODV-UU 0.96, the AODV routing protocol as an ns-2 agent,
modified so that a node has several radio channels, routes carry a channel and a
cost measured by HELLO messages, and broken routes may be repaired locally, with
the 802.11 MAC of ns-2 below it. This project models

* one node in the most general environment: what its handlers do to the routing
  table, the list of destinations being sought and the packet queue, in whatever
  order messages, timers and link-layer callbacks come, without and with local
  repair;
* several such nodes that exchange their messages over links that lose and
  reorder packets and break;
* the bookkeeping beside the routing table: HELLO statistics and link costs, and
  the limits on how often requests and errors are sent;
* one station of the MAC, and what it promises to the layers above.

## 1. Inventory

Paths without a directory are under `src/code/aodv-uu-0.96/`.

| Component | State | Operations | What makes it correct |
|---|---|---|---|
| Routing table (`routing_table.c`) | entries (state, next hop, hop count, seqno, channel, cost, flags, three timers, precursors), `num_entries`, `num_active` | insert, update (with and without channel), update_timeout, update_route_timeouts, invalidate, delete, precursors | states and timers of an entry agree; a route that becomes usable releases what waits for it; the counters count |
| Route requests (`aodv_rreq.c`) | `rreq_records`, `rreq_blacklist`, `seqno`, `rreq_id` | discovery, process, forward, record and blacklist timeouts, local repair | a discovery ends; floods are new; only fresh routes replace routes |
| Route replies (`aodv_rrep.c`) | acknowledgement timers of neighbours | create, send, process, forward, ack | a reply reaches its originator; a node waits only for acks it asked for |
| Route errors (`aodv_rerr.c`) | `rerr_records`, a static shared by all nodes of a simulation | create, add_udest, process, record timeout | every listed destination is invalidated and passed on |
| HELLO (`aodv_hello.c`) | HELLO timers and counts | send, process, acknowledge | a silent neighbour is noticed |
| Channel cost and link statistics (`aodv_hello.c`, `aodv_rrep.c`, `ns-2/aodv-uu.h`) | `neighbors[20]` with rings of the last HELLOs and counts per channel, `hello_head`, `hello_tail`, `stability` | update at each HELLO, HELLO received and acknowledged, getCost | the statistics are those of the link they are kept for, whatever is lost or late |
| Local repair (`aodv_rreq.c`, `aodv_rrep.c`, `aodv_rerr.c`, `aodv_timeout.c`) | `RT_REPAIR` marks, several seek-list entries for one address, `rerr_id` | mark, seek, relay, answer, mend, give up | a lost route is reported or mended; a repair ends; no packet is left behind |
| Timeouts (`aodv_timeout.c`) | - | discovery, expiry, deletion, HELLO, ack, reboot, local repair | a lost neighbour takes all routes through it and is reported |
| Socket (`aodv_socket.c`) | `recv_buf`, `send_buf`, `rreq_ratel`, `rerr_ratel` | process_packet, send, new_msg | a message is sent as it was built; the rate limits hold and drop nothing else |
| Packet queue (`ns-2/packet_queue.cc`) | buffered packets, `PQ.len` | add, set_verdict (send, drop), garbage collection | bounded; nothing is left behind |
| Packet input (`ns-2/packet_input.cc`) | - | processPacket | a packet is sent, buffered for a discovery, or its source is told |
| ns-2 agent (`ns-2/aodv-uu.cc`) | `channelNum`, `wait_on_reboot` | start, recv, packetFailed, sendPacket | - |
| Neighbour module, seek list, timer queue | seek list | neighbor_add, neighbor_link_break, seek_list_* | not in the repository; modelled from their use |
| 802.11 MAC (`src/code/mac/`) | transmit and receive state, six timers, pending packet, RTS, CTS/ACK, contention window, retry counts, duplicate cache | send, recv, timer handlers, retransmission | each packet's fate is settled and reported once; nothing is passed up twice; half duplex |
| Trace, Tcl, packet header | - | - | beside the protocol; not modelled |

Components interact by calls inside one event. ns-2 runs each event
(`Agent::recv`, a timer, a link-layer callback) to completion, so there is no
concurrency inside a node; what is hard is the order of events. A route may
appear as the side effect of a message about something else; one timer serves
both expiry and deletion; one send buffer serves every message under
construction; and `rerr_records` couples nodes that never exchange a message.
`PROJECT.json` lists the hazards line by line.

## 2. Modules

* **`RoutingTable`** - `routing_table.c`, the packet queue, the seek
  list and the neighbour module. Every operation is an operator from a host
  record to a host record, with the statements of the C function in their order,
  so that a handler is a chain of them and an action is the whole handler. The
  host record is `struct host_info` plus the static lists of the agent. An entry
  is a record per address (`NoEntry` when there is none), since the insert
  functions refuse a second entry for an address.
* **`AodvControl`** - the handlers: RREQ, RREP, RERR, HELLO, timeouts,
  `processPacket`, `packetFailed`, and the dispatch of control messages; the types of
  messages, packets and hosts.
* **`AodvNode`** - the state machine of one node. `host` is its state and
  `rerr_records` the shared list. One action per event: five kinds of control
  message, data packets, link failure, nine timers, and the two steps by which
  other nodes change the shared list.
* **`LocalRepair`** - the handlers with the option `local_repair`: marking,
  `rreq_local_repair`, `rreq_process_lr`, `rrep_process_lr`, `RERR_LR`,
  `local_repair_timeout`, and the parts of `packetFailed`, `hello_timeout` and
  `processPacket` that differ. **`RepairNode`** is the node with these handlers; it
  starts with the table it has after the messages of `History`.
* **`AodvNetwork`** - several nodes with the handlers of `AodvControl`, the packets
  in flight between them, links that break, and the `rerr_records` they share.
* **`HelloStats`** - `hello_send` with the costs and the stability classifier, the
  head of `hello_process`, the HELLO part of `rrep_ack_process`, between hosts
  joined by links that lose frames and keep their order.
* **`RateLimit`** - the limiter of `aodv_socket_send` under the discoveries,
  retries, forwarded requests and errors that call it, with a clock.
* **`Mac80211`** - one station of `mac-802_11.cc` in the ad hoc mode of the
  scenarios; **`LinkService`** - what the interface queue above relies on, which
  `Mac80211` is shown to implement.
* **`MCNode`, `MCRepair`, `MCNetwork`, `MCHello`, `MCRate`, `MCMac`** - the
  messages, topologies, views and symmetries of the TLC instances.
* **`AodvNode_proofs`**, **`AodvNetwork_proofs`**, **`RepairNode_proofs`**,
  **`HelloStats_proofs`**, **`RateLimit_proofs`**, **`Mac80211_proofs`** - the theorems
  about these six modules and their proofs (section 4). The lemmas about the operations
  that the first two share are in **`AodvControl_proofs`**.

What is abstracted:

* *Time.* An armed timer may fire at any moment and a lifetime matters only
  through being zero or not. The handler of `rt_timer` and whether each of the
  three timers of an entry runs are state.
* *Packets.* A data packet is its source and destination; the queue is a count
  per destination and origin, and the packet that goes when the queue is full is
  any one that is there.
* *Sent messages.* `host.out` holds what the current event sent. `sendPacket`
  records the channel it really uses, `channelNum`.
* *Cost.* The link cost comes from `LinkCost` instead of the floating-point
  `getCost`. `log(MAX_NUM)` is the integer `NoExtCost`.
* *Addresses.* Hash buckets are in the order of addresses, as `hashing` gives for
  addresses below the table size.
* *RERR layout.* A RERR is its first destination and the set of all; `rerr_read`
  says which of them the receiver reads, given where the writer put them.

Kept exactly: integer widths of sequence numbers and counters (as the constants
`SeqnoMod` and `CounterMod`, so that the wrap is within reach), the signed
comparison of sequence numbers, every early return, and the order in which a
handler changes state. `htonl` and `ntohl` are the identity in the ns-2 port.

`AodvNode` and `AodvNetwork` have the configuration the agent's constructor sets:
`local_repair = 0`, `optimized_hellos = 0`; `RepairNode` has the Tcl-bound option
`local_repair` on. `unidir_hack`, `llfeedback`, `receive_n_hellos`,
`rreq_gratuitous` and `expanding_ring_search` are constants of the model.

### Environment

A message of the sets `RREQs`, `RREPs`, `RERRs` may arrive at any time, any
number of times and in any order from any neighbour that could have sent it: a
request with hop count 0 comes from its originator and only such a one does, a
reply with hop count 0 from its destination, and a node sends no RERR about
itself. Loss is a message that never arrives. That the nodes send no other messages is
`MessagesAsAssumed`, which `NetLoop` checks and `AodvNetwork_proofs` proves of every
network without HELLOs.

### Local repair

A failed RREQ_LR is followed by plain requests; the flags of a retry matter only to
their receivers. `RREQ_LOCAL_REPAIR` is 0x16, which also sets the r and g flags.
`rreq_local_repair` enters the next hop in the seek list without looking for it
there, so an address may have several entries: `seek` is the one `seek_list_find`
returns and `dup` holds the others. The interface queue is at most one pending
packet. An uninitialised `rerr_unicast_dest` is any address (`junk`).
The destinations that a RREQ_LR or RREP_LR names are a sequence in the order of its
extensions, which the code keeps from end to end: the repaired destination first, unless
it is the lost next hop itself, then the table order (`behind`); the answer copies them
and a relay takes them over one by one, the one that answered last.

### Network

A packet in flight is one copy for one receiver on one channel; identical copies
coalesce. `Deliver` is the receiver's whole handler, `Fail` the link-layer callback
to the sender of a unicast packet over a broken link or of a lost data packet. Two
guards stand for the timing of the code and are needed: a discovery times out only
when nothing is in flight (`RING_TRAVERSAL_TIME` is an upper bound of a round
trip), and a route is deleted only when nothing is in flight and no VALID route
elsewhere leads through the node (`DELETE_PERIOD` is longer than a route lives
unused). Without the second, TLC finds loops through an entry forgotten too early.
HELLOs are not part of it.

### HELLO statistics

`neighbors[20]` is a function from slots to entries, with the entry behind the last
one in reach, since `rrep_ack_process` writes there. The three look-ups of the code
(by address, by address or 0, by address for marks) are `index` with different
sets. A cost is the record of what it is computed from. The stability classifier is
in thousandths; the state and signal of the MACs are inputs. `update_neighbor_info`
appends an entry for every host being heard that has none, in the order of the hash
table, which is any order of them (`HeardHasEntry` says that there are none). Reads beyond the two
stability rings contribute any value they can. The 8-bit fields of an
acknowledgement are modulo `BYTE`; `of` in an acknowledgement, `acked`, `received`
and `was_heard` are history. `neighbor_sta`, which nothing reads, is left out. HELLOs
and acknowledgements of a link stay in order, as the interface queue and the MAC
keep them.

### Rate limits

Time advances in ticks. `RING_TRAVERSAL_TIME` is longer than the window, as 1190 ms
are than 1000. A flood is `Channel_Count` calls in a row; since nothing happens between them, they
are one action: the first `k` calls pass and the rest are dropped, where `k` is the
number for which each of the first `k` finds the window open and the next one does not.

### MAC

The members of `Mac802_11` are one record; a function of the source is an operator
on it; a timer handler or an entry from above or below is an action. Time is left
out except for its order: the guards of the timers say which cannot run out before
which (SIFS before DIFS, a frame longer than SIFS, the transmit-complete timer of
the interface no later than that of the sender). The medium is arbitrary: any frame
may start at any moment, collide, capture or be damaged. `LinkService` holds one
packet, settles its fate once and then answers the queue's handler.

## 3. Runs

| Run | Instance | Checks | Distinct states |
|---|---|---|---|
| `NodeDiscovery` | 3 nodes, link-layer feedback, start after a reboot, one retry, queue of one packet | `TypeOK`, `SoughtRouteUnusable`, `BufferedPacketsAwaitDiscovery`, `QueueWithinLimit`, `KnownStaysKnown` | 276,440 |
| `NodeRelay` | 4 nodes, HELLOs, gratuitous replies, requested acks, RERRs with one and two destinations | `InvalidRoutesWillGo`, `LinkBreakReported` | 119,552 |
| `NodeUnidir` | 2 nodes, `unidir_hack`, two HELLOs needed | `SoughtRouteUnusable`, `DiscoveryEnds` | 30,332 |
| `RepairLink` | relay of 4 nodes that loses its next hop by missed HELLOs and repairs, as a neighbour does | `RepairTypeOK`, `LostRoutesWillGo`, `QueueWithinLimit`, `LinkBreakReportedOrKept`, `ReplyMendsAll`, `RepairDiscoveryEnds` | 46,267 |
| `RepairPeer` | relay of 5 nodes with link-layer feedback that passes on the replies to a neighbour's repair, no expanding ring | `LostRoutesWillGo`, `RelayCanDeliver`, `LinkBreakReportedOrKept` | 105,952 |
| `NetLoop` | 3 nodes in a line, two flows, one link that breaks, one lost message, one expiry | `LoopFree`, `MessagesAsAssumed` | 283,384 |
| `NetCost` | 4 nodes, two paths of unequal cost, one lost message, one retry | `CheapestRoute`, `RouteFound` | 932 |
| `HelloRing` | 2 hosts, rings of 3, five HELLOs one way, one loss, two timeouts | `TypeOK`, `RingIsHistory`, `RemoteReceivedIsReal`, `NeighborChangeCounted`, `HeardHasEntry` | 1,638,396 |
| `RateLimits` | 2 destinations, 2 channels, windows of 3 ticks, limits 4 and 3 | `RateWithinLimit`, `DroppedOnlyAtLimit` | 341,152 |
| `MacRts` | one peer, broadcast, short and long packets, any medium | `TypeOK`, `NoAssertionFails`, `BackoffNeedsIdle`, `HalfDuplex`, `FreshStart`, `LinkSafe` | 206,376 |
| `MacShort` | one peer, packets below `RTSThreshold_`, two foreign frames for each packet | `PendingHasTimer`, `DeliveredOnce`, `LinkServed` | 128,094 |
| `RerrLayout` | 4 nodes, a RERR with two destinations | `ListedDestsInvalidated`: **violated**, a finding | - |

What they show:

* *One node.* A route that becomes usable, by whatever message, ends its discovery
  and releases what waits; the queue keeps its bound; a broken link takes every route
  through it in the same event and the precursors of each are told; entries and their shared timer agree; every
  discovery ends. Counting up makes no known sequence number unknown, although the
  numbers of the node and of its entries wrap several times.
* *Local repair.* Every route over a lost link is reported or kept for repair, and
  what is kept is mended all at once by the answer or goes; a relay passes an answer
  on only where it can deliver (if the sender is named itself, the destinations that the
  message names before it are excepted: the sender becomes a longer route and they are
  lost with its link, which `RepairPeer` reaches with five nodes); the discovery of a repair ends although several
  entries for one address may run.
* *Network.* Next hops never form a cycle, with replies overtaking errors and errors
  lost. Where no direct link is dearer than a way around it, an undisturbed discovery
  ends with the cheapest route whatever the order of arrival; one lost message is
  made up for by a retry. Larger instances were explored for `LoopFree`, without a
  cycle. What the nodes send is what `AodvNode` assumes of arriving messages: nobody
  forwards anything to its originator or destination, only an originator sends hop count
  0, nobody reports itself as lost.
* *Statistics.* The ring of a channel holds exactly the fate of the last HELLOs,
  however late acknowledgements are; received counts are no more than was received;
  `neighbor_change` is the number of neighbours that came or went.
* *Rate limits.* No window holds more messages than the limit, and nothing below it is
  dropped, although the comparison is with the oldest of a shifted array.
* *MAC.* No assertion fails, a packet is passed up once, a frame overlapped by a
  transmission is lost. `LinkSafe` is the safety part of `LinkService` under the
  refinement mapping of `Mac80211!Link` (`holds <- pktTx_`, `owes <- callback_`,
  with the history of turn and fate), `LinkServed` its liveness.

### Where the code deviates

These configurations are kept beside the runs: each states what a comment, a
document or the name of a member promises, and TLC gives a counterexample in seconds
(`tlc -config X.cfg <module>`). `RerrLayout` is the one listed as a run. Two rows have
no configuration of their own: name their property in the one given instead of its
properties.

| Configuration (module) | Property | Line | What happens |
|---|---|---|---|
| `RerrLayout` (MCNode) | `ListedDestsInvalidated` | `aodv_rerr.c:127` | the receiver of a RERR with two destinations does not read the second one |
| `SendBuffer` (MCNode) | `RerrGoesOneHop` | `aodv_rrep.c:258` | the RERR of a link break inside `rrep_send_with_channel` replaces the RREP in the send buffer |
| that of `RerrLayout` (MCNode) | `NumActiveCountsValid` | `routing_table.c:358` | a neighbour that becomes a two-hop destination makes `num_active` lose an entry |
| that of `NodeUnidir` (MCNode) | `AckRequested` | `aodv_rrep.c:251` | a node waits for a RREP-ACK it never asked for |
| `RerrShared` (MCNode) | `RerrInvalidates` | `aodv_rerr.c:161` | a RERR is ignored because another node of the simulation handled one of the same sender |
| `NextHop` (MCNode) | `NextHopIsNeighbor` | `aodv_rreq.c:934` | deleting a neighbour of unknown channel leaves the routes through it VALID |
| `OwnSeqno` (MCNode) | `OwnSeqnoIsMaximum` | `aodv_rreq.c:902` | past half its range the own number goes back to an older one |
| `RerrFresh` (MCNode) | `RerrKeepsFreshness` | `aodv_rerr.c:229` | a late RERR lowers the number of a newer route |
| `DataChannel` (MCNode) | `DataOnRouteChannel` | `ns-2/aodv-uu.cc:495` | data leaves on the channel of the last control message |
| `ReplyChannel` (MCNode) | `UnicastOnRealChannel` | `aodv_rrep.c:968` | a reply to a neighbour of unknown channel leaves on channel -1 |
| `NoLifetime` (MCNode) | `ValidRoutesExpire` | `aodv_rreq.c:802` | a reverse route of `NET_DIAMETER` hops is VALID without a timer |
| `RepairSilent` (MCRepair) | `FailedRepairReported` | `aodv_rreq.c:1187` | a route under repair loses its precursors without a RERR |
| `RepairStuck` (MCRepair) | `NoPacketLeftBehind` | `aodv_rreq.c:1244` | packets for a mended route stay in the queue |
| `RepairValid` (MCRepair) | `RepairTimeoutInvalidated` | `aodv_timeout.c:148` | the timeout of a second repair takes down a route that is VALID again |
| `RepairSelf` (MCRepair) | `NoRouteToSelf` | `aodv_rrep.c:462` | a relay listed in a RREP_LR enters a route to itself |
| `NetGiveUp` (MCNetwork) | `RouteFound` | `aodv_rreq.c:163` | with two losses, the third flood repeats the number of the second (a retry does not increment it, `aodv_timeout.c:104`) and is ignored |
| `NetShortcut` (MCNetwork) | `CheapestRoute` | `routing_table.c:451` | any control message over a dear direct link replaces the cheap route and keeps its cost |
| `HelloBorrow` (MCHello) | `RemoteReceivedIsReal` | `aodv_rrep.c:173` | with a third host, an early acknowledgement is counted for whichever neighbour is heard next |
| `HelloZero` (MCHello) | `HeardHasEntry` | `aodv_hello.c:332` | the entry of the node with address 0 is taken over |
| `HelloStable` (MCHello) | `StableCountOfWindow` | `aodv_hello.c:184` | the stable count is read beyond the ends of two rings |
| `HelloWrap` (MCHello) | `RingIsHistory` | `aodv_rrep.c:168` | acknowledgements from HELLO 256 on are ignored |
| `RateRetry` (MCRate) | `ReqsWereSent` | `aodv_timeout.c:75` | retries are counted that the limiter dropped |
| `MacOrphan` (MCMac) | `PendingHasTimer` | `mac-802_11.cc:990` | a packet handed down during the deferral of a CTS loses its only timer when the CTS is dropped |
| `MacSeqZero` (MCMac) | `NoDuplicate` | `mac-802_11.cc:2075` | a frame with sequence number 0 is passed up again and again |
| `MacNoFix` (MCMac) | `NoAssertionFails` | `mac-802_11.cc:644` | with `bugFix_timer_` off an assertion of `tx_resume` fails |
| `MacEqual` (MCMac) | `LinkServed` | `mac-802_11.cc:1390` | a packet of exactly `RTSThreshold_` bytes is sent with RTS but counted as short, and never given up |

The passing runs of the same properties therefore exclude these cases by their
instance: `NetCost` loses one message and has no dear direct link, `HelloRing` has two
hosts, neither of them 0, and fewer than 256 HELLOs, `MacShort` has no packet with
RTS, and `DeliveredOnce` excepts sequence number 0.

### Bounds

* *One node.* Sequence numbers are modulo 4, so that the wrap and the negative half
  of the signed comparison are reached by a few invalidations; one channel (the
  channel of a route is unknown or 0, which is the distinction the handlers make);
  one retry, so that a discovery has a first, a later and a giving-up timeout; a
  queue of one packet, so that it is full as soon as it is used; `MaxSeqno` bounds
  the discoveries the node starts and is the only bound in a guard (in `NodeDiscovery` it
  is the largest number, which is no bound: the node's own number wraps). Three nodes are
  needed for a route through a neighbour, four for a relay between two others with
  two unreachable destinations. `NET_DIAMETER = 2` makes a reverse route of zero
  lifetime possible.
* *Local repair.* Four nodes: the relay, the lost next hop, a destination behind it
  and the precursor. `RepairPeer` adds a fifth, a second destination: `ReplyArrivals` holds
  replies that name two destinations with their sender among them, the other one before
  it and after it, against the order of addresses, and a reply that names a neighbour
  of the relay. `History` gives the relay its routes. RREQ_LRs arrive in `RepairLink`,
  RERR_LRs in `RepairPeer`. Sequence numbers do not wrap here.
* *Network.* `MaxLosses` and `MaxExpiries` bound the faults. `SeqnoMod` exceeds twice
  the numbers in use, as 2^32 does in any simulation: a wrap in the middle of a run
  would compare numbers no two nodes could have met.
* *HELLO statistics.* A ring of three is written over from the fourth HELLO on; `MaxInFlight`
  and `MaxBehind` bound how late an acknowledgement may be, past the length of the
  ring.
* *Rate limits.* Two channels and limits so small that a flood is accepted in part;
  the clock runs past a whole window.
* *MAC.* Retry limits of two, a contention window of two steps; `MaxFrames` foreign
  frames for one packet where liveness is checked, since on a medium that is never
  idle no station is served; no such bound in `MacRts`. `SeqMod = 2` in `MacShort`
  tells a number from zero.

A view drops what no action reads (`out`, counters, `rreq_id`, `channelNum`, the floods
of `RateLimit`). It is not used where a property reads what it drops. `RepairLink` uses
one with a liveness property: states that the view identifies behave alike, and the
step that fairness is about always changes the seek list, which the view keeps. The
destinations of `RateLimits` are symmetric; nothing tells them apart and no liveness
is checked there.

### Fairness

* `AodvNode`, `RepairNode`: weakly fair to the discovery timer of each destination. It
  is set when the discovery starts and by its own handler only, so nothing postpones
  it and ns-2's scheduler fires it. The deletion timer gets none, since data packets
  for an INVALID destination renew it (`ns-2/packet_input.cc:158`).
* `AodvNetwork`: a packet in flight arrives or is lost, and the discovery timer of a
  flow fires.
* `Mac80211`: every timer that stays due runs out, as the scheduler guarantees. For
  the receive and send timers the condition is written out (`RecvReady`, `SendReady`).
  No fairness is assumed of the medium or of the peer.

Deadlock is checked for the nodes and the MAC, where a message may always arrive. It
is not in `NetLoop`, `NetCost`, `HelloRing` and `RateLimits`, which stop when their
bounded traffic, HELLOs or clock are used up.

## 4. Theorems

Seven modules hold theorems or lemmas. Each proves its results for every value of the
constants that satisfies the named assumptions of the modules, which TLC evaluates on
every run. The invariants were checked with TLC on the instances of section 3 before
they were proved.

### One node (`AodvNode_proofs`)

For every finite set of addresses, number of channels, width, limit, combination of
options and set of arriving messages:

| Theorem | Statement |
|---|---|
| `TypeCorrect` | `Spec => []TypeOK` |
| `SoughtUnusable` | `Spec => []SoughtRouteUnusable` |
| `BufferedAwait` | `Spec => []BufferedPacketsAwaitDiscovery` |
| `QueueBounded` | `Spec => []QueueWithinLimit` |
| `InvalidGo` | `Spec => []InvalidRoutesWillGo` |
| `LinkBreaks` | `Spec => LinkBreakReported`, assuming `SenderUnread` |

The state invariants follow from `Invariance`, `Spec => []IInv`. The inductive
invariant `IInv` says that `Good(host)` holds and that the RERR records are of
addresses. `Good` adds to the types:

* `RouteOK(e)` for each entry: the handler of the timer fits the state, an INVALID
  entry is armed, and no entry is marked for repair (nothing sets the flag while
  `local_repair` is off);
* `Unsought` for each destination: a sought destination has no VALID route, except over a
  unidirectional one-hop link;
* `Awaited` for each destination: packets are buffered only for sought destinations;
* `Counted`: `PQ.len` is the number of packets in the queue, and within the limit.

The first three have to be proved together. That a link break cannot leave an INVALID
entry with a repair handler needs the absence of the repair flag; that a buffered
packet has a discovery needs each handler to end discoveries exactly when it
empties the queue; and the exception for unidirectional links is needed because
`processPacket` starts a discovery for a neighbour whose link is unidirectional.
`Counted` rests on the types alone, but the types do not imply it: that the counter
follows each packet in, out and over the limit is shown by bijections (`OneMore`,
`OneLess`, `NoneLeft`) and carried through the handlers that reach the queue; at the
limit it needs the queue to have a packet to drop (`Room`, from `Oldest`).

The proof has one lemma per operation of `RoutingTable` and `AodvControl` -
`Good(h)` implies `Good(op(h))` - and one step per action. Two devices keep them
short: `Replaces` relates an entry to a harmless replacement (it is never made
valid, and timers stay as they must), and `GoodButFor(h, d)` describes the state
inside an insertion or an update, where the route is already VALID and its
discovery not yet over; `seek_found` restores `Good`.

*Link breaks.* `LinkBreakReported` relates the host before a step to the host after it,
and a handler may find a break in its middle and send, insert and update afterwards.
`Traced(h0, h)` is what holds after each operation of a handler that started in `h0`:
a neighbour of `h0` that is one no more has no VALID route through it left (`Cut`), and
each destination behind it that became INVALID with precursors is in a RERR already
sent (`Told`); `Direct`, the only addition to `IInv` that is needed between
steps, says that a VALID route of one hop has its destination as next hop. `Done` is what
is left of it at the end. One lemma per operation shows that it keeps `Traced`,
`LinkBreakTraced` that `neighbor_link_break` establishes it; operations that break no
link are `Same`, which composes.

The hypothesis `SenderUnread` says that no receiver of a RERR reads the sender itself in
it. A sender never lists itself, but the layout error of `RerrLayout` makes a receiver
read address 0 as the second of several destinations: a RERR from neighbour 0 then
takes down the route to 0 alone, which is no link break to `rerr_process`, and the routes
through 0 stay VALID. TLC shows it on four addresses 0 to 3 in two steps (a RREP from 0
for 3, then a RERR from 0 with two destinations). Without a neighbour 0 the hypothesis
holds whatever the messages (`NoNeighborZero`), as in the instances of section 3.

### Network (`AodvNetwork_proofs`)

For every finite set of addresses, links, set of links that may break, traffic, costs,
numbers of losses and expiries, width, limit and combination of options:

| Theorem | Statement |
|---|---|
| `NetInvariance` | `Spec => []NetInv` |
| `NodesConsistent` | `Spec => [](\A n \in Addr : Good(hosts[n], n))` |
| `MessagesAssumed` | `Spec => []MessagesAsAssumed` |

The theorems about one node assume that a request or reply with hop count 0 comes from
its originator, that nobody sends a message on to whom it is about, and that no sender is
in its own RERR. These are assumptions about the same program, run by the neighbours. Here they are
discharged: in a network of nodes with the handlers of `AodvControl`, every message in
flight is as assumed (`AsAssumed`), and every node is `Good` as in `AodvNode_proofs`.

The two depend on each other. A node forwards a request with the hop count that came
plus one, but a reply with the hop count and to the next hop in its table; so what it sends is right
only if the table is, and that was made from what others sent. `Own(h, me)` says what a
node must know of itself:

* it has no entry for itself and does not seek itself. The first is why it never
  lists itself in a RERR, and why a reply it gives from its table is never about itself;
* no entry has hop count 0, so that no reply from its table looks like one of
  the destination itself;
* every packet in `out` is as assumed.

`Fit(h, me)` is `Good(h, me) /\ Own(h, me)`, and `NetInv` says that every node is `Fit`
and every message in flight typed and as assumed. The proof has one lemma for each operation and handler
(`Fit(h, me)` and an arriving message as assumed imply `Fit` of the result) and one
step for each action; `SameRoutes` and `Modest` are the steps that leave the table and
the search as they are, which compose. Neither `NodesConsistent` nor `MessagesAssumed`
needs the guards of `SeekTimeout` and `RouteTimeout` that stand for the lengths of timers.

HELLOs are not in the network; they carry no assumption of this kind. Local repair is not
either: a relay listed in a RREP_LR does enter a route to itself (`RepairSelf`), so that `Own` fails with it.

### Local repair (`RepairNode_proofs`)

For every finite set of addresses, history of the node, set of arriving messages and
combination of options:

| Theorem | Statement |
|---|---|
| `LostGo` | `RepairSpec => []LostRoutesWillGo` |
| `RepairQueueBounded` | `RepairSpec => []QueueWithinLimit` |
| `RelayDelivers` | `RepairSpec => RelayCanDeliver` |
| `ReplyMends` | `~unidir_hack /\ RepairSpec => ReplyMendsAll` |
| `LinkBreaksRepaired` | `ASSUME ~unidir_hack, ErrorsOfOthers PROVE RepairSpec => LinkBreakReportedOrKept` |

All rest on `RepairInvariance`, `RepairSpec => []RepairInv`. Its `Kept(host, L)` says that

* the timer of each entry fits its state, a lost entry not under repair being armed to
  be deleted, and a link is suspected only with `unidir_hack` (`Lasting`);
* an INVALID entry for a neighbour belongs to the set `L`;
* the queue is counted right (`Counted`);
* the replies sent are those this node answers for itself (`Quiet`).

It speaks of the shape of the host and not of its type: the numbers of hops, which each
mend adds up, have no bound, and the host has the fields of a repair besides those of
`Host`. So every operation has a lemma of its own here, those of `RoutingTable` and
`AodvControl` included. What `LostGo` depends on is that no step takes off the mark of
a repair without starting the deletion in the same step, unless the route is VALID: a mark
can be taken off by a failed repair, by an update that revives the entry and by the
deletion itself.

The set `L` makes the lemmas serve twice. With `L = Addr` they are the invariant. With
`L` the addresses that have no VALID entry before the step, they say that no neighbour
is lost by it, except the one whose timer, HELLO or packet fails (`RepairStepSends`):
that is the half of `LinkBreaksRepaired` about messages. The other half, that the three
events lose every route through the neighbour with its precursors told or kept, is
`Broken`, established by `neighbor_link_break` (`LinkBreakBroken`) and kept by the repair
that may follow.

`RelayDelivers` and `ReplyMends` are about one walk, in which an update through
the sender of a reply can break the link to a former neighbour and take routes with it that
the same walk mended before. `RouteFoldRoutes` says what is left at the end: a destination
is VALID through the sender unless it was visited before the sender itself was, named as
a longer route, in the order of the message (the `kept` of the property). Of the
routes a reply goes on with, `Relayed` is the invariant over the packets in `out`.

The handlers of a reply and of a RERR_LR and the start from `History` are walks over
lists (`FoldLeft`). Induction over a fold is out of reach of the provers as a rule with an
operator parameter, so the four walks are made one (`Visit`, `IsWalk`), for which there is
a lemma that a walk over every list exists (`WalkExists`, by the least length that had
none), one that it goes from position to position (`WalkSteps`), and one that it keeps
what each visit keeps (`WalkKept`).

The hypotheses:

* `RepairAssumption`: messages and senders have their types. `ArrivalAssumption`: no node
  hears itself, and a RREP_LR that comes from the destination it is about has hop count
  0, since only `rrep_create` (`aodv_rreq.c:451`, `490`) makes one and the destination
  drops a reply of its own (`aodv_rrep.c:436`).
* `~unidir_hack` in two theorems, as in the runs. With the option a neighbour may be
  marked as unidirectional; a message from it then does not make its entry VALID and a
  timeout of its HELLO does not break the link, so neither proof goes through.
* `ErrorsOfOthers`, as `SenderUnread` above: no sender is read in its own RERR.

Two of the properties held on the small instance for the wrong reason, as the proofs
showed. A relay that takes over several destinations mends what the break of another link
takes away, but not if its next hop is itself named as a longer route: `RelayCanDeliver`
had to say which destinations are left, and the first of `ReplyArrivals` reaches the case. A reply straight
from the one that answers gives each destination it names hop count 1, as if it were a
neighbour (`rrep_process_lr` passes the hop count on without the distance behind the
answerer). When the link to the answerer breaks, such an entry is lost with it as
a route, not as a link, and other routes that still use it as next hop stay VALID. So
`LinkBreakReportedOrKept` speaks of neighbours that are their own next hop; the last of
`ReplyArrivals` reaches the other case, where the property without that condition fails.
`RepairInv` was checked by TLC on the instance of `RepairPeer`.

### HELLO statistics (`HelloStats_proofs`)

For every finite set of hosts, whoever hears whom, every ring length above 2, number of
channels, width of the 8-bit fields and number of losses, and a table with room for one
host more than there are:

| Theorem | Statement | Assuming besides |
|---|---|---|
| `StatsTypeCorrect` | `Spec => []TypeOK` | |
| `HeardListed` | `Spec => []HeardHasEntry` | |
| `ChangeCounted` | `Spec => []NeighborChangeCounted` | |
| `RemoteCounted` | `Spec /\ [][NotBorrowed]_vars => []RemoteReceivedIsReal` | `Symmetric` |
| `RemoteCountedInPairs` | `Spec => []RemoteReceivedIsReal` | `Symmetric`, every host `Lone` |
| `RingRemembers` | `Spec /\ [][NotBorrowed]_vars => []RingIsHistory` | `Symmetric`, `MaxHellos[h] < BYTE` |
| `RingRemembersInPairs` | `Spec => []RingIsHistory` | `Symmetric`, `MaxHellos[h] < BYTE`, every host `Lone` |

The invariant has three parts, each needing the ones before it.

* `StatsInv`: entries in use have different addresses and every host being heard has one
  (`Listed`); an entry is valid exactly when its host was heard at the last HELLO
  (`Marked`), so that counting the marks that disagree with the timers counts the hosts
  that came and went. Since addresses differ, there are no more entries than hosts and
  the entry behind the last one is within the array, which is why `rrep_ack_process` and
  `update_neighbor_info` may write there.
* `CountInv`: every acknowledgement on the way is of a HELLO that was sent and says no more
  than its sender received (`Truthful`); what an entry counted was received
  (`ReceivedOK`); and the entry in which an acknowledgement of a host *would* be counted
  says no more than that host received (`RemoteOK`). For a host without entry this is
  the one behind the last, which several hosts share: it must be untouched, unless there
  is only one who could mean it (`Clear`).
* `RingInv`: the window is shorter than the ring, so that no two HELLOs of it share a slot
  (`SlotsDiffer`, by arithmetic for every length); and in it the ring of that same
  entry agrees with the acknowledgements (`RingOK`).

The proof says of each operator what it does to a record (`SendStep` for the whole of
`hello_send`, `ProcessStep`, `AckStep`), then of each action what it does to the
invariant.

The hypotheses are those the code needs, and each has a configuration of section 3 that
fails without it:

* `0 \notin Hosts`, in all of them: address 0 marks an unused entry (`HelloZero`).
* `NotBorrowed`: no acknowledgement of a host without entry is counted by a host with
  several peers. It is counted in the entry behind the last one, which the next
  neighbour heard then takes over (`HelloBorrow`). A host all of whose peers are the same
  (`Lone`) cannot borrow, which gives the two theorems about pairs, of which `HelloRing` is
  an instance.
* `MaxHellos[h] < BYTE`, for the rings only: later acknowledgements are taken for earlier
  HELLOs (`HelloWrap`).
* `Symmetric`, that whoever is heard hears, is the radio model of the scenarios, with one
  range for all nodes. The model acknowledges on the link back.

`StatsInv`, `CountInv` and `RingInv` were checked by TLC on the instance of `HelloRing` and,
with `NotBorrowed` as a constraint, on three hosts in a line (587,603 states).

### Rate limits (`RateLimit_proofs`)

For every limit above 1, window, number of channels, number of retries and bursts:

| Theorem | Statement |
|---|---|
| `RateLimited` | `Spec => []RateWithinLimit` |
| `DropsJustified` | `Spec => []DroppedOnlyAtLimit` |

Both from `RateInvariance`, `Spec => []RateInv`. The node remembers only the times of its
last `RATELIMIT - 1` messages, while the properties are about every window of the
history. `RateInv` bridges the two: the remembered times are the end of the history
(`Remembered`), the history is in order (`Ordered`), any two messages `RATELIMIT - 1`
apart in it are a window apart in time (`Spaced`), and each drop has a full window
before it that is still to be seen (`Justified`). A window holding `RATELIMIT`
messages would contain two that `Spaced` keeps apart. Since bursts are appended at
once, `Spaced` for a burst is proved from the accepted prefix, for every length.

### MAC (`Mac80211_proofs`)

For every set of packets and frames, retry limits, contention windows and widths of
the sequence number, and whatever the medium does, with `bugFix_timer_` set:

| Theorem | Statement |
|---|---|
| `MacTypeCorrect` | `Spec => []TypeOK` |
| `AssertionsHold` | `Spec => []NoAssertionFails` |
| `BackoffIdle` | `Spec => []BackoffNeedsIdle` |
| `OneWay` | `Spec => []HalfDuplex` |
| `Duplicates` | `Spec => []DeliveredOnce` |
| `Fresh` | `Spec => FreshStart`, an action property |
| `Refinement` | `Spec => LinkSafe`, the refinement of `LinkService` |
| `PendingTimer` | `Spec => []PendingHasTimer`, assuming also `NoRequests` |

All from `MacInvariance`, `Spec => []IInv`. No assertion of the code is inductive by
itself: that a timer is not started twice, or is running when it is stopped, follows
from what the other timers and packets say of the stage of the exchange. `IInv` has

* `PktOK`: which packets and counts go together. A packet whose CTS has come has no
  short retries and no backoff;
* `TxOK`: the send timer runs exactly while a frame is out, the deferral exactly for an
  answer or for DATA after a CTS, and never both; a pending CTS excludes any exchange
  of the station's own;
* `IfOK`, `IdleOK`: the interface timer and the paused backoff follow the medium;
* `RecvOK`: a frame in reception has its timer, is marked if it overlaps a
  transmission, and cannot be handled intact in the middle of the deferral of DATA;
* `SeqOK`: a payload that was passed up is in the cache.

`Sound`, the part without the receiver and the backoff, holds in the middle of handlers
too; nearly all of them end in `tx_resume`, so one lemma, `TxResume`, says what it does from
any sound state, and a lemma per handler brings the station there. `LinkStep`, proved of
every action along with the invariant, says how a step changes what `LinkService`
sees; `Fresh` and `Refinement` follow from it.

The hypothesis `bugFix_timer_` is the Tcl-bound switch of `mac-802_11.cc:259`, whose
default is not in the repository. It is needed: with the switch off
`NoAssertionFails` fails (`MacNoFix`). `NoRequests` (no RTS frame is heard) holds in `MacShort` and is
needed for `PendingHasTimer`, as `MacOrphan` shows.

### Only model-checked

* `RepairTypeOK`, which bounds the ttl of a repair by the length of the routes of the instance:
  a mended route has the hops of the old one and of the way to its next hop, so that
  hop counts grow with each repair and no bound holds for every history.
* `KnownStaysKnown`, which is a matter of the width of a number: it holds as long as no
  message carries 0, which a RREQ does when the number of its originator is about to
  wrap (`rreq_create_with_cost` adds 1 without `seqno_incr`).
* `LoopFree` and `CheapestRoute`. `LoopFree` needs an invariant over sequence numbers in entries
  and in flight that speaks of all nodes at once and holds only where numbers do not
  wrap. `CheapestRoute` compares with a least cost that is defined by recursion over the
  hops, and needs induction over it.
* Liveness under fairness (`DiscoveryEnds`, `RepairDiscoveryEnds`, `RouteFound`,
  `LinkServed`), which is out of the prover's reach.

## 5. Not modelled, and why

* *MAC management and infrastructure mode* (beacons, association, authentication,
  probing, the access point, about a third of `mac-802_11.cc`): the scenarios are ad
  hoc and never enter it. The jammer nodes (`workMode < 0`, `noiseHandler`) only occupy
  the medium, which the model leaves arbitrary. `getSNR` averages floating-point
  samples; its result is an input of the statistics.
* *Sending of HELLOs under `optimized_hellos`* (`hello_start`, `hello_stop`) and the
  postponement of a HELLO after a broadcast: off in the ns-2 agent, and timing only.
* *The floating-point value of a cost.* The statistics it is computed from are
  modelled; its logarithms and the classifier's rounding are not.
* *Gateway and Internet destinations* (`RT_GATEWAY`, `RT_INET_DEST`): never set in the
  ns-2 agent.
* *Packet header, trace format, Tcl and data-processing scripts*: no protocol state.

## 6. Plan

Modelled: routing table, handlers and one node; local repair;
the network; HELLO statistics and rate limits; the MAC and its refinement of
`LinkService`.

Proved: the invariants and link breaks of one node, the same invariants in any network
and that its messages are as assumed; of a node with local repair, these and
the routes a reply mends and a relay passes on;
the HELLO statistics, the rate limits, and the MAC with its refinement of `LinkService`.

Left: an abstract specification of a
discovery (idle, seeking, found or given up, with its packets) that `AodvNode` and
`RepairNode` implement; nodes composed with `HelloStats`, so that costs move while
routes are in use.
