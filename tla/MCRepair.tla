----------------------------- MODULE MCRepair -----------------------------
(* Small instances of RepairNode for TLC. *)
EXTENDS RepairNode

MCRepairView ==
  <<[host EXCEPT !.out = {}, !.num_active = 0, !.num_entries = 0, !.rreq_id = 0,
                 !.channelNum = 0, !.rerr_id = 0], rerr_records>>

MCRreq(id, orig, os, dest, ds, hcnt) ==
  [type |-> "RREQ", id |-> id, dest |-> dest, dest_seqno |-> ds, orig |-> orig,
   orig_seqno |-> os, hcnt |-> hcnt, g |-> FALSE, cost |-> hcnt]
MCRrep(dest, s, orig, hcnt) ==
  [type |-> "RREP", a |-> FALSE, hcnt |-> hcnt, dest |-> dest, seqno |-> s,
   orig |-> orig, life |-> 1, ext |-> TRUE, cost |-> hcnt]
MCRrepLr(dest, s, orig, hcnt, U) ==
  [type |-> "RREP_LR", hcnt |-> hcnt, dest |-> dest, seqno |-> s, orig |-> orig,
   udests |-> [i \in DOMAIN U |-> [addr |-> U[i], seqno |-> s]]]

\* 4 has found 3 through this node and 2: the node relays between them.
RelayHistory ==
  << Arrival(MCRreq(0, 4, 1, 3, 0, 0), 4, 5),
     Arrival(MCRrep(3, 1, 4, 1), 2, 5) >>

\* It has found 5 behind 2 and 3, too.
PeerHistory ==
  RelayHistory \o << Arrival(MCRreq(1, 4, 2, 5, 0, 0), 4, 5),
                     Arrival(MCRrep(5, 1, 4, 2), 2, 5) >>

\* The lost next hop 2 answers through 4, or 3 itself does.
MendArrivals ==
  { Arrival(MCRrepLr(2, 1, 1, 1, <<3>>), 4, 5),
    Arrival(MCRrepLr(3, 2, 1, 0, <<3>>), 3, 5) }
FoundArrivals == {Arrival(MCRrepLr(2, 1, 1, 1, <<3>>), 4, 5)}

\* 2 has mended its route to 3, for this node and for others.
RerrArrivals ==
  { Arrival([type |-> "RERR_LR", first |-> 3, n |-> TRUE, id |-> 0, origin |-> 2,
             dests |-> {[addr |-> d, seqno |-> 2] : d \in D}], 2, 5) : D \in {{3}, {3, 4}} }

\* 4 repairs its route to 3: it seeks its lost next hop, this node or 2, and what
\* was behind it, 3 first.
RequestArrivals ==
  { Arrival([type |-> "RREQ_LR", id |-> 5, dest |-> d, dest_seqno |-> 1, orig |-> 4,
             orig_seqno |-> 3, hcnt |-> 0,
             udests |-> << [addr |-> 3, seqno |-> 1],
                           [addr |-> 3 - d, seqno |-> 1] >>], 4, 5) : d \in {1, 2} }
LinkArrivals == FoundArrivals \cup RequestArrivals

\* 3 passes on the answers of 2 and of 5 to a repair of 4 and answers one itself.
\* The route to 5 is lost when 3 is named after it, the one to 2 is not when 3 is
\* named before it.  What 3 itself answers for becomes a route of one hop, also to 2,
\* which is still the next hop to 5.
ReplyArrivals ==
  { Arrival(MCRrepLr(2, 2, 4, 1, <<5, 3>>), 3, 5),
    Arrival(MCRrepLr(5, 2, 4, 1, <<3, 2>>), 3, 5),
    Arrival(MCRrepLr(3, 2, 4, 0, <<2>>), 3, 5) }
PeerArrivals == ReplyArrivals \cup RerrArrivals

\* 4 lost its next hop 3, with this node and another behind it: 3 answers
\* through this node.
SelfArrivals == {Arrival(MCRrepLr(3, 2, 4, 0, <<1, 2>>), 3, 5)}

\* Packets from 4 and from this node to 3.
TransitTraffic == {<<4, 3>>}
RelayTraffic == {<<4, 3>>, <<1, 3>>}
=============================================================================
