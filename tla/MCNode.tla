------------------------------- MODULE MCNode -------------------------------
(* Small instances of AodvNode for TLC. *)
EXTENDS AodvNode

\* What an event sent, the counters of the table, the next RREQ id and the
\* channel used last only go into packets that leave: no handler reads them, and
\* states that differ in them only behave alike.
MCView ==
  <<[host EXCEPT !.out = {}, !.num_active = 0, !.num_entries = 0,
                 !.rreq_id = 0, !.channelNum = 0], rerr_records>>

MCRreq(id, orig, os, dest, ds, hcnt, g) ==
  [type |-> "RREQ", id |-> id, dest |-> dest, dest_seqno |-> ds, orig |-> orig,
   orig_seqno |-> os, hcnt |-> hcnt, g |-> g, cost |-> hcnt]
MCRrep(dest, s, orig, hcnt, a) ==
  [type |-> "RREP", a |-> a, hcnt |-> hcnt, dest |-> dest, seqno |-> s,
   orig |-> orig, life |-> 1, ext |-> ~a, cost |-> hcnt]
MCRerr(first, D, s) ==
  [type |-> "RERR", first |-> first, n |-> FALSE,
   dests |-> {[addr |-> d, seqno |-> s] : d \in D}]

\* The node seeks routes of its own: 2 answers for 3 or 3 itself does, and both
\* seek this node, 3 through 2.
DiscoveryRreqs == {MCRreq(0, 2, 2, 1, 0, 0, FALSE), MCRreq(0, 3, 2, 1, 1, 1, FALSE)}
DiscoveryRreps == {MCRrep(3, 1, 1, 1, FALSE), MCRrep(3, 2, 1, 0, FALSE)}

\* The node relays: 2 seeks 4 and wants a gratuitous reply, 3 answers for 4 or 4
\* itself does, and a neighbour loses its route to 4, 2 also the one to 3.
RelayRreqs == {MCRreq(0, 2, 2, 4, 0, 0, TRUE)}
RelayRreps == {MCRrep(4, 1, 2, 1, TRUE), MCRrep(4, 2, 2, 0, FALSE)}
RelayRerrs == {MCRerr(4, {4}, 3), MCRerr(4, {3, 4}, 3)}

\* A link that may be unidirectional: 2 seeks this node.
LinkRreqs == {MCRreq(0, 2, 2, 1, 1, 0, FALSE)}

\* 3 seeks 2 through this node, then 2 seeks this node.
BufferRreqs == {MCRreq(0, 3, 2, 2, 0, 0, FALSE), MCRreq(0, 2, 3, 1, 0, 0, FALSE)}
BufferRreps == {MCRrep(2, 1, 3, 0, FALSE)}

\* 2 has lost its routes to 3 and 4.
LostRreps == {MCRrep(3, 1, 1, 1, FALSE), MCRrep(4, 1, 1, 1, FALSE)}
LostRerrs == {MCRerr(3, {3, 4}, 2)}

SharedRerrs == {MCRerr(3, {3}, 2)}

\* 2 answers for 3, then 4 seeks 2.
StaleRreps == {MCRrep(3, 1, 1, 1, FALSE)}
StaleRreqs == {MCRreq(0, 4, 1, 2, 0, 0, FALSE)}

\* 2 asks for this node by a number it has left behind.
OldRreqs == {MCRreq(0, 2, 2, 1, 3, 0, FALSE)}

\* 3 answers 2 through this node.
ThroughRreps == {MCRrep(3, 1, 2, 0, FALSE)}

\* 2 answers for 3; its error of the time before comes late.
FreshRreps == {MCRrep(3, 2, 1, 1, FALSE)}
OldRerrs == {MCRerr(3, {3}, 1)}

\* A request from 3 that has come as far as a request may.
FarRreqs == {MCRreq(0, 3, 1, 1, 0, 1, FALSE)}
=============================================================================
