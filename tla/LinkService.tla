---------------------------- MODULE LinkService -----------------------------
(***************************************************************************)
(* What the interface queue above the MAC relies on: the MAC holds one     *)
(* packet at a time, settles its fate once - sent, or reported as failed   *)
(* through xmit_failure_ - and answers the queue's handler exactly once    *)
(* for every packet it accepted, after the fate is settled.                *)
(***************************************************************************)
EXTENDS Naturals

CONSTANTS NONE, Pkt

VARIABLES
  holds,   \* the packet the MAC is working on, or NONE
  owes,    \* TRUE while the queue waits for its handler
  turn,    \* flips when the handler is called
  fate     \* of the packet settled last

vars == <<holds, owes, turn, fate>>

\* A broadcast is never acknowledged, so it cannot fail.
Fates(p) == IF p.bcast THEN {"sent"} ELSE {"sent", "failed"}

Init == holds = NONE /\ owes = FALSE /\ turn = 0 /\ fate = "none"

Accept(p) ==
  /\ ~owes /\ holds = NONE
  /\ holds' = p /\ owes' = TRUE /\ UNCHANGED <<turn, fate>>

\* The fate is settled, but the handler has to wait.
Settle ==
  /\ holds # NONE /\ holds' = NONE
  /\ fate' \in Fates(holds) /\ UNCHANGED <<owes, turn>>

\* The handler is called, with the fate settled before or in the same step;
\* the queue may hand down its next packet from within the handler.
Answer(nxt) ==
  /\ owes /\ turn' = 1 - turn
  /\ IF holds = NONE THEN fate' = fate ELSE fate' \in Fates(holds)
  /\ holds' = nxt /\ owes' = (nxt # NONE)

Next == \/ \E p \in Pkt : Accept(p)
        \/ Settle
        \/ \E nxt \in Pkt \cup {NONE} : Answer(nxt)

SafeSpec == Init /\ [][Next]_vars

\* The handler is called for every packet that was accepted.
Served == \A b \in {0, 1} : (owes /\ turn = b) ~> (turn # b)

Spec == SafeSpec /\ Served

=============================================================================
