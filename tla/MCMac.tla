------------------------------- MODULE MCMac --------------------------------
(* Small instances of Mac80211.                                             *)
EXTENDS Mac80211

CONSTANTS peer1, MaxFrames

\* Frames heard since the handler was last called.
VARIABLE heard

\* A packet's size stands for a length: 1 is below the RTS threshold of 2,
\* 2 is equal to it and 3 is above it.
Unicast(n) == [bcast |-> FALSE, size |-> n]
Broadcast == [bcast |-> TRUE, size |-> 1]

OneFrame(t, d, n, dur) ==
  [type |-> t, to |-> d, size |-> n, src |-> peer1, dur |-> dur]

\* Frames of a network in which every packet is below the threshold.
ShortFrames ==
  {OneFrame("ACK", "me", 0, FALSE), OneFrame("DATA", "me", 1, TRUE),
   OneFrame("DATA", "other", 1, TRUE), OneFrame("ACK", "other", 0, FALSE),
   OneFrame("NOISE", "all", 0, TRUE)}

\* Frames of a network in which RTS and CTS are used too.
AllFrames ==
  {OneFrame("RTS", "me", 0, TRUE), OneFrame("CTS", "me", 0, TRUE),
   OneFrame("ACK", "me", 0, FALSE), OneFrame("DATA", "me", 1, TRUE),
   OneFrame("DATA", "me", 3, TRUE), OneFrame("DATA", "all", 1, FALSE),
   OneFrame("DATA", "other", 3, TRUE)}

ShortPkts == {Unicast(1), Broadcast}
AllPkts == {Unicast(1), Unicast(3), Broadcast}

-----------------------------------------------------------------------------
MCInit == Init /\ heard = 0

Quiet == SendDown \/ PeerNext \/ Timers

\* A busy medium: at most MaxFrames frames, of any kind and at any moment,
\* while one packet is being served.  Without a bound the medium may never
\* be idle and no station can be served.
BusyNext ==
  \/ Quiet /\ heard' = IF mac'.turn # mac.turn THEN 0 ELSE heard
  \/ RecvUp /\ heard < MaxFrames /\ heard' = heard + 1

BusySpec == MCInit /\ [][BusyNext]_<<mac, heard>> /\ Fairness

\* A peer that answers: frames only begin while one is awaited, without a
\* bound on their number.
AnswerNext ==
  /\ UNCHANGED heard
  /\ \/ Quiet
     \/ /\ mac.tx \in {"RTS", "SEND"} /\ ~mac.tx_active /\ mac.rx = "IDLE" /\ ~mac.nav
        /\ RecvUp

AnswerSpec == MCInit /\ [][AnswerNext]_<<mac, heard>> /\ Fairness

\* Any medium.
AnyNext == Next /\ UNCHANGED heard
AnySpec == MCInit /\ [][AnyNext]_<<mac, heard>>

\* A CTS and an ACK for this station.
AnswerFrames == {OneFrame("CTS", "me", 0, TRUE), OneFrame("ACK", "me", 0, FALSE)}
EqualPkts == {Unicast(2)}

=============================================================================
