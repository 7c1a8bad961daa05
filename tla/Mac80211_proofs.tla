-------------------------- MODULE Mac80211_proofs --------------------------
(***************************************************************************)
(* Proofs about Mac80211, for every set of packets and frames and every    *)
(* value of the limits: the state invariants, FreshStart and the           *)
(* refinement of LinkService, with bugFix_timer_ set.  With the switch off *)
(* an assertion of tx_resume does fail (MacNoFix.cfg).                     *)
(*                                                                         *)
(* One inductive invariant, IInv, says what each timer that runs stands    *)
(* for (TxOK, IfOK), which packets and counts go with which (PktOK), what  *)
(* the receiver knows of overlapping transmissions (RecvOK), and what the  *)
(* sequence number cache has seen (SeqOK).  tx_resume ends most handlers;  *)
(* the lemma TxResume says what it does, and one lemma for each handler    *)
(* brings the station to the point where it applies.                       *)
(***************************************************************************)
EXTENDS Mac80211, TLAPS

-----------------------------------------------------------------------------
(* The invariant *)

\* Answers that may be pending, and what the receiver may hold.
Control == {NONE, "CTS", "ACK"}
Heard == Frame \cup {NONE}

\* The types of the members.
Station ==
  [tx : {"IDLE", "RTS", "CTS", "SEND", "ACK"}, rx : {"IDLE", "RECV", "COLL"},
   tx_active : BOOLEAN, nav : BOOLEAN,
   busy : SUBSET {"Send", "Recv", "IF", "Valid"},
   defer : {"off", "SIFS", "DIFS"}, backoff : {"off", "run", "paused"},
   pktTx : QueueHead, pktRTS : BOOLEAN, pktCTRL : Control,
   pktRx : Heard, rxerr : BOOLEAN, late : BOOLEAN,
   callback : BOOLEAN, ssrc : Nat, slrc : Nat, cw : CWMin .. CWMax,
   cache : [Peer -> Nat], copies : [Peer -> 0 .. 2],
   peerseq : [Peer -> 0 .. SeqMod - 1], noiseFlag : BOOLEAN, turn : {0, 1},
   fate : {"none", "sent", "failed"}, abort : BOOLEAN]

\* The CTS for the pending packet has come: its DATA frame is next.
Cleared(m) == m.pktTx # NONE /\ UsesRTS(m.pktTx) /\ ~m.pktRTS

\* The pending packet, its RTS and its counts.  A packet whose CTS has come, or that
\* needs none, is not using the short count of the RTS before it.
PktOK(m) ==
  /\ m.pktTx # NONE => m.callback
  /\ m.pktRTS => m.pktTx # NONE /\ UsesRTS(m.pktTx)
  /\ m.pktTx = NONE => m.ssrc = 0 /\ m.cw = CWMin
  /\ m.pktTx # NONE /\ m.pktTx.bcast => m.ssrc = 0
  /\ Cleared(m) => m.ssrc = 0 /\ m.backoff = "off"
  /\ m.ssrc < ShortRetryLimit /\ m.slrc < LongRetryLimit

\* mhSend_ runs exactly while a frame is out, mhDefer_ only for an answer or for DATA
\* after a CTS.  A CTS is pending only in a station that sends nothing else.
TxOK(m) ==
  /\ "Send" \in m.busy <=> m.tx # "IDLE"
  /\ m.defer \in {"off", "SIFS"}
  /\ m.tx # "IDLE" => m.defer = "off"
  /\ m.tx \in {"CTS", "ACK"} => m.pktCTRL = m.tx
  /\ m.pktCTRL = "CTS" => m.tx \in {"IDLE", "CTS"}
  /\ m.pktCTRL # NONE /\ m.tx = "IDLE" => m.defer = "SIFS"
  /\ m.tx = "RTS" => m.pktRTS
  /\ m.tx = "SEND" => m.pktTx # NONE /\ ~m.pktRTS
  /\ m.tx \in {"RTS", "SEND"} => m.backoff = "off"
  /\ m.defer = "SIFS" /\ m.pktCTRL = NONE => Cleared(m)
  /\ Cleared(m) => \/ m.tx \in {"SEND", "ACK"}
                   \/ (m.tx = "IDLE" /\ m.defer = "SIFS" /\ m.pktCTRL # "CTS")

\* BackoffNeedsIdle of any station.
IdleOK(m) == m.backoff = "run" => is_idle(m)

\* tx_active is set while mhIF_ runs.
IfOK(m) == m.tx_active <=> "IF" \in m.busy

\* A frame in reception has its timer, and is marked when it overlaps a transmission.
\* One that overlaps an ACK or the deferral of DATA after a CTS is lost or late, so
\* that no frame is handled in the middle of that deferral.
RecvOK(m) ==
  /\ m.rx = "IDLE" <=> "Recv" \notin m.busy
  /\ m.rx = "IDLE" <=> m.pktRx = NONE
  /\ m.tx_active /\ m.rx = "RECV" => m.rxerr
  /\ m.rx = "RECV" /\ (m.tx = "ACK" \/ (m.defer = "SIFS" /\ m.pktCTRL = NONE))
       => m.rxerr \/ m.late

\* A payload that was passed up is in the cache.
SeqOK(m) ==
  \A s \in Peer : /\ m.copies[s] # 0 => m.cache[s] = m.peerseq[s]
                  /\ m.peerseq[s] # 0 => m.copies[s] <= 1

\* The sending side and the cache, consistent also in the middle of a handler.
Sound(m) ==
  m \in Station /\ ~m.abort /\ PktOK(m) /\ TxOK(m) /\ IfOK(m) /\ SeqOK(m)

\* The whole station, between two steps.
Good(m) == Sound(m) /\ IdleOK(m) /\ RecvOK(m)

\* Every pending packet has a timer, and a handler that is owed after the packet is
\* gone waits for an answer to be sent.  Not an invariant when RTS frames are heard.
PendOK(m) ==
  /\ m.pktCTRL # "CTS"
  /\ m.callback /\ m.pktTx = NONE => m.pktCTRL # NONE
  /\ m.pktTx # NONE => m.tx # "IDLE" \/ m.defer # "off" \/ m.backoff # "off"

\* The inductive invariant.
IInv == Good(mac)

-----------------------------------------------------------------------------
(* Assertions and timers *)

\* An assertion that holds changes nothing.
LEMMA RequireHolds ==
  ASSUME NEW m \in Station, NEW ok, ok, ~m.abort
  PROVE  Require(m, ok) = m
BY DEF Require, Station

\* BackoffTimer::start on a timer that is off keeps its assertion and sets the timer alone.
LEMMA BackoffStart ==
  ASSUME NEW m \in Station, m.backoff = "off", ~m.abort
  PROVE  /\ backoffStart(m) = [m EXCEPT !.backoff = IF is_idle(m) THEN "run" ELSE "paused"]
         /\ backoffStart(m) \in Station
<1>1. Require(m, m.backoff = "off") = m
  BY RequireHolds
<1>2. backoffStart(m) = [m EXCEPT !.backoff = IF is_idle(m) THEN "run" ELSE "paused"]
  BY <1>1 DEF backoffStart
<1>3. backoffStart(m) \in Station
  BY <1>2 DEF Station
<1> QED BY <1>2, <1>3

\* DeferTimer::start on a timer that is off, likewise.
LEMMA DeferStart ==
  ASSUME NEW m \in Station, m.defer = "off", ~m.abort, NEW ifs \in {"SIFS", "DIFS"}
  PROVE  /\ deferStart(m, ifs) = [m EXCEPT !.defer = ifs]
         /\ deferStart(m, ifs) \in Station
<1>1. Require(m, m.defer = "off") = m
  BY RequireHolds
<1>2. deferStart(m, ifs) = [m EXCEPT !.defer = ifs]
  BY <1>1 DEF deferStart
<1>3. deferStart(m, ifs) \in Station
  BY <1>2 DEF Station
<1> QED BY <1>2, <1>3

\* The receiver, the medium and the timers but mhDefer_ and mhBackoff_ are the same.
SameRx(m, r) ==
  /\ r.rx = m.rx /\ r.pktRx = m.pktRx /\ r.rxerr = m.rxerr /\ r.late = m.late
  /\ r.tx_active = m.tx_active /\ r.nav = m.nav /\ r.busy = m.busy
  /\ r.cache = m.cache /\ r.copies = m.copies /\ r.peerseq = m.peerseq

\* What LinkService sees is the same.
SameLink(m, r) ==
  r.pktTx = m.pktTx /\ r.callback = m.callback /\ r.turn = m.turn /\ r.fate = m.fate

\* The pending frames, the deferral and the retry counts are the same.
SameCount(m, r) ==
  /\ r.pktRTS = m.pktRTS /\ r.pktCTRL = m.pktCTRL /\ r.defer = m.defer
  /\ r.ssrc = m.ssrc /\ r.slrc = m.slrc /\ r.cw = m.cw /\ r.abort = m.abort

\* The handler is called with nothing pending and hands down nxt, or nothing.
Answers(m, r, nxt) ==
  /\ m.pktTx = NONE /\ m.callback
  /\ r.pktTx = nxt /\ r.callback = (nxt # NONE)
  /\ r.turn = 1 - m.turn /\ r.fate = m.fate
  /\ r.ssrc = 0 /\ r.cw = CWMin

\* setTxState changes tx and may pause or resume the backoff timer, which then runs
\* only in an idle station.
LEMMA SetTxState ==
  ASSUME NEW m \in Station, NEW s \in {"IDLE", "RTS", "CTS", "SEND", "ACK"}
  PROVE  /\ setTxState(m, s) \in Station /\ setTxState(m, s).tx = s
         /\ SameRx(m, setTxState(m, s)) /\ SameLink(m, setTxState(m, s))
         /\ SameCount(m, setTxState(m, s))
         /\ setTxState(m, s).backoff = "off" <=> m.backoff = "off"
         /\ IdleOK(setTxState(m, s))
<1> DEFINE a == [m EXCEPT !.tx = s]
           b == CASE is_idle(a) /\ a.backoff = "paused" -> "run"
                  [] ~is_idle(a) /\ a.backoff = "run" -> "paused"
                  [] OTHER -> a.backoff
           r == [m EXCEPT !.tx = s, !.backoff = b]
<1>1. a \in Station /\ a.backoff = m.backoff
  BY DEF Station
<1>2. b \in {"off", "run", "paused"} /\ (b = "off" <=> m.backoff = "off") /\ (b = "run" => is_idle(a))
  BY <1>1 DEF Station
<1>3. setTxState(m, s) = [a EXCEPT !.backoff = b]
  BY <1>1 DEF setTxState, checkBackoffTimer, Station
<1>4. is_idle(a) <=> m.rx = "IDLE" /\ s = "IDLE" /\ ~m.nav
  BY DEF is_idle, Station
<1> HIDE DEF b
<1>5. setTxState(m, s) = r
  BY <1>3
<1>6. r \in Station /\ r.tx = s /\ r.backoff = b
  BY <1>2, ZenonT(60) DEF Station
<1>7. SameRx(m, r) /\ SameLink(m, r) /\ SameCount(m, r)
  BY DEF SameRx, SameLink, SameCount, Station
<1>8. IdleOK(r)
  BY <1>2, <1>4, <1>6, <1>7 DEF IdleOK, is_idle, SameRx
<1> HIDE DEF r
<1> QED BY <1>2, <1>5, <1>6, <1>7, <1>8

\* The same for setRxState.
LEMMA SetRxState ==
  ASSUME NEW m \in Station, NEW s \in {"IDLE", "RECV", "COLL"}
  PROVE  /\ setRxState(m, s) \in Station
         /\ SameRx([m EXCEPT !.rx = s], setRxState(m, s))
         /\ SameLink(m, setRxState(m, s)) /\ SameCount(m, setRxState(m, s))
         /\ setRxState(m, s).tx = m.tx
         /\ setRxState(m, s).backoff = "off" <=> m.backoff = "off"
         /\ IdleOK(setRxState(m, s))
<1> DEFINE a == [m EXCEPT !.rx = s]
           b == CASE is_idle(a) /\ a.backoff = "paused" -> "run"
                  [] ~is_idle(a) /\ a.backoff = "run" -> "paused"
                  [] OTHER -> a.backoff
           r == [a EXCEPT !.backoff = b]
<1>1. a \in Station /\ a.backoff = m.backoff /\ SameLink(m, a) /\ SameCount(m, a) /\ a.tx = m.tx
  BY DEF Station, SameLink, SameCount
<1>2. b \in {"off", "run", "paused"} /\ (b = "off" <=> m.backoff = "off") /\ (b = "run" => is_idle(a))
  BY <1>1 DEF Station
<1>3. setRxState(m, s) = r
  BY <1>1 DEF setRxState, checkBackoffTimer, Station
<1> HIDE DEF a, b
<1>4. r \in Station /\ r.backoff = b /\ r.tx = a.tx
  BY <1>1, <1>2 DEF Station
<1>5. SameRx(a, r) /\ SameLink(a, r) /\ SameCount(a, r)
  BY <1>1 DEF SameRx, SameLink, SameCount, Station
<1>6. IdleOK(r)
  BY <1>2, <1>4, <1>5 DEF IdleOK, is_idle, SameRx
<1> HIDE DEF r
<1>7. SameLink(m, r) /\ SameCount(m, r)
  BY <1>1, <1>5 DEF SameLink, SameCount
<1> QED BY <1>1, <1>2, <1>3, <1>4, <1>5, <1>6, <1>7 DEF a

\* The part of send that both its branches share: the packet is taken over and, where
\* it is long enough, given an RTS.
LEMMA SendDATA ==
  ASSUME NEW m \in Station, ~m.abort, m.pktTx = NONE, ~m.pktRTS, NEW p \in Pkt
  PROVE  /\ sendRTS(sendDATA([m EXCEPT !.callback = TRUE], p))
              = [m EXCEPT !.callback = TRUE, !.pktTx = p, !.pktRTS = UsesRTS(p)]
         /\ [m EXCEPT !.callback = TRUE, !.pktTx = p, !.pktRTS = UsesRTS(p)] \in Station
<1> DEFINE a0 == [m EXCEPT !.callback = TRUE]
           a1 == [m EXCEPT !.callback = TRUE, !.pktTx = p]
           a2 == [m EXCEPT !.callback = TRUE, !.pktTx = p, !.pktRTS = UsesRTS(p)]
<1>1. a0 \in Station /\ ~a0.abort /\ a0.pktTx = NONE
  BY DEF Station
<1>2. sendDATA(a0, p) = a1
  BY <1>1, RequireHolds DEF sendDATA
<1>3. a1 \in Station /\ ~a1.abort /\ a1.pktTx = p /\ ~a1.pktRTS /\ p # NONE
  BY PacketAssumption, ZenonT(60) DEF Station, QueueHead
<1>4. sendRTS(a1) = a2
  BY <1>3, RequireHolds DEF sendRTS
<1>5. UsesRTS(p) \in BOOLEAN
  BY DEF UsesRTS
<1>6. a2 \in Station
  BY <1>5, ZenonT(60) DEF Station, QueueHead
<1> QED BY <1>2, <1>4, <1>6

\* send takes the packet over and starts the backoff timer unless some timer is
\* running already.
LEMMA SendEffect ==
  ASSUME bugFix_timer_, NEW m \in Station, ~m.abort, m.pktTx = NONE, ~m.pktRTS, NEW p \in Pkt
  PROVE  \E b \in {"off", "run", "paused"} :
           /\ send(m, p) = [m EXCEPT !.callback = TRUE, !.pktTx = p,
                                     !.pktRTS = UsesRTS(p), !.backoff = b]
           /\ send(m, p) \in Station
           /\ b = "off" => m.defer # "off"
           /\ b = "run" => m.backoff = "run" \/ is_idle(m)
<1> DEFINE a == [m EXCEPT !.callback = TRUE, !.pktTx = p, !.pktRTS = UsesRTS(p)]
           With(b) == [m EXCEPT !.callback = TRUE, !.pktTx = p,
                                !.pktRTS = UsesRTS(p), !.backoff = b]
<1>1. a \in Station /\ a = sendRTS(sendDATA([m EXCEPT !.callback = TRUE], p))
  BY SendDATA
<1>2. ~a.abort /\ a.backoff = m.backoff /\ a.defer = m.defer /\ (is_idle(a) <=> is_idle(m))
  BY DEF Station, is_idle
<1> HIDE DEF a
<1>3. send(m, p) = IF a.backoff = "off" /\ (~is_idle(a) \/ a.defer = "off")
                     THEN backoffStart(a) ELSE a
  BY <1>1 DEF send, contend
<1>4. CASE a.backoff = "off" /\ (~is_idle(a) \/ a.defer = "off")
  <2> DEFINE b == IF is_idle(a) THEN "run" ELSE "paused"
  <2>1. backoffStart(a) = [a EXCEPT !.backoff = b] /\ backoffStart(a) \in Station
    BY <1>1, <1>2, <1>4, BackoffStart
  <2>2. [a EXCEPT !.backoff = b] = With(b)
    BY DEF a
  <2>3. b \in {"off", "run", "paused"} /\ b # "off" /\ (b = "run" => is_idle(m))
    BY <1>2
  <2> QED BY <2>1, <2>2, <2>3, <1>3, <1>4
<1>5. CASE ~(a.backoff = "off" /\ (~is_idle(a) \/ a.defer = "off"))
  <2>1. a = With(m.backoff) /\ m.backoff \in {"off", "run", "paused"}
    BY DEF Station, a
  <2>2. m.backoff = "off" => m.defer # "off"
    BY <1>2, <1>5
  <2> QED BY <2>1, <2>2, <1>1, <1>3, <1>5
<1> QED BY <1>4, <1>5
-----------------------------------------------------------------------------
(* tx_resume *)

\* A station in which tx_resume may be called.
Resumable(m) ==
  /\ m \in Station /\ ~m.abort
  /\ "Send" \notin m.busy /\ m.defer = "off"
  /\ PktOK(m)
  /\ Cleared(m) => m.pktCTRL # "CTS"

\* What tx_resume makes of such a station m, tx aside.
Resumed(m, r, nxt) ==
  /\ r \in Station /\ ~r.abort
  /\ SameRx(m, r) /\ PktOK(r)
  /\ SameLink(m, r) \/ Answers(m, r, nxt)
  /\ r.pktCTRL = m.pktCTRL
  /\ r.defer = "SIFS" <=> (r.pktCTRL # NONE \/ Cleared(m))
  /\ r.defer = "off" <=> ~(r.pktCTRL # NONE \/ Cleared(m))
  /\ Cleared(r) <=> Cleared(m)
  /\ r.callback => r.defer # "off" \/ r.backoff # "off"
  /\ r.callback /\ r.pktTx = NONE => r.pktCTRL # NONE

\* tx_resume with nothing pending: the handler is called, and may hand down a packet.
LEMMA HandleResumed ==
  ASSUME bugFix_timer_, NEW m, Resumable(m), NEW nxt \in QueueHead,
         m.pktCTRL = NONE, ~m.pktRTS, m.pktTx = NONE, m.callback
  PROVE  Resumed(m, handle(m, nxt), nxt)
<1> DEFINE a == [m EXCEPT !.callback = FALSE, !.turn = 1 - @]
<1>1. a \in Station /\ ~a.abort /\ a.pktTx = NONE /\ ~a.pktRTS
      /\ a.turn = 1 - m.turn /\ ~a.callback /\ a.backoff = m.backoff
      /\ SameRx(m, a) /\ SameCount(m, a) /\ a.fate = m.fate
  <2>1. m \in Station /\ 1 - m.turn \in {0, 1}
    BY DEF Resumable, Station
  <2> DEFINE t == 1 - m.turn
  <2>2. a = [m EXCEPT !.callback = FALSE, !.turn = t]
    BY <2>1 DEF Station
  <2> HIDE DEF t
  <2>3. t \in {0, 1}
    BY <2>1 DEF t
  <2>4. a \in Station
    BY <2>1, <2>2, <2>3 DEF Station
  <2>5. a.turn = t /\ a.callback = FALSE /\ a.backoff = m.backoff /\ a.pktTx = m.pktTx
        /\ SameRx(m, a) /\ SameCount(m, a) /\ a.fate = m.fate
    BY <2>1, <2>2 DEF Station, SameRx, SameCount
  <2> QED BY <2>4, <2>5 DEF Resumable, SameCount, t
<1>2. handle(m, nxt) = IF nxt = NONE THEN a ELSE send(a, nxt)
  BY DEF handle
<1> HIDE DEF a
<1>3. CASE nxt = NONE
  <2>1. Answers(m, a, nxt)
    BY <1>1, <1>3 DEF Answers, Resumable, PktOK, SameCount, Station
  <2>2. PktOK(a)
    BY <1>1 DEF Resumable, PktOK, SameCount, Cleared
  <2> QED BY <1>1, <1>2, <1>3, <2>1, <2>2 DEF Resumed, Resumable, SameCount, Cleared
<1>4. CASE nxt # NONE
  <2>1. nxt \in Pkt
    BY <1>4 DEF QueueHead
  <2> DEFINE s == send(a, nxt)
  <2>2. PICK b \in {"off", "run", "paused"} :
           /\ s = [a EXCEPT !.callback = TRUE, !.pktTx = nxt,
                            !.pktRTS = UsesRTS(nxt), !.backoff = b]
           /\ s \in Station
           /\ b = "off" => a.defer # "off"
           /\ b = "run" => a.backoff = "run" \/ is_idle(a)
    BY <1>1, <2>1, SendEffect
  <2>3. s.callback = TRUE /\ s.pktTx = nxt /\ s.pktRTS = UsesRTS(nxt) /\ s.backoff = b
        /\ s.pktCTRL = a.pktCTRL /\ s.defer = a.defer /\ s.ssrc = a.ssrc /\ s.slrc = a.slrc
        /\ s.cw = a.cw /\ s.abort = a.abort /\ s.turn = a.turn /\ s.fate = a.fate /\ SameRx(a, s)
    BY <1>1, <2>2 DEF Station, SameRx
  <2> HIDE DEF s
  <2>4. UsesRTS(nxt) \in BOOLEAN /\ SameRx(m, s)
    BY <1>1, <2>3 DEF UsesRTS, SameRx
  <2>5. m.ssrc = 0 /\ m.cw = CWMin /\ m.slrc < LongRetryLimit /\ m.defer = "off" /\ ~Cleared(m)
        /\ 0 < ShortRetryLimit
    BY RetryAssumption DEF Resumable, PktOK, Cleared
  <2>6. PktOK(s) /\ ~Cleared(s)
    BY <1>1, <1>4, <2>3, <2>5 DEF PktOK, Cleared, SameCount
  <2>7. Answers(m, s, nxt)
    BY <1>1, <1>4, <2>3, <2>5 DEF Answers, SameCount
  <2>8. s.backoff # "off"
    BY <1>1, <2>2, <2>3, <2>5 DEF SameCount
  <2>9. handle(m, nxt) = s /\ s \in Station /\ ~s.abort
        /\ s.pktCTRL = NONE /\ s.defer = "off" /\ s.pktTx # NONE
    BY <1>1, <1>2, <1>4, <2>2, <2>3, <2>5 DEF s, SameCount
  <2> QED BY <2>4, <2>5, <2>6, <2>7, <2>8, <2>9 DEF Resumed
<1> QED BY <1>3, <1>4

\* tx_resume with a frame pending that has to contend for the medium.
LEMMA BackoffResumed ==
  ASSUME NEW m, Resumable(m), NEW nxt, m.pktCTRL = NONE, m.pktTx # NONE, ~Cleared(m),
         m.backoff = "off"
  PROVE  Resumed(m, backoffStart(m), nxt)
<1> DEFINE b == IF is_idle(m) THEN "run" ELSE "paused"
<1>1. backoffStart(m) = [m EXCEPT !.backoff = b] /\ backoffStart(m) \in Station
  BY BackoffStart DEF Resumable
<1> DEFINE r == backoffStart(m)
<1>2. r.backoff # "off" /\ SameRx(m, r) /\ SameCount(m, r) /\ SameLink(m, r)
  BY <1>1 DEF Resumable, Station, SameRx, SameCount, SameLink
<1> HIDE DEF r
<1>3. ~Cleared(r) /\ PktOK(r)
  BY <1>2 DEF Resumable, PktOK, Cleared, SameCount, SameLink
<1> QED BY <1>1, <1>2, <1>3 DEF Resumed, Resumable, SameCount, SameLink, r

\* tx_resume with an answer pending, or DATA whose CTS has come.
LEMMA DeferResumed ==
  ASSUME NEW m, Resumable(m), NEW nxt, m.pktCTRL # NONE \/ Cleared(m)
  PROVE  Resumed(m, deferStart(m, "SIFS"), nxt)
<1>1. deferStart(m, "SIFS") = [m EXCEPT !.defer = "SIFS"] /\ deferStart(m, "SIFS") \in Station
  BY DeferStart DEF Resumable
<1> DEFINE r == deferStart(m, "SIFS")
<1>2. r.backoff = m.backoff /\ SameRx(m, r) /\ SameLink(m, r)
      /\ r.pktRTS = m.pktRTS /\ r.pktCTRL = m.pktCTRL /\ r.defer = "SIFS"
      /\ r.ssrc = m.ssrc /\ r.slrc = m.slrc /\ r.cw = m.cw /\ r.abort = m.abort
  BY <1>1 DEF Resumable, Station, SameRx, SameLink
<1> HIDE DEF r
<1>3. (Cleared(r) <=> Cleared(m)) /\ PktOK(r)
  BY <1>2 DEF Resumable, PktOK, Cleared, SameLink
<1>4. r.pktTx = NONE => r.pktCTRL # NONE
  BY <1>2 DEF Cleared, SameLink
<1> QED BY <1>1, <1>2, <1>3, <1>4 DEF Resumed, Resumable, r

\* tx_resume when the backoff timer is running, or the queue owes nothing.
LEMMA SameResumed ==
  ASSUME NEW m, Resumable(m), NEW nxt, m.pktCTRL = NONE, ~Cleared(m),
         m.pktTx = NONE => ~m.callback, m.callback => m.backoff # "off"
  PROVE  Resumed(m, m, nxt)
BY DEF Resumed, Resumable, SameRx, SameLink

\* tx_resume keeps its assertions, settles which timer moves the pending frame, and
\* calls the handler only when no packet is left.
LEMMA TxResume ==
  ASSUME bugFix_timer_, NEW m, Resumable(m), NEW nxt \in QueueHead
  PROVE  /\ Resumed(m, tx_resume(m, nxt), nxt)
         /\ tx_resume(m, nxt).tx = "IDLE"
         /\ TxOK(tx_resume(m, nxt)) /\ IdleOK(tx_resume(m, nxt))
<1> DEFINE b == CASE m.pktCTRL # NONE -> deferStart(m, "SIFS")
             [] m.pktCTRL = NONE /\ m.pktRTS ->
                  IF m.backoff = "off" THEN contend(m) ELSE m
             [] m.pktCTRL = NONE /\ ~m.pktRTS /\ m.pktTx # NONE ->
                  IF m.backoff # "off" THEN m
                  ELSE IF UsesRTS(m.pktTx) THEN deferStart(m, "SIFS")
                  ELSE contend(m)
             [] m.pktCTRL = NONE /\ ~m.pktRTS /\ m.pktTx = NONE ->
                  IF m.callback THEN handle(m, nxt) ELSE m
           r == tx_resume(m, nxt)
<1>1. Require(m, "Send" \notin m.busy /\ m.defer = "off") = m
  BY RequireHolds DEF Resumable
<1>2. r = setTxState(b, "IDLE")
  BY <1>1 DEF tx_resume
<1>3. m \in Station /\ PktOK(m) /\ (m.pktRTS \in BOOLEAN)
  BY DEF Resumable, Station
<1>4. Resumed(m, b, nxt)
  <2>1. CASE m.pktCTRL # NONE
    BY <2>1, DeferResumed
  <2>2. CASE m.pktCTRL = NONE /\ m.pktRTS
    <3>1. m.pktTx # NONE /\ ~Cleared(m)
      BY <1>3, <2>2 DEF PktOK, Cleared
    <3>2. b = IF m.backoff = "off" THEN backoffStart(m) ELSE m
      BY <2>2 DEF contend
    <3> QED BY <2>2, <3>1, <3>2, BackoffResumed, SameResumed
  <2>3. CASE m.pktCTRL = NONE /\ ~m.pktRTS /\ m.pktTx # NONE
    <3>1. b = IF m.backoff # "off" THEN m
              ELSE IF UsesRTS(m.pktTx) THEN deferStart(m, "SIFS") ELSE backoffStart(m)
      BY <2>3 DEF contend
    <3>2. CASE UsesRTS(m.pktTx)
      <4>1. Cleared(m)
        BY <2>3, <3>2 DEF Cleared
      <4>2. m.backoff = "off"
        BY <1>3, <4>1 DEF PktOK
      <4> QED BY <3>1, <3>2, <4>1, <4>2, DeferResumed
    <3>3. CASE ~UsesRTS(m.pktTx)
      <4>1. ~Cleared(m)
        BY <3>3 DEF Cleared
      <4> QED BY <2>3, <3>1, <3>3, <4>1, BackoffResumed, SameResumed
    <3> QED BY <3>2, <3>3
  <2>4. CASE m.pktCTRL = NONE /\ ~m.pktRTS /\ m.pktTx = NONE
    <3>1. b = IF m.callback THEN handle(m, nxt) ELSE m
      BY <2>4
    <3>2. ~Cleared(m)
      BY <2>4 DEF Cleared
    <3> QED BY <2>4, <3>1, <3>2, HandleResumed, SameResumed
  <2> QED BY <2>1, <2>2, <2>3, <2>4
<1> HIDE DEF b
<1>5. /\ r \in Station /\ r.tx = "IDLE"
      /\ SameRx(b, r) /\ SameLink(b, r) /\ SameCount(b, r)
      /\ r.backoff = "off" <=> b.backoff = "off"
      /\ IdleOK(r)
  BY <1>2, <1>4, SetTxState DEF Resumed
<1> HIDE DEF r
<1>6. Resumed(m, r, nxt)
  <2>1. SameRx(m, r)
    BY <1>4, <1>5 DEF Resumed, SameRx
  <2>2. SameLink(m, r) \/ Answers(m, r, nxt)
    BY <1>4, <1>5 DEF Resumed, SameLink, Answers, SameCount
  <2>3. PktOK(r) /\ (Cleared(r) <=> Cleared(b))
    BY <1>4, <1>5 DEF Resumed, SameLink, SameCount, PktOK, Cleared
  <2> QED BY <1>4, <1>5, <2>1, <2>2, <2>3 DEF Resumed, SameLink, SameCount
<1>7. TxOK(r)
  <2>1. "Send" \notin r.busy
    BY <1>6 DEF Resumed, SameRx, Resumable
  <2>2. r.pktCTRL = m.pktCTRL /\ (Cleared(r) <=> Cleared(m))
        /\ (r.defer = "SIFS" <=> (r.pktCTRL # NONE \/ Cleared(m)))
        /\ (r.defer = "off" <=> ~(r.pktCTRL # NONE \/ Cleared(m)))
        /\ (Cleared(m) => m.pktCTRL # "CTS")
    BY <1>6 DEF Resumed, Resumable
  <2> QED BY <1>5, <2>1, <2>2 DEF TxOK
<1> QED BY <1>5, <1>6, <1>7 DEF r

-----------------------------------------------------------------------------
(* Steps of the queue, and the end of a transmission *)

\* The pending packet leaves the station with a fate that it can have.
Settles(m, r) ==
  /\ m.pktTx # NONE /\ r.pktTx = NONE
  /\ r.fate = "sent" \/ (r.fate = "failed" /\ ~m.pktTx.bcast)
  /\ r.callback = m.callback /\ r.turn = m.turn

\* A step of LinkService or none; a packet that is taken over starts with fresh counts.
LinkStep(m, r) ==
  \/ SameLink(m, r)
  \/ /\ ~m.callback /\ m.pktTx = NONE
     /\ r.pktTx \in Pkt /\ r.callback = TRUE /\ r.turn = m.turn /\ r.fate = m.fate
     /\ r.ssrc = 0 /\ r.cw = CWMin
  \/ Settles(m, r)
  \/ \E nxt \in QueueHead :
       /\ m.callback /\ r.turn = 1 - m.turn
       /\ IF m.pktTx = NONE THEN r.fate = m.fate
          ELSE r.fate = "sent" \/ (r.fate = "failed" /\ ~m.pktTx.bcast)
       /\ r.pktTx = nxt /\ r.callback = (nxt # NONE)
       /\ r.ssrc = 0 /\ r.cw = CWMin

\* r is m as far as the sending side can tell.
SameSend(m, r) ==
  /\ SameLink(m, r) /\ SameCount(m, r)
  /\ r.tx = m.tx /\ r.tx_active = m.tx_active
  /\ r.backoff = "off" <=> m.backoff = "off"
  /\ \A t \in {"Send", "IF"} : t \in r.busy <=> t \in m.busy
  /\ r.cache = m.cache /\ r.copies = m.copies /\ r.peerseq = m.peerseq

\* The sending side is sound whatever the receiver does.
LEMMA SameSound ==
  ASSUME NEW m, Sound(m), NEW r \in Station, SameSend(m, r)
  PROVE  Sound(r) /\ (PendOK(m) => PendOK(r))
<1>1. Cleared(r) <=> Cleared(m)
  BY DEF Cleared, SameSend, SameLink, SameCount
<1>2. PktOK(r)
  BY <1>1 DEF Sound, PktOK, SameSend, SameLink, SameCount
<1>3. TxOK(r)
  BY <1>1 DEF Sound, TxOK, SameSend, SameLink, SameCount
<1>4. IfOK(r) /\ SeqOK(r) /\ ~r.abort
  BY DEF Sound, IfOK, SeqOK, SameSend, SameCount
<1>5. PendOK(m) => PendOK(r)
  BY DEF PendOK, SameSend, SameLink, SameCount
<1> QED BY <1>2, <1>3, <1>4, <1>5 DEF Sound

\* a is m with its transmission over, its packet kept or given up: ready for tx_resume.
Prepared(m, a) ==
  /\ Resumable(a)
  /\ a.rx = m.rx /\ a.pktRx = m.pktRx /\ a.rxerr = m.rxerr /\ a.late = m.late
  /\ a.tx_active = m.tx_active
  /\ \A t \in {"Recv", "IF"} : t \in a.busy <=> t \in m.busy
  /\ a.cache = m.cache /\ a.copies = m.copies /\ a.peerseq = m.peerseq
  /\ SameLink(m, a) \/ Settles(m, a)

\* What tx_resume makes of it.
Continues(m, a, r) ==
  /\ Sound(r) /\ IdleOK(r) /\ r.tx = "IDLE"
  /\ r.rx = m.rx /\ r.pktRx = m.pktRx /\ r.rxerr = m.rxerr /\ r.late = m.late
  /\ r.tx_active = m.tx_active
  /\ "Recv" \in r.busy <=> "Recv" \in m.busy
  /\ LinkStep(m, r)
  /\ a.pktCTRL # "CTS" => PendOK(r)
  /\ r.pktCTRL = a.pktCTRL
  /\ r.defer = "SIFS" /\ r.pktCTRL = NONE => Cleared(a)

\* tx_resume after the packet was kept or given up.
LEMMA PreparedResume ==
  ASSUME bugFix_timer_, NEW m, IfOK(m), SeqOK(m), NEW a, Prepared(m, a), NEW nxt \in QueueHead
  PROVE  Continues(m, a, tx_resume(a, nxt))
<1> DEFINE r == tx_resume(a, nxt)
<1>1. Resumed(a, r, nxt) /\ r.tx = "IDLE" /\ TxOK(r) /\ IdleOK(r)
  BY TxResume DEF Prepared
<1> HIDE DEF r
<1>2. /\ r.rx = m.rx /\ r.pktRx = m.pktRx /\ r.rxerr = m.rxerr /\ r.late = m.late
      /\ r.tx_active = m.tx_active
      /\ "Recv" \in r.busy <=> "Recv" \in m.busy
      /\ "IF" \in r.busy <=> "IF" \in m.busy
      /\ r.cache = m.cache /\ r.copies = m.copies /\ r.peerseq = m.peerseq
  BY <1>1 DEF Prepared, Resumed, SameRx
<1>3. Sound(r)
  BY <1>1, <1>2 DEF Resumed, Sound, IfOK, SeqOK
<1>4. LinkStep(m, r)
  BY <1>1 DEF Prepared, Resumed, LinkStep, SameLink, Settles, Answers
<1>5. ASSUME a.pktCTRL # "CTS" PROVE PendOK(r)
  BY <1>1, <1>5, <1>3 DEF Resumed, PendOK, Sound, PktOK
<1>6. r.pktCTRL = a.pktCTRL /\ (r.defer = "SIFS" /\ r.pktCTRL = NONE => Cleared(a))
  BY <1>1 DEF Resumed
<1> QED BY <1>1, <1>2, <1>3, <1>4, <1>5, <1>6 DEF Continues, r

-----------------------------------------------------------------------------
(* Incoming frames *)

\* A frame is complete and about to be handled.
Complete(m) ==
  /\ Sound(m) /\ "Recv" \notin m.busy
  /\ m.defer = "SIFS" => m.pktCTRL # NONE

\* It has been.
Handled(m, r) == Sound(r) /\ "Recv" \notin r.busy /\ LinkStep(m, r)

\* A frame that is ignored.
LEMMA IgnoreHandled ==
  ASSUME NEW m, Complete(m) PROVE Handled(m, m)
BY DEF Complete, Handled, LinkStep, SameLink

\* A frame whose handler ends in tx_resume.
LEMMA ResumeHandled ==
  ASSUME bugFix_timer_, NEW m, Complete(m), NEW a, Prepared(m, a), NEW nxt \in QueueHead
  PROVE  Handled(m, tx_resume(a, nxt)) /\ (a.pktCTRL # "CTS" => PendOK(tx_resume(a, nxt)))
<1>1. IfOK(m) /\ SeqOK(m) /\ "Recv" \notin m.busy
  BY DEF Complete, Sound
<1>2. Continues(m, a, tx_resume(a, nxt))
  BY <1>1, PreparedResume
<1> QED BY <1>1, <1>2 DEF Continues, Handled

\* recvRTS: an RTS is answered with a CTS only by a station with no answer pending.
LEMMA RecvRTS ==
  ASSUME bugFix_timer_, NEW m, Complete(m), NEW nxt \in QueueHead
  PROVE  Handled(m, recvRTS(m, nxt))
<1>1. CASE m.tx # "IDLE" \/ m.pktCTRL # NONE
  BY <1>1, IgnoreHandled DEF recvRTS
<1>2. CASE m.tx = "IDLE" /\ m.pktCTRL = NONE
  <2> DEFINE a == [m EXCEPT !.pktCTRL = "CTS", !.defer = "off"]
  <2>1. m \in Station /\ ~m.abort
    BY DEF Complete, Sound
  <2>2. Require(m, m.pktCTRL = NONE) = m
    BY <1>2, <2>1, RequireHolds
  <2>3. recvRTS(m, nxt) = tx_resume(a, nxt)
    BY <1>2, <2>2 DEF recvRTS, sendCTS
  <2>4. a \in Station
    BY <2>1 DEF Station, Control
  <2>5. /\ SameLink(m, a) /\ SameRx(m, a)
        /\ a.pktCTRL = "CTS" /\ a.defer = "off" /\ a.backoff = m.backoff /\ a.tx = m.tx
        /\ a.pktRTS = m.pktRTS /\ a.ssrc = m.ssrc /\ a.slrc = m.slrc /\ a.cw = m.cw
        /\ a.abort = m.abort
    BY <2>1 DEF Station, SameLink, SameRx
  <2> HIDE DEF a
  <2>6. "Send" \notin m.busy /\ m.defer = "off" /\ ~Cleared(m) /\ PktOK(m)
    BY <1>2, <2>1 DEF Complete, Sound, TxOK
  <2>7. PktOK(a) /\ ~Cleared(a)
    BY <2>5, <2>6 DEF PktOK, Cleared, SameLink
  <2>8. Prepared(m, a)
    BY <2>1, <2>4, <2>5, <2>6, <2>7 DEF Prepared, Resumable, SameRx
  <2> QED BY <2>3, <2>8, ResumeHandled
<1> QED BY <1>1, <1>2 DEF Complete, Sound, Station

\* mhSend_ is running whenever a frame awaits an answer, so it can be stopped.
LEMMA SendStopped ==
  ASSUME NEW m, Sound(m), m.tx # "IDLE"
  PROVE  /\ timerStop(m, "Send") = [m EXCEPT !.busy = @ \ {"Send"}]
         /\ timerStop(m, "Send") \in Station
<1>1. m \in Station /\ ~m.abort /\ "Send" \in m.busy
  BY DEF Sound, TxOK
<1>2. Require(m, "Send" \in m.busy) = m
  BY <1>1, RequireHolds
<1>3. timerStop(m, "Send") = [m EXCEPT !.busy = @ \ {"Send"}]
  BY <1>2 DEF timerStop
<1> QED BY <1>1, <1>3 DEF Station

\* recvCTS: the RTS is done with and the short retry count starts anew.
LEMMA RecvCTS ==
  ASSUME bugFix_timer_, NEW m, Complete(m), NEW nxt \in QueueHead
  PROVE  Handled(m, recvCTS(m, nxt)) /\ (PendOK(m) => PendOK(recvCTS(m, nxt)))
<1>1. CASE m.tx # "RTS"
  BY <1>1, IgnoreHandled DEF recvCTS
<1>2. CASE m.tx = "RTS"
  <2> DEFINE a == [m EXCEPT !.busy = @ \ {"Send"}, !.pktRTS = FALSE, !.ssrc = 0]
  <2>1. m \in Station /\ ~m.abort /\ Sound(m) /\ m.pktRTS /\ m.pktTx # NONE /\ PktOK(m)
    BY <1>2 DEF Complete, Sound, TxOK, PktOK
  <2>2. Require(m, m.pktRTS /\ m.pktTx # NONE) = m
    BY <2>1, RequireHolds
  <2>3. timerStop(m, "Send") = [m EXCEPT !.busy = @ \ {"Send"}]
    BY <1>2, <2>1, SendStopped
  <2>4. recvCTS(m, nxt) = tx_resume(a, nxt)
    BY <1>2, <2>2, <2>3 DEF recvCTS
  <2>5. a \in Station
    BY <2>1 DEF Station
  <2>6. /\ SameLink(m, a) /\ a.busy = m.busy \ {"Send"}
        /\ a.rx = m.rx /\ a.pktRx = m.pktRx /\ a.rxerr = m.rxerr /\ a.late = m.late
        /\ a.tx_active = m.tx_active
        /\ a.cache = m.cache /\ a.copies = m.copies /\ a.peerseq = m.peerseq
        /\ a.pktCTRL = m.pktCTRL /\ a.defer = m.defer /\ a.backoff = m.backoff
        /\ a.pktRTS = FALSE /\ a.ssrc = 0 /\ a.slrc = m.slrc /\ a.cw = m.cw
        /\ a.abort = m.abort
    BY <2>1 DEF Station, SameLink
  <2> HIDE DEF a
  <2>7. m.defer = "off" /\ m.pktCTRL # "CTS" /\ m.backoff = "off"
    BY <1>2, <2>1 DEF Sound, TxOK
  <2>8. PktOK(a)
    BY RetryAssumption, <2>1, <2>6, <2>7 DEF PktOK, Cleared, SameLink
  <2>9. Prepared(m, a)
    BY <2>1, <2>5, <2>6, <2>7, <2>8 DEF Prepared, Resumable
  <2> QED BY <2>4, <2>6, <2>7, <2>9, ResumeHandled
<1> QED BY <1>1, <1>2

\* The short retry count is not in use for a packet that is counted as long, nor for a
\* broadcast.
LEMMA LongPacket ==
  ASSUME NEW m, m \in Station, PktOK(m), m.pktTx # NONE, ~m.pktRTS,
         ~CountsShort(m.pktTx) \/ m.pktTx.bcast
  PROVE  m.ssrc = 0
<1>1. m.pktTx \in Pkt
  BY DEF Station, QueueHead
<1>2. m.pktTx.size \in Nat /\ m.pktTx.bcast \in BOOLEAN
  BY <1>1, PacketAssumption
<1>3. ~m.pktTx.bcast => Cleared(m)
  BY <1>2, RetryAssumption DEF CountsShort, Cleared, UsesRTS
<1> QED BY <1>3 DEF PktOK

\* recvACK: the packet is sent, whichever of the two retry counts it was using.
LEMMA RecvACK ==
  ASSUME bugFix_timer_, NEW m, Complete(m), NEW nxt \in QueueHead
  PROVE  Handled(m, recvACK(m, nxt)) /\ (PendOK(m) => PendOK(recvACK(m, nxt)))
<1>1. CASE m.tx # "SEND"
  BY <1>1, IgnoreHandled DEF recvACK
<1>2. CASE m.tx = "SEND"
  <2> DEFINE a == [m EXCEPT !.busy = @ \ {"Send"}]
             short == CountsShort(m.pktTx)
             n == IF short THEN 0 ELSE m.ssrc
             l == IF short THEN m.slrc ELSE 0
             d == [m EXCEPT !.busy = @ \ {"Send"}, !.ssrc = n, !.slrc = l,
                            !.cw = CWMin, !.pktTx = NONE, !.fate = "sent"]
             e == backoffStart(d)
  <2>1. /\ m \in Station /\ ~m.abort /\ Sound(m) /\ m.pktTx # NONE /\ ~m.pktRTS
        /\ PktOK(m) /\ m.backoff = "off" /\ m.defer = "off"
    BY <1>2 DEF Complete, Sound, TxOK
  <2>2. Require(m, m.pktTx # NONE) = m
    BY <2>1, RequireHolds
  <2>3. timerStop(m, "Send") = a /\ a \in Station /\ a.pktTx = m.pktTx
    BY <1>2, <2>1, SendStopped DEF Station
  <2>4. n = 0 /\ n \in Nat /\ l \in Nat /\ l < LongRetryLimit
    BY <2>1, LongPacket, RetryAssumption DEF PktOK, Station
  <2>5. recvACK(m, nxt) = tx_resume(e, nxt)
    <3> DEFINE b == IF CountsShort(a.pktTx) THEN [a EXCEPT !.ssrc = 0] ELSE [a EXCEPT !.slrc = 0]
    <3>1. recvACK(m, nxt) = tx_resume(backoffStart(dropTx(rst_cw(b), "sent")), nxt)
      BY <1>2, <2>2, <2>3 DEF recvACK
    <3>2. dropTx(rst_cw(b), "sent") = d
      BY <2>1, <2>3, ZenonT(60) DEF dropTx, rst_cw, Station
    <3> QED BY <3>1, <3>2
  <2> HIDE DEF n, l
  <2>6. d \in Station
    <3>1. m \in Station /\ n \in Nat /\ l \in Nat
      BY <2>1, <2>4
    <3>2. NONE \in QueueHead /\ CWMin \in CWMin .. CWMax
      BY RetryAssumption DEF QueueHead
    <3> QED BY <3>1, <3>2, ZenonT(60) DEF Station
  <2>7. /\ d.pktTx = NONE /\ d.fate = "sent" /\ d.callback = m.callback /\ d.turn = m.turn
        /\ d.busy = m.busy \ {"Send"}
        /\ d.rx = m.rx /\ d.pktRx = m.pktRx /\ d.rxerr = m.rxerr /\ d.late = m.late
        /\ d.tx_active = m.tx_active
        /\ d.cache = m.cache /\ d.copies = m.copies /\ d.peerseq = m.peerseq
        /\ d.pktCTRL = m.pktCTRL /\ d.defer = m.defer /\ d.backoff = m.backoff
        /\ d.pktRTS = m.pktRTS /\ d.ssrc = n /\ d.slrc = l /\ d.cw = CWMin
        /\ d.abort = m.abort
    BY <2>1 DEF Station
  <2> HIDE DEF d
  <2>8. /\ e \in Station
        /\ e = [d EXCEPT !.backoff = IF is_idle(d) THEN "run" ELSE "paused"]
    BY <2>1, <2>6, <2>7, BackoffStart
  <2>9. SameLink(d, e) /\ SameCount(d, e) /\ SameRx(d, e)
    BY <2>6, <2>8 DEF Station, SameLink, SameCount, SameRx
  <2> HIDE DEF e
  <2>10. PktOK(e)
    BY <2>1, <2>4, <2>7, <2>9, RetryAssumption DEF PktOK, Cleared, SameLink, SameCount
  <2>11. Settles(m, e)
    BY <2>1, <2>7, <2>9 DEF Settles, SameLink
  <2>12. ~Cleared(e)
    BY <2>7, <2>9 DEF Cleared, SameLink
  <2>13. Prepared(m, e)
    BY <2>1, <2>7, <2>8, <2>9, <2>10, <2>11, <2>12 DEF Prepared, Resumable, SameRx, SameCount
  <2> QED BY <2>5, <2>7, <2>9, <2>13, ResumeHandled DEF PendOK, SameCount
<1> QED BY <1>1, <1>2

\* passUp leaves the sending side alone and passes a payload up twice only under the
\* sequence number zero.
LEMMA PassUp ==
  ASSUME NEW m, NEW r, Handled(m, r), NEW f \in Frame
  PROVE  Handled(m, passUp(r, f)) /\ (PendOK(r) => PendOK(passUp(r, f)))
<1> DEFINE s == f.src
           n == IF r.copies[s] < 2 THEN r.copies[s] + 1 ELSE r.copies[s]
           c == [r.cache EXCEPT ![s] = r.peerseq[s]]
           k == [r.copies EXCEPT ![s] = n]
           p == [r EXCEPT !.cache = c, !.copies = k]
<1>1. r \in Station /\ s \in Peer /\ SeqOK(r)
  BY PacketAssumption DEF Handled, Sound
<1>2. /\ r.cache \in [Peer -> Nat] /\ r.copies \in [Peer -> 0 .. 2]
      /\ r.peerseq \in [Peer -> 0 .. SeqMod - 1]
  BY <1>1 DEF Station
<1>3. /\ passUp(r, f) = r
      \/ /\ passUp(r, f) = p
         /\ r.cache[s] = 0 \/ r.cache[s] # r.peerseq[s]
  BY <1>1 DEF passUp, Station
<1>4. CASE passUp(r, f) = p /\ (r.cache[s] = 0 \/ r.cache[s] # r.peerseq[s])
  <2>1. c \in [Peer -> Nat] /\ n \in 0 .. 2 /\ k \in [Peer -> 0 .. 2]
    BY <1>1, <1>2, RetryAssumption
  <2>2. r.copies[s] # 0 => r.peerseq[s] = 0
    BY <1>1, <1>2, <1>4 DEF SeqOK
  <2>3. r.peerseq[s] # 0 => n = 1
    BY <1>1, <1>2, <2>2
  <2>4. \A q \in Peer : /\ k[q] # 0 => c[q] = r.peerseq[q]
                        /\ r.peerseq[q] # 0 => k[q] <= 1
    BY <1>1, <1>2, <2>1, <2>3 DEF SeqOK
  <2> HIDE DEF c, k
  <2>5. p \in Station /\ p.cache = c /\ p.copies = k /\ p.peerseq = r.peerseq
    BY <1>1, <2>1 DEF Station
  <2>6. SameLink(r, p) /\ SameCount(r, p) /\ p.tx = r.tx /\ p.rx = r.rx /\ p.busy = r.busy
        /\ p.backoff = r.backoff /\ p.tx_active = r.tx_active
    BY <1>1 DEF Station, SameLink, SameCount
  <2> HIDE DEF p
  <2>7. SeqOK(p)
    BY <2>4, <2>5 DEF SeqOK
  <2>8. Sound(r) /\ "Recv" \notin r.busy /\ LinkStep(m, r)
    BY DEF Handled
  <2>9. Cleared(p) <=> Cleared(r)
    BY <2>6 DEF Cleared, SameLink, SameCount
  <2>10. PktOK(p) /\ TxOK(p) /\ IfOK(p) /\ ~p.abort
    BY <2>6, <2>8, <2>9 DEF Sound, PktOK, TxOK, IfOK, SameLink, SameCount
  <2>11. LinkStep(m, p)
    BY <2>6, <2>8 DEF LinkStep, SameLink, SameCount, Settles
  <2>12. PendOK(r) => PendOK(p)
    BY <2>6 DEF PendOK, SameLink, SameCount
  <2> QED BY <1>4, <2>5, <2>6, <2>7, <2>8, <2>10, <2>11, <2>12 DEF Handled, Sound
<1> QED BY <1>3, <1>4

\* sendACK with no answer pending keeps its assertion.
LEMMA SendACK ==
  ASSUME NEW m \in Station, ~m.abort, m.pktCTRL = NONE
  PROVE  /\ sendACK(m) = [m EXCEPT !.pktCTRL = "ACK"]
         /\ sendACK(m) \in Station
<1>1. Require(m, m.pktCTRL = NONE) = m
  BY RequireHolds
<1>2. sendACK(m) = [m EXCEPT !.pktCTRL = "ACK"]
  BY <1>1 DEF sendACK
<1>3. "ACK" \in Control
  BY DEF Control
<1>4. [m EXCEPT !.pktCTRL = "ACK"] \in Station
  BY <1>3 DEF Station
<1> QED BY <1>2, <1>4

\* recvDATA: the ACK takes the place of the CTS, or waits for the pending transmission.
LEMMA RecvDATA ==
  ASSUME bugFix_timer_, NEW m, Complete(m), NEW f \in Frame, NEW nxt \in QueueHead
  PROVE  Handled(m, recvDATA(m, f, nxt)) /\ (PendOK(m) => PendOK(recvDATA(m, f, nxt)))
<1>1. m \in Station /\ ~m.abort /\ Sound(m) /\ PktOK(m) /\ TxOK(m)
  BY DEF Complete, Sound
<1>2. f.size \in Nat /\ RTSThreshold \in Nat
  BY PacketAssumption, RetryAssumption
<1>3. CASE f.to = "all"
  <2>1. recvDATA(m, f, nxt) = m
    BY <1>3 DEF recvDATA, passUp
  <2> QED BY <2>1, IgnoreHandled
<1>4. CASE f.to # "all" /\ f.size >= RTSThreshold /\ m.tx # "CTS"
  <2>1. recvDATA(m, f, nxt) = m
    BY <1>2, <1>4 DEF recvDATA
  <2> QED BY <2>1, IgnoreHandled
<1>5. CASE f.to # "all" /\ f.size >= RTSThreshold /\ m.tx = "CTS"
  <2> DEFINE b == [m EXCEPT !.pktCTRL = NONE]
             c == [b EXCEPT !.busy = @ \ {"Send"}]
             a == [c EXCEPT !.pktCTRL = "ACK"]
  <2>1. /\ m.pktCTRL = "CTS" /\ m.pktCTRL # NONE /\ "Send" \in m.busy /\ m.defer = "off"
        /\ ~Cleared(m)
    BY <1>1, <1>5, PacketAssumption DEF TxOK
  <2>2. Require(m, m.pktCTRL # NONE) = m
    BY <1>1, <2>1, RequireHolds
  <2>3. b \in Station /\ ~b.abort /\ "Send" \in b.busy
    <3>1. m \in Station /\ NONE \in Control
      BY <1>1 DEF Control
    <3>2. b \in Station /\ b.abort = m.abort /\ b.busy = m.busy
      BY <3>1 DEF Station
    <3> QED BY <1>1, <2>1, <3>2
  <2>4. timerStop(b, "Send") = c
    BY <2>3, RequireHolds DEF timerStop
  <2>5. c \in Station /\ ~c.abort /\ c.pktCTRL = NONE
    <3>1. m \in Station /\ NONE \in Control
      BY <1>1 DEF Control
    <3>2. c \in Station /\ c.abort = m.abort /\ c.pktCTRL = NONE
      BY <3>1 DEF Station
    <3> QED BY <1>1, <3>2
  <2>6. sendACK(c) = a /\ a \in Station
    BY <2>5, SendACK
  <2>7. recvDATA(m, f, nxt) = passUp(tx_resume(a, nxt), f)
    BY <1>2, <1>5, <2>2, <2>4, <2>6 DEF recvDATA
  <2>8. /\ SameLink(m, a) /\ a.busy = m.busy \ {"Send"}
        /\ a.rx = m.rx /\ a.pktRx = m.pktRx /\ a.rxerr = m.rxerr /\ a.late = m.late
        /\ a.tx_active = m.tx_active
        /\ a.cache = m.cache /\ a.copies = m.copies /\ a.peerseq = m.peerseq
        /\ a.pktCTRL = "ACK" /\ a.defer = m.defer /\ a.backoff = m.backoff
        /\ a.pktRTS = m.pktRTS /\ a.ssrc = m.ssrc /\ a.slrc = m.slrc /\ a.cw = m.cw
        /\ a.abort = m.abort
    BY <1>1 DEF Station, SameLink
  <2> HIDE DEF a
  <2>9. PktOK(a) /\ ~Cleared(a)
    BY <1>1, <2>1, <2>8 DEF PktOK, Cleared, SameLink
  <2>10. Prepared(m, a)
    BY <1>1, <2>1, <2>6, <2>8, <2>9 DEF Prepared, Resumable
  <2>11. Handled(m, tx_resume(a, nxt)) /\ PendOK(tx_resume(a, nxt))
    BY <2>8, <2>10, ResumeHandled
  <2> QED BY <2>7, <2>11, PassUp
<1>6. CASE f.to # "all" /\ f.size < RTSThreshold /\ m.pktCTRL # NONE
  <2>1. recvDATA(m, f, nxt) = m
    BY <1>2, <1>6 DEF recvDATA
  <2> QED BY <2>1, IgnoreHandled
<1>7. CASE f.to # "all" /\ f.size < RTSThreshold /\ m.pktCTRL = NONE
  <2> DEFINE a == sendACK(m)
  <2>1. a \in Station /\ a = [m EXCEPT !.pktCTRL = "ACK"]
    BY <1>1, <1>7, SendACK
  <2>2. recvDATA(m, f, nxt)
          = passUp(IF "Send" \in m.busy THEN a ELSE tx_resume(a, nxt), f)
    BY <1>2, <1>7 DEF recvDATA
  <2>3. /\ SameLink(m, a) /\ SameRx(m, a) /\ a.tx = m.tx
        /\ a.pktCTRL = "ACK" /\ a.defer = m.defer /\ a.backoff = m.backoff
        /\ a.pktRTS = m.pktRTS /\ a.ssrc = m.ssrc /\ a.slrc = m.slrc /\ a.cw = m.cw
        /\ a.abort = m.abort
    BY <1>1, <2>1 DEF Station, SameLink, SameRx
  <2> HIDE DEF a
  <2>4. m.defer = "off" /\ m.tx \notin {"CTS", "ACK"}
    BY <1>1, <1>7, PacketAssumption DEF Complete, TxOK
  <2>5. PktOK(a) /\ (Cleared(a) <=> Cleared(m))
    BY <1>1, <2>3 DEF PktOK, Cleared, SameLink
  <2>6. CASE "Send" \in m.busy
    <3>1. TxOK(a)
      BY <1>1, <2>3, <2>4, <2>5, <2>6, PacketAssumption DEF TxOK, SameRx, SameLink
    <3>2. Sound(a) /\ "Recv" \notin a.busy
      BY <2>1, <1>1, <2>3, <2>5, <3>1 DEF Sound, Complete, IfOK, SeqOK, SameRx
    <3>3. Handled(m, a)
      BY <2>3, <3>2 DEF Handled, LinkStep
    <3>4. PendOK(m) => PendOK(a)
      BY <2>3, PacketAssumption DEF PendOK, SameLink
    <3> QED BY <2>2, <2>6, <3>3, <3>4, PassUp
  <2>7. CASE "Send" \notin m.busy
    <3>1. Prepared(m, a)
      BY <1>1, <2>1, <2>3, <2>4, <2>5, <2>7 DEF Prepared, Resumable, SameRx
    <3>2. Handled(m, tx_resume(a, nxt)) /\ PendOK(tx_resume(a, nxt))
      BY <2>3, <3>1, ResumeHandled
    <3> QED BY <2>2, <2>7, <3>2, PassUp
  <2> QED BY <2>6, <2>7
<1> QED BY <1>2, <1>3, <1>4, <1>5, <1>6, <1>7

\* recvNoise touches the interference flag and its timer only.
LEMMA RecvNoise ==
  ASSUME NEW m, Complete(m)
  PROVE  Handled(m, recvNoise(m)) /\ (PendOK(m) => PendOK(recvNoise(m)))
<1> DEFINE r == [m EXCEPT !.noiseFlag = TRUE, !.busy = @ \cup {"Valid"}]
<1>1. m \in Station /\ Sound(m) /\ "Recv" \notin m.busy
  BY DEF Complete, Sound
<1>2. recvNoise(m) = r
  BY DEF recvNoise
<1>3. r \in Station /\ SameLink(m, r) /\ SameCount(m, r)
      /\ r.tx = m.tx /\ r.backoff = m.backoff /\ r.tx_active = m.tx_active
      /\ r.busy = m.busy \cup {"Valid"}
      /\ r.cache = m.cache /\ r.copies = m.copies /\ r.peerseq = m.peerseq
  BY <1>1 DEF Station, SameLink, SameCount
<1> HIDE DEF r
<1>4. SameSend(m, r)
  BY <1>3 DEF SameSend
<1>5. Sound(r) /\ (PendOK(m) => PendOK(r))
  BY <1>1, <1>3, <1>4, SameSound
<1> QED BY <1>1, <1>2, <1>3, <1>5 DEF Handled, LinkStep

\* Every frame is handled; all but an RTS leave the station with a timer running.
LEMMA Dispatch ==
  ASSUME bugFix_timer_, NEW m, Complete(m), NEW f \in Frame, NEW nxt \in QueueHead
  PROVE  /\ Handled(m, dispatch(m, f, nxt))
         /\ f.type # "RTS" /\ PendOK(m) => PendOK(dispatch(m, f, nxt))
<1>1. f.type \in {"RTS", "CTS", "ACK", "DATA", "NOISE"}
  BY PacketAssumption
<1>2. CASE f.type = "RTS"
  <2>1. dispatch(m, f, nxt) = recvRTS(m, nxt)
    BY <1>2 DEF dispatch
  <2> QED BY <1>2, <2>1, RecvRTS
<1>3. CASE f.type = "CTS"
  <2>1. dispatch(m, f, nxt) = recvCTS(m, nxt)
    BY <1>3 DEF dispatch
  <2> QED BY <2>1, RecvCTS
<1>4. CASE f.type = "ACK"
  <2>1. dispatch(m, f, nxt) = recvACK(m, nxt)
    BY <1>4 DEF dispatch
  <2> QED BY <2>1, RecvACK
<1>5. CASE f.type = "DATA"
  <2>1. dispatch(m, f, nxt) = recvDATA(m, f, nxt)
    BY <1>5 DEF dispatch
  <2> QED BY <2>1, RecvDATA
<1>6. CASE f.type = "NOISE"
  <2>1. dispatch(m, f, nxt) = recvNoise(m)
    BY <1>6 DEF dispatch
  <2> QED BY <2>1, RecvNoise
<1> QED BY <1>1, <1>2, <1>3, <1>4, <1>5, <1>6

\* rx_resume makes the receiver idle again and lets the backoff timer go on.
LEMMA RxResume ==
  ASSUME NEW m, NEW b, Handled(m, b)
  PROVE  LET r == rx_resume([b EXCEPT !.pktRx = NONE, !.rxerr = FALSE, !.late = FALSE])
         IN  Good(r) /\ LinkStep(m, r) /\ (PendOK(b) => PendOK(r))
<1> DEFINE d == [b EXCEPT !.pktRx = NONE, !.rxerr = FALSE, !.late = FALSE]
           r == rx_resume(d)
<1>1. b \in Station /\ ~b.abort /\ Sound(b) /\ "Recv" \notin b.busy /\ LinkStep(m, b)
  BY DEF Handled, Sound
<1>2. d \in Station
  <2>1. NONE \in Heard /\ b \in Station
    BY <1>1 DEF Heard
  <2> QED BY <2>1 DEF Station
<1>3. /\ d.pktRx = NONE /\ d.busy = b.busy /\ d.tx_active = b.tx_active /\ d.backoff = b.backoff
      /\ d.cache = b.cache /\ d.copies = b.copies /\ d.peerseq = b.peerseq /\ d.tx = b.tx
      /\ SameLink(b, d) /\ SameCount(b, d)
  BY <1>1 DEF Station, SameLink, SameCount
<1> HIDE DEF d
<1>4. r = setRxState(d, "IDLE")
  <2>1. ~d.abort
    BY <1>1, <1>3 DEF SameCount
  <2>2. Require(d, d.pktRx = NONE /\ "Recv" \notin d.busy) = d
    BY <1>1, <1>2, <1>3, <2>1, RequireHolds
  <2> QED BY <2>2 DEF rx_resume
<1> DEFINE e == [d EXCEPT !.rx = "IDLE"]
<1>5. /\ e.rx = "IDLE" /\ e.pktRx = NONE /\ e.busy = b.busy /\ e.tx_active = b.tx_active
      /\ e.cache = b.cache /\ e.copies = b.copies /\ e.peerseq = b.peerseq
  BY <1>2, <1>3 DEF Station
<1> HIDE DEF e
<1>6. /\ r \in Station /\ SameRx(e, r) /\ SameLink(d, r) /\ SameCount(d, r)
      /\ r.tx = d.tx /\ (r.backoff = "off" <=> d.backoff = "off") /\ IdleOK(r)
  BY <1>2, <1>4, SetRxState DEF e
<1> HIDE DEF r
<1>7. /\ SameLink(b, r) /\ SameCount(b, r) /\ r.rx = "IDLE" /\ r.pktRx = NONE
      /\ r.busy = b.busy /\ r.tx_active = b.tx_active /\ r.tx = b.tx
      /\ r.cache = b.cache /\ r.copies = b.copies /\ r.peerseq = b.peerseq
      /\ r.backoff = "off" <=> b.backoff = "off"
  BY <1>3, <1>5, <1>6 DEF SameRx, SameLink, SameCount
<1>8. SameSend(b, r)
  BY <1>7 DEF SameSend
<1>9. Sound(r) /\ (PendOK(b) => PendOK(r))
  BY <1>1, <1>6, <1>8, SameSound
<1>10. RecvOK(r)
  BY <1>1, <1>7 DEF RecvOK
<1>11. LinkStep(m, r)
  BY <1>1, <1>7 DEF LinkStep, SameLink, SameCount, Settles
<1> QED BY <1>6, <1>9, <1>10, <1>11 DEF Good, r, d

\* set_nav leaves the sending side alone.
LEMMA SetNav ==
  ASSUME NEW m, Sound(m), NEW dur \in BOOLEAN
  PROVE  LET r == set_nav(m, dur)
         IN  /\ Sound(r) /\ SameLink(m, r) /\ r.busy = m.busy /\ r.defer = m.defer
             /\ r.pktCTRL = m.pktCTRL /\ (PendOK(m) => PendOK(r))
<1> DEFINE r == set_nav(m, dur)
<1>1. m \in Station /\ m.nav \in BOOLEAN
  BY DEF Sound, Station
<1>2. r \in Station /\ SameLink(m, r) /\ SameCount(m, r)
      /\ r.tx = m.tx /\ r.backoff = m.backoff /\ r.tx_active = m.tx_active /\ r.busy = m.busy
      /\ r.cache = m.cache /\ r.copies = m.copies /\ r.peerseq = m.peerseq
  BY <1>1 DEF set_nav, Station, SameLink, SameCount
<1> HIDE DEF r
<1>3. SameSend(m, r)
  BY <1>2 DEF SameSend
<1>4. Sound(r) /\ (PendOK(m) => PendOK(r))
  BY <1>2, <1>3, SameSound
<1> QED BY <1>2, <1>4 DEF SameCount, r

\* The frames on the air hold no RTS.
NoRequests == \A f \in Frame : f.type # "RTS"

\* What every step of the station does.
Moves(m, r) == Good(r) /\ LinkStep(m, r) /\ (NoRequests /\ PendOK(m) => PendOK(r))

\* recv_timer.  The guard of RecvTimer is needed: a frame that began during a SIFS
\* deferral is complete only after it, so no handler finds a deferral running.
LEMMA RecvTimerMoves ==
  ASSUME bugFix_timer_, NEW m, Good(m), "Recv" \in m.busy,
         ~(m.late /\ m.defer = "SIFS"), NEW nxt \in QueueHead
  PROVE  Moves(m, recv_timer([m EXCEPT !.busy = @ \ {"Recv"}], nxt))
<1> DEFINE c == [m EXCEPT !.busy = @ \ {"Recv"}]
           f == c.pktRx
           n == set_nav(c, TRUE)
           h == IF f.to = "me" THEN c ELSE set_nav(c, f.dur)
           b == CASE c.tx_active -> c
                  [] ~c.tx_active /\ (c.rx = "COLL" \/ c.rxerr) -> n
                  [] ~c.tx_active /\ c.rx = "RECV" /\ ~c.rxerr ->
                       IF f.to = "other" THEN h ELSE dispatch(h, f, nxt)
<1>1. m \in Station /\ ~m.abort /\ Sound(m) /\ RecvOK(m)
  BY DEF Good, Sound
<1>2. m.rx \in {"RECV", "COLL"} /\ m.pktRx # NONE
  BY <1>1 DEF RecvOK, Station
<1>4. /\ c \in Station /\ SameLink(m, c) /\ SameCount(m, c)
      /\ c.tx = m.tx /\ c.rx = m.rx /\ c.pktRx = m.pktRx /\ c.rxerr = m.rxerr /\ c.late = m.late
      /\ c.backoff = m.backoff /\ c.tx_active = m.tx_active /\ c.busy = m.busy \ {"Recv"}
      /\ c.cache = m.cache /\ c.copies = m.copies /\ c.peerseq = m.peerseq
  BY <1>1 DEF Station, SameLink, SameCount
<1>5. Require(c, c.pktRx # NONE /\ c.rx \in {"RECV", "COLL"}) = c
  BY <1>1, <1>2, <1>4, RequireHolds DEF SameCount
<1> HIDE DEF c
<1>3. f \in Frame /\ f.dur \in BOOLEAN
  <2>1. m.pktRx \in Frame
    BY <1>1, <1>2 DEF Station, Heard
  <2> QED BY <1>4, <2>1, PacketAssumption
<1>6. recv_timer(c, nxt) = rx_resume([b EXCEPT !.pktRx = NONE, !.rxerr = FALSE, !.late = FALSE])
  BY <1>5 DEF recv_timer
<1>7. Sound(c) /\ (PendOK(m) => PendOK(c))
  <2>1. SameSend(m, c)
    BY <1>4 DEF SameSend
  <2> QED BY <1>1, <1>4, <2>1, SameSound
<1>8. PICK k : /\ Handled(k, b) /\ SameLink(m, k)
               /\ NoRequests /\ PendOK(m) => PendOK(b)
  <2>1. CASE c.tx_active
    <3>1. b = c
      BY <2>1
    <3>2. Handled(c, c)
      BY <1>4, <1>7 DEF Handled, LinkStep, SameLink
    <3> QED BY <1>4, <1>7, <3>1, <3>2
  <2>2. CASE ~c.tx_active /\ (c.rx = "COLL" \/ c.rxerr)
    <3>1. b = n
      BY <2>2
    <3>2. /\ Sound(n) /\ SameLink(c, n) /\ n.busy = c.busy
          /\ PendOK(c) => PendOK(n)
      BY <1>7, SetNav
    <3>3. Handled(c, n)
      BY <1>4, <3>2 DEF Handled, LinkStep
    <3> QED BY <1>4, <1>7, <3>1, <3>2, <3>3
  <2>3. CASE ~c.tx_active /\ c.rx = "RECV" /\ ~c.rxerr
    <3>1. b = IF f.to = "other" THEN h ELSE dispatch(h, f, nxt)
      BY <2>3
    <3>2. /\ Sound(h) /\ SameLink(c, h) /\ h.busy = c.busy /\ h.defer = c.defer
          /\ h.pktCTRL = c.pktCTRL /\ (PendOK(c) => PendOK(h))
      BY <1>3, <1>7, SetNav DEF SameLink
    <3> HIDE DEF h
    <3>3. m.defer = "SIFS" => m.pktCTRL # NONE
      BY <1>1, <1>4, <2>3 DEF RecvOK
    <3>4. Complete(h)
      BY <1>4, <3>2, <3>3 DEF Complete, SameCount
    <3>5. Handled(h, b)
      BY <1>3, <3>1, <3>4, Dispatch, IgnoreHandled
    <3>6. NoRequests => f.type # "RTS"
      BY <1>3 DEF NoRequests
    <3>7. NoRequests /\ PendOK(m) => PendOK(b)
      BY <1>3, <1>7, <3>1, <3>2, <3>4, <3>6, Dispatch
    <3>8. SameLink(m, h)
      BY <1>4, <3>2 DEF SameLink
    <3> QED BY <3>5, <3>7, <3>8
  <2> QED BY <1>2, <1>4, <2>1, <2>2, <2>3
<1> HIDE DEF b
<1> DEFINE r == recv_timer(c, nxt)
<1>9. Good(r) /\ LinkStep(k, r) /\ (PendOK(b) => PendOK(r))
  BY <1>6, <1>8, RxResume
<1> HIDE DEF r
<1>10. LinkStep(m, r)
  BY <1>8, <1>9 DEF LinkStep, SameLink, Settles
<1> QED BY <1>8, <1>9, <1>10 DEF Moves, r, c

-----------------------------------------------------------------------------
(* Retransmission *)

\* A retry doubles the contention window within its bounds and starts the backoff timer.
LEMMA RetryBackoff ==
  ASSUME NEW m \in Station, ~m.abort, m.backoff = "off"
  PROVE  LET r == backoffStart(inc_cw(m))
         IN  /\ r \in Station /\ r.backoff # "off" /\ SameRx(m, r) /\ SameLink(m, r)
             /\ r.tx = m.tx /\ r.pktRTS = m.pktRTS /\ r.pktCTRL = m.pktCTRL
             /\ r.defer = m.defer /\ r.ssrc = m.ssrc /\ r.slrc = m.slrc /\ r.abort = m.abort
             /\ r.backoff = "run" => is_idle(m)
<1> DEFINE w == IF 2 * m.cw + 1 > CWMax THEN CWMax ELSE 2 * m.cw + 1
           a == [m EXCEPT !.cw = w]
           r == backoffStart(a)
<1>1. w \in CWMin .. CWMax
  <2>1. m.cw \in CWMin .. CWMax
    BY DEF Station
  <2> QED BY <2>1, RetryAssumption
<1>2. inc_cw(m) = a
  BY DEF inc_cw
<1> HIDE DEF w
<1>3. /\ a \in Station /\ a.abort = m.abort /\ a.backoff = m.backoff /\ SameRx(m, a)
      /\ SameLink(m, a) /\ a.tx = m.tx /\ a.pktRTS = m.pktRTS /\ a.pktCTRL = m.pktCTRL
      /\ a.defer = m.defer /\ a.ssrc = m.ssrc /\ a.slrc = m.slrc
  BY <1>1 DEF Station, SameRx, SameLink
<1>4. is_idle(a) <=> is_idle(m)
  BY <1>3 DEF is_idle, SameRx
<1> HIDE DEF a
<1>5. /\ r = [a EXCEPT !.backoff = IF is_idle(a) THEN "run" ELSE "paused"]
      /\ r \in Station
  BY <1>3, BackoffStart
<1>6. /\ r.backoff = IF is_idle(a) THEN "run" ELSE "paused"
      /\ SameRx(a, r) /\ SameLink(a, r) /\ SameCount(a, r) /\ r.tx = a.tx
  BY <1>3, <1>5 DEF Station, SameRx, SameLink, SameCount
<1> HIDE DEF r
<1>7. SameRx(m, r) /\ SameLink(m, r)
  BY <1>3, <1>6 DEF SameRx, SameLink
<1> QED BY <1>2, <1>3, <1>4, <1>5, <1>6, <1>7 DEF SameCount, r

\* mhSend_ has run out.
TimedOut(m) ==
  /\ m \in Station /\ ~m.abort /\ PktOK(m)
  /\ "Send" \notin m.busy /\ m.defer = "off"

\* RetransmitRTS: the packet is given up with the short count reset, or tried again.
LEMMA RetransmitRTSPrepared ==
  ASSUME NEW m, TimedOut(m), m.pktRTS, m.backoff = "off"
  PROVE  LET a == RetransmitRTS(m)
         IN  Prepared(m, a) /\ ~Cleared(a) /\ a.pktCTRL = m.pktCTRL
<1> DEFINE n == m.ssrc + 1
           b == [m EXCEPT !.ssrc = n]
           a == RetransmitRTS(m)
<1>1. /\ m \in Station /\ ~m.abort /\ PktOK(m) /\ m.pktTx # NONE /\ UsesRTS(m.pktTx)
      /\ "Send" \notin m.busy /\ m.defer = "off"
  BY DEF TimedOut, PktOK
<1>2. Require(m, m.pktTx # NONE /\ m.pktRTS /\ m.backoff = "off") = m
  BY <1>1, RequireHolds
<1>3. m.ssrc \in Nat /\ n \in Nat
  BY <1>1 DEF Station
<1>4. ~m.pktTx.bcast
  BY <1>1 DEF UsesRTS
<1>5. /\ b \in Station /\ b.ssrc = n /\ SameLink(m, b) /\ SameRx(m, b)
      /\ b.backoff = "off" /\ b.pktRTS = m.pktRTS /\ b.pktCTRL = m.pktCTRL
      /\ b.defer = m.defer /\ b.slrc = m.slrc /\ b.abort = m.abort
  BY <1>1, <1>3 DEF Station, SameLink, SameRx
<1>6. a = IF n >= ShortRetryLimit
            THEN rst_cw([dropTx(b, "failed") EXCEPT !.pktRTS = FALSE, !.ssrc = 0])
            ELSE backoffStart(inc_cw(b))
  BY <1>1, <1>2, <1>5 DEF RetransmitRTS
<1> HIDE DEF n, b
<1>7. CASE n >= ShortRetryLimit
  <2> DEFINE d == [b EXCEPT !.pktTx = NONE, !.fate = "failed", !.pktRTS = FALSE,
                            !.ssrc = 0, !.cw = CWMin]
  <2>1. a = d
    BY <1>6, <1>7 DEF dropTx, rst_cw
  <2> HIDE DEF a
  <2>2. d \in Station
    <3>1. NONE \in QueueHead /\ CWMin \in CWMin .. CWMax
      BY RetryAssumption DEF QueueHead
    <3> QED BY <1>5, <3>1, ZenonT(60) DEF Station
  <2>3. /\ d.pktTx = NONE /\ d.fate = "failed" /\ d.pktRTS = FALSE /\ d.ssrc = 0 /\ d.cw = CWMin
        /\ d.callback = b.callback /\ d.turn = b.turn /\ d.pktCTRL = b.pktCTRL
        /\ d.defer = b.defer /\ d.slrc = b.slrc /\ d.abort = b.abort /\ SameRx(b, d)
    BY <1>5 DEF Station, SameRx
  <2> HIDE DEF d
  <2>4. PktOK(d) /\ ~Cleared(d)
    BY <1>1, <1>5, <2>3, RetryAssumption DEF PktOK, Cleared
  <2>5. Settles(m, d)
    BY <1>1, <1>4, <1>5, <2>3 DEF Settles, SameLink
  <2>6. Prepared(m, d)
    BY <1>1, <1>5, <2>2, <2>3, <2>4, <2>5 DEF Prepared, Resumable, SameRx
  <2> QED BY <1>5, <2>1, <2>3, <2>4, <2>6 DEF a
<1>8. CASE ~(n >= ShortRetryLimit)
  <2>1. a = backoffStart(inc_cw(b))
    BY <1>6, <1>8
  <2>2. /\ a \in Station /\ a.backoff # "off" /\ SameRx(b, a) /\ SameLink(b, a)
        /\ a.pktRTS = b.pktRTS /\ a.pktCTRL = b.pktCTRL
        /\ a.defer = b.defer /\ a.ssrc = b.ssrc /\ a.slrc = b.slrc /\ a.abort = b.abort
    BY <1>1, <1>5, <2>1, RetryBackoff, ZenonT(60)
  <2> HIDE DEF a
  <2>3. SameLink(m, a) /\ SameRx(m, a)
    BY <1>5, <2>2 DEF SameLink, SameRx
  <2>4. PktOK(a) /\ ~Cleared(a)
    BY <1>1, <1>3, <1>4, <1>5, <1>8, <2>2, <2>3, RetryAssumption DEF PktOK, Cleared, SameLink
  <2>5. Prepared(m, a)
    BY <1>1, <1>5, <2>2, <2>3, <2>4 DEF Prepared, Resumable, SameRx
  <2> QED BY <1>5, <2>2, <2>4, <2>5 DEF a
<1> QED BY <1>7, <1>8

\* sendRTS on a pending packet without an RTS keeps its assertion.
LEMMA SendRTS ==
  ASSUME NEW m \in Station, ~m.abort, m.pktTx # NONE, ~m.pktRTS
  PROVE  LET r == sendRTS(m)
         IN  /\ r \in Station /\ SameRx(m, r) /\ SameLink(m, r) /\ r.tx = m.tx
             /\ r.pktRTS = UsesRTS(m.pktTx) /\ r.pktCTRL = m.pktCTRL /\ r.backoff = m.backoff
             /\ r.defer = m.defer /\ r.ssrc = m.ssrc /\ r.slrc = m.slrc /\ r.abort = m.abort
<1>1. Require(m, m.pktTx # NONE /\ ~m.pktRTS) = m
  BY RequireHolds
<1> DEFINE u == UsesRTS(m.pktTx)
<1>2. u \in BOOLEAN
  BY DEF UsesRTS
<1>3. sendRTS(m) = [m EXCEPT !.pktRTS = u]
  BY <1>1 DEF sendRTS
<1> HIDE DEF u
<1> QED BY <1>2, <1>3 DEF Station, SameRx, SameLink, u

\* RetransmitDATA: a broadcast is sent and never reported as failed; another packet is
\* given up at its limit, or tried again behind a new RTS.
LEMMA RetransmitDATAPrepared ==
  ASSUME NEW m, TimedOut(m), ~m.pktRTS, m.pktTx # NONE, m.backoff = "off"
  PROVE  LET a == RetransmitDATA(m)
         IN  Prepared(m, a) /\ ~Cleared(a) /\ a.pktCTRL = m.pktCTRL
<1> DEFINE short == CountsShort(m.pktTx)
           n == IF short THEN m.ssrc + 1 ELSE m.ssrc
           l == IF short THEN m.slrc ELSE m.slrc + 1
           b == IF short THEN [m EXCEPT !.ssrc = @ + 1] ELSE [m EXCEPT !.slrc = @ + 1]
           spent == IF short THEN b.ssrc >= ShortRetryLimit ELSE b.slrc >= LongRetryLimit
           over == dropTx(b, "failed")
           a == RetransmitDATA(m)
<1>1. /\ m \in Station /\ ~m.abort /\ PktOK(m)
      /\ "Send" \notin m.busy /\ m.defer = "off"
  BY DEF TimedOut, PktOK
<1>2. Require(m, m.backoff = "off" /\ m.pktTx # NONE /\ ~m.pktRTS) = m
  BY <1>1, RequireHolds
<1>3. /\ m.ssrc \in Nat /\ m.slrc \in Nat /\ n \in Nat /\ l \in Nat
      /\ ~short \/ m.pktTx.bcast => m.ssrc = 0
  BY <1>1, LongPacket DEF Station
<1>4. a = CASE m.pktTx.bcast -> backoffStart(rst_cw(dropTx(m, "sent")))
            [] ~m.pktTx.bcast /\ spent ->
                 rst_cw(IF short THEN [over EXCEPT !.ssrc = 0] ELSE [over EXCEPT !.slrc = 0])
            [] ~m.pktTx.bcast /\ ~spent -> backoffStart(inc_cw(sendRTS(b)))
  BY <1>1, <1>2 DEF RetransmitDATA
<1>5. /\ b \in Station /\ b.ssrc = n /\ b.slrc = l /\ SameLink(m, b) /\ SameRx(m, b)
      /\ b.backoff = "off" /\ b.pktRTS = m.pktRTS /\ b.pktCTRL = m.pktCTRL
      /\ b.defer = m.defer /\ b.abort = m.abort
  BY <1>1, <1>3 DEF Station, SameLink, SameRx
<1>6. CASE m.pktTx.bcast
  <2> DEFINE d == [m EXCEPT !.pktTx = NONE, !.fate = "sent", !.cw = CWMin]
  <2>1. a = backoffStart(d)
    BY <1>4, <1>6 DEF dropTx, rst_cw
  <2> HIDE DEF a
  <2>2. d \in Station
    <3>1. NONE \in QueueHead /\ CWMin \in CWMin .. CWMax
      BY RetryAssumption DEF QueueHead
    <3>2. m \in Station
      BY <1>1
    <3> QED BY <3>1, <3>2 DEF Station
  <2>3. /\ d.pktTx = NONE /\ d.fate = "sent" /\ d.cw = CWMin
        /\ d.callback = m.callback /\ d.turn = m.turn /\ d.pktCTRL = m.pktCTRL
        /\ d.pktRTS = m.pktRTS /\ d.ssrc = m.ssrc
        /\ d.defer = m.defer /\ d.slrc = m.slrc /\ d.abort = m.abort /\ SameRx(m, d)
        /\ d.backoff = "off"
    BY <1>1 DEF Station, SameRx
  <2> HIDE DEF d
  <2>4. a \in Station /\ a = [d EXCEPT !.backoff = IF is_idle(d) THEN "run" ELSE "paused"]
    BY <1>1, <2>1, <2>2, <2>3, BackoffStart
  <2>5. SameRx(d, a) /\ SameLink(d, a) /\ SameCount(d, a)
    BY <2>2, <2>4 DEF Station, SameRx, SameLink, SameCount
  <2>6. PktOK(a) /\ ~Cleared(a)
    BY <1>1, <1>3, <1>6, <2>3, <2>5, RetryAssumption DEF PktOK, Cleared, SameLink, SameCount
  <2>7. Settles(m, a)
    BY <2>3, <2>5 DEF Settles, SameLink
  <2>8. Prepared(m, a)
    BY <1>1, <2>3, <2>4, <2>5, <2>6, <2>7 DEF Prepared, Resumable, SameRx, SameCount
  <2> QED BY <2>3, <2>5, <2>6, <2>8 DEF a, SameCount
<1>7. CASE ~m.pktTx.bcast /\ spent
  <2> DEFINE k == IF short THEN 0 ELSE n
             j == IF short THEN l ELSE 0
             d == [b EXCEPT !.pktTx = NONE, !.fate = "failed", !.ssrc = k, !.slrc = j, !.cw = CWMin]
  <2>1. a = rst_cw(IF short THEN [over EXCEPT !.ssrc = 0] ELSE [over EXCEPT !.slrc = 0])
    BY <1>4, <1>7
  <2>2. k = 0 /\ j \in Nat /\ j < LongRetryLimit
    BY <1>1, <1>3, RetryAssumption DEF PktOK
  <2> HIDE DEF a, b
  <2>3. a = d
    BY <1>5, <2>1, ZenonT(60) DEF dropTx, rst_cw, Station
  <2> HIDE DEF k, j
  <2>4. d \in Station
    <3>1. NONE \in QueueHead /\ CWMin \in CWMin .. CWMax
      BY RetryAssumption DEF QueueHead
    <3>2. b \in Station /\ k \in Nat /\ j \in Nat
      BY <1>5, <2>2
    <3> QED BY <3>1, <3>2, ZenonT(60) DEF Station
  <2>5. /\ d.pktTx = NONE /\ d.fate = "failed" /\ d.cw = CWMin
        /\ d.callback = b.callback /\ d.turn = b.turn /\ d.pktCTRL = b.pktCTRL
        /\ d.pktRTS = b.pktRTS /\ d.ssrc = k /\ d.slrc = j
        /\ d.defer = b.defer /\ d.abort = b.abort /\ SameRx(b, d)
    BY <1>5 DEF Station, SameRx
  <2> HIDE DEF d
  <2>6. PktOK(d) /\ ~Cleared(d)
    BY <1>5, <2>2, <2>5, RetryAssumption DEF PktOK, Cleared
  <2>7. Settles(m, d)
    BY <1>5, <1>7, <2>5 DEF Settles, SameLink
  <2>8. Prepared(m, d)
    BY <1>1, <1>5, <2>4, <2>5, <2>6, <2>7 DEF Prepared, Resumable, SameRx
  <2> QED BY <1>5, <2>3, <2>5, <2>6, <2>8 DEF a
<1>8. CASE ~m.pktTx.bcast /\ ~spent
  <2> DEFINE d == sendRTS(b)
  <2>1. a = backoffStart(inc_cw(d))
    BY <1>4, <1>8
  <2>2. n < ShortRetryLimit /\ l < LongRetryLimit
    BY <1>1, <1>3, <1>5, <1>8, RetryAssumption DEF PktOK
  <2> HIDE DEF b, n, l
  <2>3. /\ d \in Station /\ SameRx(b, d) /\ SameLink(b, d)
        /\ d.pktRTS = UsesRTS(b.pktTx) /\ d.pktCTRL = b.pktCTRL /\ d.backoff = b.backoff
        /\ d.defer = b.defer /\ d.ssrc = b.ssrc /\ d.slrc = b.slrc /\ d.abort = b.abort
    BY <1>1, <1>5, SendRTS DEF SameLink
  <2> HIDE DEF d
  <2>4. /\ a \in Station /\ a.backoff # "off" /\ SameRx(d, a) /\ SameLink(d, a)
        /\ a.pktRTS = d.pktRTS /\ a.pktCTRL = d.pktCTRL
        /\ a.defer = d.defer /\ a.ssrc = d.ssrc /\ a.slrc = d.slrc /\ a.abort = d.abort
    BY <1>1, <1>5, <2>1, <2>3, RetryBackoff
  <2> HIDE DEF a
  <2>5. SameLink(m, a) /\ SameRx(m, a) /\ a.ssrc = n /\ a.slrc = l /\ a.pktRTS = UsesRTS(m.pktTx)
    BY <1>5, <2>3, <2>4 DEF SameLink, SameRx
  <2>6. PktOK(a) /\ ~Cleared(a)
    BY <1>1, <1>8, <2>2, <2>5 DEF PktOK, Cleared, SameLink
  <2>7. Prepared(m, a)
    BY <1>1, <1>5, <2>3, <2>4, <2>5, <2>6 DEF Prepared, Resumable, SameRx
  <2> QED BY <1>5, <2>3, <2>4, <2>6, <2>7 DEF a
<1> QED BY <1>6, <1>7, <1>8

\* send_timer, one case for each frame that may have been on the air.
LEMMA SendTimerMoves ==
  ASSUME bugFix_timer_, NEW m, Good(m), "Send" \in m.busy, NEW nxt \in QueueHead
  PROVE  Moves(m, send_timer([m EXCEPT !.busy = @ \ {"Send"}], nxt))
<1> DEFINE c == [m EXCEPT !.busy = @ \ {"Send"}]
           a == CASE c.tx = "RTS" -> RetransmitRTS(c)
                  [] c.tx = "SEND" -> RetransmitDATA(c)
                  [] c.tx \in {"CTS", "ACK"} ->
                       [Require(c, c.pktCTRL # NONE) EXCEPT !.pktCTRL = NONE]
                  [] c.tx = "IDLE" -> c
           r == send_timer(c, nxt)
<1>1. /\ m \in Station /\ ~m.abort /\ Sound(m) /\ RecvOK(m) /\ TxOK(m) /\ PktOK(m)
      /\ IfOK(m) /\ SeqOK(m)
  BY DEF Good, Sound
<1>2. /\ c \in Station /\ SameLink(m, c) /\ SameCount(m, c)
      /\ c.tx = m.tx /\ c.rx = m.rx /\ c.pktRx = m.pktRx /\ c.rxerr = m.rxerr /\ c.late = m.late
      /\ c.backoff = m.backoff /\ c.tx_active = m.tx_active /\ c.busy = m.busy \ {"Send"}
      /\ c.cache = m.cache /\ c.copies = m.copies /\ c.peerseq = m.peerseq
  BY <1>1 DEF Station, SameLink, SameCount
<1>3. r = tx_resume(a, nxt)
  BY DEF send_timer
<1> HIDE DEF c, r
<1>4. m.tx \in {"RTS", "CTS", "SEND", "ACK"} /\ m.defer = "off"
  BY <1>1 DEF TxOK, Station
<1>5. TimedOut(c) /\ IfOK(c) /\ SeqOK(c)
  <2>1. PktOK(c)
    BY <1>1, <1>2 DEF PktOK, Cleared, SameLink, SameCount
  <2> QED BY <1>1, <1>2, <1>4, <2>1 DEF TimedOut, IfOK, SeqOK, SameCount
<1>6. /\ Prepared(c, a)
      /\ Cleared(a) => m.tx = "ACK"
      /\ a.pktCTRL = "CTS" => m.pktCTRL = "CTS"
  <2>1. CASE m.tx = "RTS"
    <3>1. c.pktRTS /\ c.backoff = "off"
      BY <1>1, <1>2, <2>1 DEF TxOK, SameCount
    <3>2. a = RetransmitRTS(c)
      BY <1>2, <2>1
    <3>3. Prepared(c, a) /\ ~Cleared(a) /\ a.pktCTRL = c.pktCTRL
      BY <1>5, <3>1, <3>2, RetransmitRTSPrepared
    <3> QED BY <1>2, <3>3 DEF SameCount
  <2>2. CASE m.tx = "SEND"
    <3>1. ~c.pktRTS /\ c.pktTx # NONE /\ c.backoff = "off"
      BY <1>1, <1>2, <2>2 DEF TxOK, SameCount, SameLink
    <3>2. a = RetransmitDATA(c)
      BY <1>2, <2>2
    <3>3. Prepared(c, a) /\ ~Cleared(a) /\ a.pktCTRL = c.pktCTRL
      BY <1>5, <3>1, <3>2, RetransmitDATAPrepared
    <3> QED BY <1>2, <3>3 DEF SameCount
  <2>3. CASE m.tx \in {"CTS", "ACK"}
    <3> DEFINE d == [c EXCEPT !.pktCTRL = NONE]
    <3>1. c.pktCTRL # NONE /\ ~c.abort
      BY <1>1, <1>2, <2>3, PacketAssumption DEF TxOK, SameCount
    <3>2. a = [Require(c, c.pktCTRL # NONE) EXCEPT !.pktCTRL = NONE]
      BY <1>2, <2>3
    <3>3. Require(c, c.pktCTRL # NONE) = c
      BY <1>2, <3>1, RequireHolds
    <3>4. a = d
      BY <3>2, <3>3
    <3> HIDE DEF a
    <3>5. d \in Station
      <4>1. NONE \in Control
        BY DEF Control
      <4> QED BY <1>2, <4>1 DEF Station
    <3>6. /\ SameLink(c, d) /\ SameRx(c, d) /\ d.pktCTRL = NONE /\ d.backoff = c.backoff
          /\ d.pktRTS = c.pktRTS /\ d.defer = c.defer /\ d.ssrc = c.ssrc /\ d.slrc = c.slrc
          /\ d.cw = c.cw /\ d.abort = c.abort
      BY <1>2 DEF Station, SameLink, SameRx
    <3> HIDE DEF d
    <3>7. PktOK(d) /\ (Cleared(d) <=> Cleared(m)) /\ d.pktCTRL # "CTS"
      BY <1>2, <1>5, <3>6, PacketAssumption DEF TimedOut, PktOK, Cleared, SameLink, SameCount
    <3>8. Prepared(c, d)
      BY <1>5, <3>5, <3>6, <3>7 DEF Prepared, Resumable, TimedOut, SameRx
    <3>9. Cleared(d) => m.tx = "ACK"
      BY <1>1, <2>3, <3>7 DEF TxOK
    <3> QED BY <3>4, <3>7, <3>8, <3>9
  <2> QED BY <1>4, <2>1, <2>2, <2>3
<1> HIDE DEF a
<1>7. Continues(c, a, r)
  BY <1>3, <1>5, <1>6, PreparedResume
<1>8. RecvOK(r)
  BY <1>1, <1>2, <1>6, <1>7 DEF Continues, RecvOK
<1>9. LinkStep(m, r)
  BY <1>2, <1>7 DEF Continues, LinkStep, SameLink, Settles
<1>10. PendOK(m) => PendOK(r)
  BY <1>6, <1>7 DEF Continues, PendOK
<1> QED BY <1>7, <1>8, <1>9, <1>10 DEF Moves, Good, Continues, r, c

-----------------------------------------------------------------------------
(* Outgoing frames *)

\* r is m with the frame of state s on the air; what was being received is lost.
Transmits(m, r, s) ==
  /\ r \in Station /\ SameLink(m, r) /\ SameCount(m, r) /\ IdleOK(r)
  /\ r.tx = s /\ r.rx = m.rx /\ r.pktRx = m.pktRx /\ r.late = m.late
  /\ r.tx_active = TRUE /\ r.busy = m.busy \cup {"Send", "IF"}
  /\ r.backoff = "off" <=> m.backoff = "off"
  /\ r.cache = m.cache /\ r.copies = m.copies /\ r.peerseq = m.peerseq
  /\ r.rxerr = (m.rxerr \/ m.rx # "IDLE")

\* transmit keeps its assertions in a station that sends nothing, and loses the frame
\* that is being received.
LEMMA Transmit ==
  ASSUME NEW m \in Station, ~m.abort, "Send" \notin m.busy, "IF" \notin m.busy,
         m.rx # "IDLE" => m.pktRx # NONE, NEW s \in {"RTS", "CTS", "SEND", "ACK"}
  PROVE  Transmits(m, transmit(setTxState(m, s)), s)
<1> DEFINE t == setTxState(m, s)
           e == m.rxerr \/ m.rx # "IDLE"
           a == [t EXCEPT !.tx_active = TRUE, !.rxerr = @ \/ t.rx # "IDLE"]
           b == [a EXCEPT !.busy = @ \cup {"Send"}]
           r == [b EXCEPT !.busy = @ \cup {"IF"}]
<1>1. /\ t \in Station /\ t.tx = s /\ SameRx(m, t) /\ SameLink(m, t) /\ SameCount(m, t)
      /\ t.backoff = "off" <=> m.backoff = "off"
      /\ IdleOK(t)
  BY SetTxState
<1>2. Require(t, t.rx # "IDLE" => t.pktRx # NONE) = t
  <2>1. ~t.abort
    BY <1>1 DEF SameCount
  <2>2. t.rx # "IDLE" => t.pktRx # NONE
    BY <1>1 DEF SameRx
  <2> QED BY <1>1, <2>1, <2>2, RequireHolds
<1>3. transmit(t) = timerStart(timerStart(a, "Send"), "IF")
  BY <1>2 DEF transmit
<1> HIDE DEF t
<1>4. (t.rxerr \/ t.rx # "IDLE") = e /\ e \in BOOLEAN
  BY <1>1 DEF SameRx
<1> HIDE DEF e
<1>5. a = [t EXCEPT !.tx_active = TRUE, !.rxerr = e]
  BY <1>1, <1>4 DEF Station
<1> HIDE DEF a
<1>6. /\ a \in Station /\ SameLink(t, a) /\ SameCount(t, a) /\ a.tx = t.tx /\ a.backoff = t.backoff
      /\ a.rx = t.rx /\ a.pktRx = t.pktRx /\ a.late = t.late /\ a.nav = t.nav
      /\ a.tx_active = TRUE /\ a.busy = t.busy /\ a.rxerr = e
      /\ a.cache = t.cache /\ a.copies = t.copies /\ a.peerseq = t.peerseq
  BY <1>1, <1>4, <1>5, ZenonT(60) DEF Station, SameLink, SameCount
<1>7. timerStart(a, "Send") = b
  <2>1. "Send" \notin a.busy /\ ~a.abort
    BY <1>1, <1>6 DEF SameRx, SameCount
  <2> QED BY <1>6, <2>1, RequireHolds DEF timerStart
<1>8. /\ b \in Station /\ SameLink(a, b) /\ SameCount(a, b) /\ b.tx = a.tx /\ b.backoff = a.backoff
      /\ b.rx = a.rx /\ b.pktRx = a.pktRx /\ b.late = a.late /\ b.nav = a.nav
      /\ b.tx_active = a.tx_active /\ b.busy = a.busy \cup {"Send"} /\ b.rxerr = a.rxerr
      /\ b.cache = a.cache /\ b.copies = a.copies /\ b.peerseq = a.peerseq
  BY <1>6 DEF Station, SameLink, SameCount
<1> HIDE DEF b
<1>9. timerStart(b, "IF") = r
  <2>1. "IF" \notin b.busy /\ ~b.abort
    BY <1>1, <1>6, <1>8 DEF SameRx, SameCount
  <2> QED BY <1>8, <2>1, RequireHolds DEF timerStart
<1>10. /\ r \in Station /\ SameLink(b, r) /\ SameCount(b, r) /\ r.tx = b.tx /\ r.backoff = b.backoff
      /\ r.rx = b.rx /\ r.pktRx = b.pktRx /\ r.late = b.late /\ r.nav = b.nav
      /\ r.tx_active = b.tx_active /\ r.busy = b.busy \cup {"IF"} /\ r.rxerr = b.rxerr
      /\ r.cache = b.cache /\ r.copies = b.copies /\ r.peerseq = b.peerseq
  BY <1>8 DEF Station, SameLink, SameCount
<1> HIDE DEF r
<1>11. SameLink(m, r) /\ SameCount(m, r)
  BY <1>1, <1>6, <1>8, <1>10 DEF SameLink, SameCount
<1>12. IdleOK(r)
  BY <1>1, <1>6, <1>8, <1>10 DEF IdleOK, is_idle
<1>13. /\ r.tx = s /\ r.rx = m.rx /\ r.pktRx = m.pktRx /\ r.late = m.late
       /\ r.tx_active = TRUE /\ r.busy = m.busy \cup {"Send", "IF"}
       /\ r.backoff = "off" <=> m.backoff = "off"
       /\ r.cache = m.cache /\ r.copies = m.copies /\ r.peerseq = m.peerseq
       /\ r.rxerr = e
  BY <1>1, <1>6, <1>8, <1>10 DEF SameRx
<1>14. transmit(setTxState(m, s)) = r
  BY <1>3, <1>7, <1>9 DEF t
<1> QED BY <1>10, <1>11, <1>12, <1>13, <1>14 DEF Transmits, e

\* txHandler: the transmission ends.
LEMMA IFTimerMoves ==
  ASSUME NEW m, Good(m), "IF" \in m.busy
  PROVE  Moves(m, [[m EXCEPT !.busy = @ \ {"IF"}] EXCEPT !.tx_active = FALSE])
<1> DEFINE r == [[m EXCEPT !.busy = @ \ {"IF"}] EXCEPT !.tx_active = FALSE]
<1>1. m \in Station /\ Sound(m) /\ IdleOK(m) /\ RecvOK(m)
  BY DEF Good, Sound
<1>2. /\ r \in Station /\ SameLink(m, r) /\ SameCount(m, r) /\ r.tx = m.tx /\ r.backoff = m.backoff
      /\ r.rx = m.rx /\ r.pktRx = m.pktRx /\ r.late = m.late /\ r.nav = m.nav
      /\ r.tx_active = FALSE /\ r.busy = m.busy \ {"IF"} /\ r.rxerr = m.rxerr
      /\ r.cache = m.cache /\ r.copies = m.copies /\ r.peerseq = m.peerseq
  BY <1>1 DEF Station, SameLink, SameCount
<1> HIDE DEF r
<1>3. Cleared(r) <=> Cleared(m)
  BY <1>2 DEF Cleared, SameLink, SameCount
<1>4. PktOK(r) /\ TxOK(r)
  BY <1>1, <1>2, <1>3 DEF Sound, PktOK, TxOK, SameLink, SameCount
<1>5. IfOK(r) /\ SeqOK(r) /\ ~r.abort
  BY <1>1, <1>2 DEF Sound, IfOK, SeqOK, SameCount
<1>6. RecvOK(r) /\ IdleOK(r)
  BY <1>1, <1>2 DEF RecvOK, IdleOK, is_idle, SameCount
<1>7. PendOK(m) => PendOK(r)
  BY <1>2 DEF PendOK, SameLink, SameCount
<1> QED BY <1>2, <1>4, <1>5, <1>6, <1>7 DEF Moves, Good, Sound, LinkStep, r

\* A deferral or a backoff has run out in a station without an answer to send.
Pending(m) ==
  /\ m \in Station /\ ~m.abort /\ PktOK(m) /\ IfOK(m) /\ SeqOK(m) /\ RecvOK(m)
  /\ m.backoff = "off" /\ m.defer = "off" /\ m.tx = "IDLE" /\ m.pktCTRL = NONE
  /\ "Send" \notin m.busy /\ "IF" \notin m.busy

\* A frame left, or contends for the medium again.
Sends(m, r) ==
  /\ Good(r) /\ SameLink(m, r)
  /\ m.pktTx # NONE => PendOK(r)

\* check_pktRTS and check_pktTx in an idle station.
LEMMA PendingTransmit ==
  ASSUME NEW m, Pending(m), NEW s \in {"RTS", "SEND"},
         m.pktTx # NONE, m.pktRTS = (s = "RTS")
  PROVE  Sends(m, transmit(setTxState(m, s)))
<1> DEFINE r == transmit(setTxState(m, s))
<1>1. /\ m \in Station /\ ~m.abort /\ "Send" \notin m.busy /\ "IF" \notin m.busy
      /\ m.rx # "IDLE" => m.pktRx # NONE
      /\ s \in {"RTS", "CTS", "SEND", "ACK"}
  BY DEF Pending, RecvOK
<1>2. Transmits(m, r, s)
  BY <1>1, Transmit
<1> HIDE DEF r
<1>3. Cleared(r) <=> Cleared(m)
  BY <1>2 DEF Cleared, SameLink, SameCount, Transmits
<1>4. PktOK(r)
  BY <1>2, <1>3 DEF Pending, PktOK, SameLink, SameCount, Transmits
<1>5. TxOK(r)
  <2>1. r.pktCTRL = NONE /\ r.defer = "off" /\ r.pktRTS = (s = "RTS") /\ r.pktTx # NONE
        /\ r.backoff = "off" /\ "Send" \in r.busy /\ r.pktCTRL # "CTS"
    BY <1>2, PacketAssumption DEF Pending, SameLink, SameCount, Transmits
  <2>2. Cleared(r) => s = "SEND"
    BY <2>1 DEF Cleared
  <2> QED BY <1>2, <2>1, <2>2 DEF TxOK, Transmits
<1>6. IfOK(r) /\ SeqOK(r) /\ ~r.abort
  BY <1>1, <1>2 DEF Pending, IfOK, SeqOK, SameCount, Transmits
<1>7. RecvOK(r)
  BY <1>2 DEF Pending, RecvOK, SameCount, Transmits
<1>8. PendOK(r)
  BY <1>2, PacketAssumption DEF Pending, PendOK, SameLink, SameCount, Transmits
<1> QED BY <1>2, <1>4, <1>5, <1>6, <1>7, <1>8 DEF Sends, Good, Sound, r, Transmits

\* The same in a station that is not idle.
LEMMA PendingBackoff ==
  ASSUME NEW m, Pending(m), ~Cleared(m), m.pktTx # NONE
  PROVE  Sends(m, backoffStart(inc_cw(m)))
<1> DEFINE r == backoffStart(inc_cw(m))
<1>1. /\ r \in Station /\ r.backoff # "off" /\ SameRx(m, r) /\ SameLink(m, r)
      /\ r.tx = m.tx /\ r.pktRTS = m.pktRTS /\ r.pktCTRL = m.pktCTRL
      /\ r.defer = m.defer /\ r.ssrc = m.ssrc /\ r.slrc = m.slrc /\ r.abort = m.abort
      /\ r.backoff = "run" => is_idle(m)
  BY RetryBackoff DEF Pending
<1> HIDE DEF r
<1>2. ~Cleared(r)
  BY <1>1 DEF Cleared, SameLink
<1>3. PktOK(r)
  BY <1>1, <1>2 DEF Pending, PktOK, SameLink
<1>4. TxOK(r)
  BY <1>1, <1>2, PacketAssumption DEF Pending, TxOK, SameRx
<1>5. IfOK(r) /\ SeqOK(r) /\ ~r.abort /\ RecvOK(r) /\ IdleOK(r)
  BY <1>1 DEF Pending, IfOK, SeqOK, RecvOK, IdleOK, is_idle, SameRx
<1>6. PendOK(r)
  BY <1>1, PacketAssumption DEF Pending, PendOK, SameLink
<1> QED BY <1>1, <1>3, <1>4, <1>5, <1>6 DEF Sends, Good, Sound, r

\* sendPending, as both handlers end.
LEMMA SendPending ==
  ASSUME NEW m, Pending(m)
  PROVE  Sends(m, sendPending(m))
<1>1. /\ m \in Station /\ ~m.abort /\ m.backoff = "off" /\ m.pktRTS \in BOOLEAN
      /\ m.pktRTS => m.pktTx # NONE
  BY DEF Pending, PktOK, Station
<1>2. Require(m, m.backoff = "off") = m
  BY <1>1, RequireHolds
<1>3. CASE m.pktRTS
  <2>1. sendPending(m) = IF is_idle(m) THEN transmit(setTxState(m, "RTS"))
                                       ELSE backoffStart(inc_cw(m))
    BY <1>2, <1>3 DEF sendPending, check_pktRTS
  <2>2. m.pktRTS = ("RTS" = "RTS") /\ ~Cleared(m) /\ m.pktTx # NONE
    BY <1>1, <1>3 DEF Cleared
  <2> QED BY <2>1, <2>2, PendingTransmit, PendingBackoff
<1>4. CASE ~m.pktRTS /\ m.pktTx # NONE
  <2> DEFINE d == sendRTS(m)
  <2>1. sendPending(m) = IF is_idle(m) THEN transmit(setTxState(m, "SEND"))
                                       ELSE backoffStart(inc_cw(d))
    BY <1>2, <1>4 DEF sendPending, check_pktTx
  <2>2. m.pktRTS = ("SEND" = "RTS")
    BY <1>1, <1>4
  <2>3. CASE is_idle(m)
    BY <1>4, <2>1, <2>2, <2>3, PendingTransmit
  <2>4. CASE ~is_idle(m)
    <3>1. /\ d \in Station /\ SameRx(m, d) /\ SameLink(m, d) /\ d.tx = m.tx
          /\ d.pktRTS = UsesRTS(m.pktTx) /\ d.pktCTRL = m.pktCTRL /\ d.backoff = m.backoff
          /\ d.defer = m.defer /\ d.ssrc = m.ssrc /\ d.slrc = m.slrc /\ d.abort = m.abort
      BY <1>1, <1>4, SendRTS
    <3> HIDE DEF d
    <3>2. ~Cleared(d) /\ d.pktTx # NONE
      BY <1>4, <3>1 DEF Cleared, SameLink
    <3>3. PktOK(d)
      BY <1>4, <3>1, <3>2 DEF Pending, PktOK, SameLink
    <3>4. Pending(d)
      BY <3>1, <3>3 DEF Pending, IfOK, SeqOK, RecvOK, SameRx
    <3>5. Sends(d, backoffStart(inc_cw(d)))
      BY <3>2, <3>4, PendingBackoff
    <3> QED BY <2>1, <2>4, <3>1, <3>2, <3>5 DEF Sends, SameLink
  <2> QED BY <2>3, <2>4
<1>5. CASE ~m.pktRTS /\ m.pktTx = NONE
  <2>1. sendPending(m) = m
    BY <1>2, <1>5 DEF sendPending
  <2>2. ~Cleared(m)
    BY <1>5 DEF Cleared
  <2>3. TxOK(m)
    BY <2>2, PacketAssumption DEF Pending, TxOK
  <2>4. IdleOK(m)
    BY DEF Pending, IdleOK
  <2> QED BY <1>5, <2>1, <2>3, <2>4 DEF Sends, Good, Sound, Pending, SameLink
<1> QED BY <1>1, <1>3, <1>4, <1>5

\* backoffHandler.  Its branch for a pending answer is never taken: the timer runs only
\* in an idle station, which has no answer pending once no SIFS deferral is running.
LEMMA BackoffTimerMoves ==
  ASSUME NEW m, Good(m), m.backoff = "run", m.defer # "SIFS", "IF" \notin m.busy
  PROVE  Moves(m, backoffHandler([m EXCEPT !.backoff = "off"]))
<1> DEFINE c == [m EXCEPT !.backoff = "off"]
           r == backoffHandler(c)
<1>1. /\ m \in Station /\ ~m.abort /\ PktOK(m) /\ TxOK(m) /\ IfOK(m) /\ SeqOK(m)
      /\ RecvOK(m) /\ IdleOK(m)
  BY DEF Good, Sound
<1>2. m.tx = "IDLE" /\ m.defer = "off" /\ m.pktCTRL = NONE /\ "Send" \notin m.busy
  BY <1>1 DEF TxOK, IdleOK, is_idle
<1>3. /\ c \in Station /\ SameRx(m, c) /\ SameLink(m, c) /\ SameCount(m, c)
      /\ c.backoff = "off" /\ c.tx = m.tx
  BY <1>1 DEF Station, SameRx, SameLink, SameCount
<1> HIDE DEF c
<1>4. PktOK(c)
  BY <1>1, <1>3 DEF PktOK, Cleared, SameLink, SameCount
<1>5. Pending(c)
  BY <1>1, <1>2, <1>3, <1>4 DEF Pending, IfOK, SeqOK, RecvOK, SameRx, SameCount
<1>6. r = sendPending(c)
  BY <1>2, <1>3 DEF backoffHandler, SameCount
<1> HIDE DEF r
<1>7. Sends(c, r)
  BY <1>5, <1>6, SendPending
<1>8. SameLink(m, r) /\ r.pktTx = m.pktTx /\ r.callback = m.callback
  BY <1>3, <1>7 DEF Sends, SameLink
<1>9. PendOK(m) => PendOK(r)
  <2>1. CASE m.pktTx # NONE
    BY <1>3, <1>7, <2>1 DEF Sends, SameLink
  <2>2. CASE m.pktTx = NONE
    <3>1. PendOK(m) => ~m.callback
      BY <1>2, <2>2 DEF PendOK
    <3>2. r = c
      BY <1>3, <1>4, <1>5, <1>6, <2>2, RequireHolds
         DEF sendPending, SameLink, PktOK, Pending
    <3> QED BY <1>3, <2>2, <3>1, <3>2 DEF PendOK, SameLink, SameCount
  <2> QED BY <2>1, <2>2
<1> QED BY <1>7, <1>8, <1>9 DEF Moves, Sends, LinkStep, r, c

\* deferHandler: the answer leaves or, a CTS in a busy station, is given up; without an
\* answer the DATA frame leaves, or contends for the medium again.
LEMMA DeferTimerMoves ==
  ASSUME NEW m, Good(m), m.defer # "off", m.defer = "SIFS" => "IF" \notin m.busy
  PROVE  Moves(m, deferHandler([m EXCEPT !.defer = "off"]))
<1> DEFINE c == [m EXCEPT !.defer = "off"]
           r == deferHandler(c)
<1>1. /\ m \in Station /\ ~m.abort /\ PktOK(m) /\ TxOK(m) /\ IfOK(m) /\ SeqOK(m)
      /\ RecvOK(m) /\ IdleOK(m)
  BY DEF Good, Sound
<1>2. /\ m.defer = "SIFS" /\ m.tx = "IDLE" /\ "Send" \notin m.busy /\ "IF" \notin m.busy
      /\ m.pktCTRL = NONE => Cleared(m)
      /\ Cleared(m) => m.pktCTRL # "CTS"
  BY <1>1 DEF TxOK
<1>3. /\ c \in Station /\ SameRx(m, c) /\ SameLink(m, c)
      /\ c.backoff = m.backoff /\ c.tx = m.tx /\ c.defer = "off"
      /\ c.pktRTS = m.pktRTS /\ c.pktCTRL = m.pktCTRL
      /\ c.ssrc = m.ssrc /\ c.slrc = m.slrc /\ c.cw = m.cw /\ c.abort = m.abort
  BY <1>1 DEF Station, SameRx, SameLink
<1> HIDE DEF c
<1>4. PktOK(c) /\ (Cleared(c) <=> Cleared(m))
  BY <1>1, <1>3 DEF PktOK, Cleared, SameLink
<1>5. Require(c, c.pktCTRL # NONE \/ c.pktRTS \/ c.pktTx # NONE) = c
  BY <1>1, <1>2, <1>3, <1>4, RequireHolds DEF Cleared
<1>6. r = IF c.pktCTRL # NONE THEN check_pktCTRL(c) ELSE sendPending(c)
  BY <1>2, <1>3, <1>5 DEF deferHandler, hasCTRL
<1>7. IfOK(c) /\ SeqOK(c) /\ RecvOK(c) /\ IdleOK(c)
  BY <1>1, <1>2, <1>3 DEF IfOK, SeqOK, RecvOK, IdleOK, is_idle, SameRx
<1> HIDE DEF r
<1>8. CASE m.pktCTRL = NONE
  <2>1. c.backoff = "off" /\ c.pktTx # NONE
    BY <1>1, <1>2, <1>3, <1>8 DEF PktOK, Cleared, SameLink
  <2>2. Pending(c)
    BY <1>1, <1>2, <1>3, <1>4, <1>7, <1>8, <2>1 DEF Pending, SameRx
  <2>3. Sends(c, r)
    BY <1>3, <1>6, <1>8, <2>2, SendPending
  <2>4. SameLink(m, r)
    BY <1>3, <2>3 DEF Sends, SameLink
  <2> QED BY <2>1, <2>3, <2>4 DEF Moves, Sends, LinkStep, r, c
<1>9. CASE m.pktCTRL = "CTS" /\ ~is_idle(c)
  <2>1. r = [c EXCEPT !.pktCTRL = NONE]
    BY <1>3, <1>6, <1>9, PacketAssumption DEF check_pktCTRL
  <2>2. r \in Station
    <3>1. NONE \in Control
      BY DEF Control
    <3> QED BY <1>3, <2>1, <3>1 DEF Station
  <2>3. /\ SameRx(c, r) /\ SameLink(c, r) /\ r.pktCTRL = NONE
        /\ r.backoff = c.backoff /\ r.tx = c.tx /\ r.defer = "off" /\ r.pktRTS = c.pktRTS
        /\ r.ssrc = c.ssrc /\ r.slrc = c.slrc /\ r.cw = c.cw /\ r.abort = c.abort
    BY <1>3, <2>1 DEF Station, SameRx, SameLink
  <2>4. ~Cleared(r)
    BY <1>2, <1>4, <1>9, <2>3 DEF Cleared, SameLink
  <2>5. PktOK(r)
    BY <1>4, <2>3, <2>4 DEF PktOK, SameLink
  <2>6. TxOK(r)
    BY <1>2, <1>3, <2>3, <2>4, PacketAssumption DEF TxOK, SameRx
  <2>7. IfOK(r) /\ SeqOK(r) /\ RecvOK(r) /\ IdleOK(r)
    BY <1>2, <1>3, <1>7, <2>3 DEF IfOK, SeqOK, RecvOK, IdleOK, is_idle, SameRx
  <2>8. SameLink(m, r) /\ ~r.abort
    BY <1>1, <1>3, <2>3 DEF SameLink
  <2>9. ~PendOK(m)
    BY <1>9 DEF PendOK
  <2> QED BY <2>2, <2>5, <2>6, <2>7, <2>8, <2>9 DEF Moves, Good, Sound, LinkStep, r, c
<1>10. CASE m.pktCTRL # NONE /\ ~(m.pktCTRL = "CTS" /\ ~is_idle(c))
  <2> DEFINE s == m.pktCTRL
  <2>1. r = transmit(setTxState(c, s)) /\ s \in {"CTS", "ACK"}
    <3>1. s \in {"CTS", "ACK"}
      BY <1>1, <1>10 DEF Station, Control
    <3>2. r = check_pktCTRL(c) /\ c.pktCTRL = s
      BY <1>3, <1>6, <1>10
    <3> QED BY <1>10, <3>1, <3>2 DEF check_pktCTRL
  <2>2. c \in Station /\ ~c.abort /\ "Send" \notin c.busy /\ "IF" \notin c.busy
        /\ (c.rx # "IDLE" => c.pktRx # NONE) /\ s \in {"RTS", "CTS", "SEND", "ACK"}
    BY <1>1, <1>2, <1>3, <1>7, <2>1 DEF SameRx, RecvOK
  <2> HIDE DEF s
  <2>3. Transmits(c, r, s)
    BY <1>3, <2>1, <2>2, Transmit
  <2>4. Cleared(r) <=> Cleared(c)
    BY <2>3 DEF Cleared, SameLink, SameCount, Transmits
  <2>5. PktOK(r)
    BY <1>4, <2>3, <2>4 DEF PktOK, SameLink, SameCount, Transmits
  <2>6. r.pktCTRL = s /\ r.defer = "off" /\ s # NONE /\ (Cleared(r) => s = "ACK")
    BY <1>2, <1>3, <1>4, <1>10, <2>1, <2>3, <2>4 DEF SameCount, s, Transmits
  <2>7. TxOK(r)
    BY <2>1, <2>3, <2>6 DEF TxOK, Transmits
  <2>8. IfOK(r) /\ SeqOK(r) /\ RecvOK(r)
    BY <1>7, <2>3, <2>6, ZenonT(60) DEF IfOK, SeqOK, RecvOK, Transmits
  <2>9. SameLink(m, r) /\ ~r.abort
    BY <1>1, <1>3, <2>3 DEF SameLink, SameCount, Transmits
  <2>10. PendOK(m) => PendOK(r)
    BY <1>3, <2>1, <2>3, <2>6 DEF PendOK, SameLink, s, Transmits
  <2> QED BY <2>3, <2>5, <2>7, <2>8, <2>9, <2>10 DEF Moves, Good, Sound, LinkStep, r, c, Transmits
<1>11. m.pktCTRL \in {NONE, "CTS", "ACK"}
  BY <1>1 DEF Station, Control
<1> QED BY <1>8, <1>9, <1>10, <1>11

\* navHandler.
LEMMA NavTimerMoves ==
  ASSUME NEW m, Good(m)
  PROVE  Moves(m, navHandler([m EXCEPT !.nav = FALSE]))
<1> DEFINE c == [m EXCEPT !.nav = FALSE]
           b == IF is_idle(c) /\ c.backoff = "paused" THEN "run" ELSE c.backoff
           r == [c EXCEPT !.backoff = b]
<1>1. m \in Station /\ Sound(m) /\ IdleOK(m) /\ RecvOK(m)
  BY DEF Good, Sound
<1>2. /\ c \in Station /\ SameLink(m, c) /\ SameCount(m, c) /\ c.tx = m.tx /\ c.backoff = m.backoff
      /\ c.rx = m.rx /\ c.pktRx = m.pktRx /\ c.late = m.late /\ c.nav = FALSE
      /\ c.tx_active = m.tx_active /\ c.busy = m.busy /\ c.rxerr = m.rxerr
      /\ c.cache = m.cache /\ c.copies = m.copies /\ c.peerseq = m.peerseq
  BY <1>1 DEF Station, SameLink, SameCount
<1>3. navHandler(c) = r
  BY DEF navHandler
<1> HIDE DEF c
<1>4. b \in {"off", "run", "paused"} /\ (b = "off" <=> m.backoff = "off") /\ (b = "run" => is_idle(c))
  BY <1>1, <1>2 DEF Station, IdleOK, is_idle
<1> HIDE DEF b
<1>5. /\ r \in Station /\ SameLink(c, r) /\ SameCount(c, r) /\ r.tx = c.tx /\ r.backoff = b
      /\ SameRx(c, r)
  BY <1>2, <1>4 DEF Station, SameLink, SameCount, SameRx
<1> HIDE DEF r
<1>6. SameSend(m, r)
  BY <1>2, <1>4, <1>5 DEF SameSend, SameLink, SameCount, SameRx
<1>7. Sound(r) /\ (PendOK(m) => PendOK(r))
  BY <1>1, <1>5, <1>6, SameSound
<1>8. RecvOK(r) /\ IdleOK(r)
  BY <1>1, <1>2, <1>4, <1>5 DEF RecvOK, IdleOK, is_idle, SameRx, SameCount
<1> QED BY <1>3, <1>6, <1>7, <1>8 DEF Moves, Good, LinkStep, SameSend, c

\* validHandler.
LEMMA ValidTimerMoves ==
  ASSUME NEW m, Good(m)
  PROVE  Moves(m, validHandler([m EXCEPT !.busy = @ \ {"Valid"}]))
<1> DEFINE r == validHandler([m EXCEPT !.busy = @ \ {"Valid"}])
<1>1. m \in Station /\ Sound(m) /\ IdleOK(m) /\ RecvOK(m)
  BY DEF Good, Sound
<1>2. /\ r \in Station /\ SameLink(m, r) /\ SameCount(m, r) /\ r.tx = m.tx /\ r.backoff = m.backoff
      /\ r.rx = m.rx /\ r.pktRx = m.pktRx /\ r.late = m.late /\ r.nav = m.nav
      /\ r.tx_active = m.tx_active /\ r.busy = m.busy \ {"Valid"} /\ r.rxerr = m.rxerr
      /\ r.cache = m.cache /\ r.copies = m.copies /\ r.peerseq = m.peerseq
  BY <1>1 DEF validHandler, Station, SameLink, SameCount
<1> HIDE DEF r
<1>3. SameSend(m, r)
  BY <1>2 DEF SameSend
<1>4. Sound(r) /\ (PendOK(m) => PendOK(r))
  BY <1>1, <1>2, <1>3, SameSound
<1>5. RecvOK(r) /\ IdleOK(r)
  BY <1>1, <1>2 DEF RecvOK, IdleOK, is_idle, SameCount
<1> QED BY <1>2, <1>4, <1>5 DEF Moves, Good, LinkStep, r

-----------------------------------------------------------------------------
(* The layers above and below *)

\* send, called by the queue.
LEMMA SendMoves ==
  ASSUME bugFix_timer_, NEW m, Good(m), ~m.callback, NEW p \in Pkt
  PROVE  Moves(m, send(m, p))
<1> DEFINE r == send(m, p)
<1>1. /\ m \in Station /\ ~m.abort /\ PktOK(m) /\ TxOK(m) /\ IfOK(m) /\ SeqOK(m)
      /\ RecvOK(m) /\ IdleOK(m)
  BY DEF Good, Sound
<1>2. /\ m.pktTx = NONE /\ ~m.pktRTS /\ m.ssrc = 0 /\ m.cw = CWMin /\ ~Cleared(m) /\ p # NONE
      /\ m.tx \notin {"RTS", "SEND"}
      /\ m.defer = "SIFS" => m.pktCTRL # NONE
  BY <1>1, PacketAssumption DEF PktOK, Cleared, TxOK
<1>3. PICK b \in {"off", "run", "paused"} :
           /\ r = [m EXCEPT !.callback = TRUE, !.pktTx = p,
                            !.pktRTS = UsesRTS(p), !.backoff = b]
           /\ r \in Station
           /\ b = "off" => m.defer # "off"
           /\ b = "run" => m.backoff = "run" \/ is_idle(m)
  BY <1>1, <1>2, SendEffect
<1>4. /\ r.callback = TRUE /\ r.pktTx = p /\ r.pktRTS = UsesRTS(p) /\ r.backoff = b
      /\ r.pktCTRL = m.pktCTRL /\ r.defer = m.defer /\ r.ssrc = m.ssrc /\ r.slrc = m.slrc
      /\ r.cw = m.cw /\ r.abort = m.abort /\ r.turn = m.turn /\ r.fate = m.fate /\ r.tx = m.tx
      /\ SameRx(m, r)
  BY <1>1, <1>3 DEF Station, SameRx
<1> HIDE DEF r
<1>5. ~Cleared(r)
  BY <1>4 DEF Cleared
<1>6. PktOK(r)
  BY <1>1, <1>2, <1>4, <1>5 DEF PktOK
<1>7. TxOK(r)
  BY <1>1, <1>2, <1>4, <1>5 DEF TxOK, SameRx
<1>8. IfOK(r) /\ SeqOK(r) /\ RecvOK(r) /\ IdleOK(r)
  BY <1>1, <1>3, <1>4 DEF IfOK, SeqOK, RecvOK, IdleOK, is_idle, SameRx
<1>9. LinkStep(m, r)
  BY <1>2, <1>4 DEF LinkStep
<1>10. PendOK(m) => PendOK(r)
  BY <1>2, <1>3, <1>4 DEF PendOK
<1> QED BY <1>1, <1>3, <1>4, <1>6, <1>7, <1>8, <1>9, <1>10 DEF Moves, Good, Sound, r

\* A peer goes on to its next sequence number.
LEMMA PeerMoves ==
  ASSUME NEW m, Good(m), NEW s \in Peer
  PROVE  Moves(m, [m EXCEPT !.peerseq[s] = (@ + 1) % SeqMod, !.copies[s] = 0])
<1> DEFINE q == [m.peerseq EXCEPT ![s] = (m.peerseq[s] + 1) % SeqMod]
           k == [m.copies EXCEPT ![s] = 0]
           r == [m EXCEPT !.peerseq = q, !.copies = k]
           t == [m EXCEPT !.peerseq[s] = (@ + 1) % SeqMod, !.copies[s] = 0]
<1>1. m \in Station /\ Sound(m) /\ IdleOK(m) /\ RecvOK(m)
  BY DEF Good, Sound
<1>2. m.peerseq \in [Peer -> 0 .. SeqMod - 1] /\ m.copies \in [Peer -> 0 .. 2]
  BY <1>1 DEF Station
<1>3. t = r
  BY <1>1 DEF Station
<1>4. (m.peerseq[s] + 1) % SeqMod \in 0 .. SeqMod - 1
  BY <1>2, RetryAssumption
<1>5. q \in [Peer -> 0 .. SeqMod - 1] /\ k \in [Peer -> 0 .. 2]
  BY <1>2, <1>4
<1>6. \A x \in Peer : /\ k[x] # 0 => m.cache[x] = q[x]
                      /\ q[x] # 0 => k[x] <= 1
  BY <1>1, <1>2, <1>5 DEF Sound, SeqOK
<1> HIDE DEF q, k
<1>7. /\ r \in Station /\ SameLink(m, r) /\ SameCount(m, r) /\ r.tx = m.tx /\ r.backoff = m.backoff
      /\ r.rx = m.rx /\ r.pktRx = m.pktRx /\ r.late = m.late /\ r.nav = m.nav
      /\ r.tx_active = m.tx_active /\ r.busy = m.busy /\ r.rxerr = m.rxerr
      /\ r.cache = m.cache /\ r.copies = k /\ r.peerseq = q
  BY <1>1, <1>5 DEF Station, SameLink, SameCount
<1> HIDE DEF r
<1>8. Cleared(r) <=> Cleared(m)
  BY <1>7 DEF Cleared, SameLink, SameCount
<1>9. PktOK(r) /\ TxOK(r)
  BY <1>1, <1>7, <1>8 DEF Sound, PktOK, TxOK, SameLink, SameCount
<1>10. IfOK(r) /\ SeqOK(r) /\ ~r.abort
  BY <1>1, <1>6, <1>7 DEF Sound, IfOK, SeqOK, SameCount
<1>11. RecvOK(r) /\ IdleOK(r)
  BY <1>1, <1>7 DEF RecvOK, IdleOK, is_idle, SameCount
<1>12. PendOK(m) => PendOK(r)
  BY <1>7 DEF PendOK, SameLink, SameCount
<1>13. Moves(m, r)
  BY <1>7, <1>9, <1>10, <1>11, <1>12 DEF Moves, Good, Sound, LinkStep
<1> QED BY <1>3, <1>13

\* recv: a frame begins, alone, under a stronger one, or in collision with another.
LEMMA RecvMoves ==
  ASSUME NEW m, Good(m), NEW f \in Frame, NEW err \in BOOLEAN, NEW weak \in BOOLEAN,
         NEW longer \in BOOLEAN
  PROVE  Moves(m, recv(m, f, err, weak, longer))
<1> DEFINE r == recv(m, f, err, weak, longer)
           bad == err \/ m.tx_active
<1>1. /\ m \in Station /\ ~m.abort /\ Sound(m) /\ IdleOK(m) /\ RecvOK(m) /\ IfOK(m) /\ TxOK(m)
  BY DEF Good, Sound
<1>2. f \in Heard /\ f # NONE /\ bad \in BOOLEAN
  BY <1>1, PacketAssumption DEF Heard, Station
<1>3. SUFFICES /\ r \in Station /\ SameSend(m, r) /\ IdleOK(r) /\ RecvOK(r)
  <2>1. Sound(r) /\ (PendOK(m) => PendOK(r))
    BY <1>1, <1>3, SameSound
  <2> QED BY <1>3, <2>1 DEF Moves, Good, LinkStep, SameSend
<1>4. BeginsLate(m) \in BOOLEAN
  BY DEF BeginsLate, SendDue, Unanswered
<1>5. CASE m.rx = "IDLE"
  <2> DEFINE t == setRxState(m, "RECV")
             a == [m EXCEPT !.rx = "RECV"]
             l == BeginsLate(m)
             b == [t EXCEPT !.pktRx = f, !.rxerr = bad, !.late = l]
             d == [b EXCEPT !.busy = @ \cup {"Recv"}]
  <2>1. /\ t \in Station /\ SameRx(a, t) /\ SameLink(m, t) /\ SameCount(m, t) /\ t.tx = m.tx
        /\ t.backoff = "off" <=> m.backoff = "off"
        /\ IdleOK(t)
    BY <1>1, SetRxState
  <2>2. /\ a.rx = "RECV" /\ a.tx_active = m.tx_active /\ a.nav = m.nav /\ a.busy = m.busy
        /\ a.cache = m.cache /\ a.copies = m.copies /\ a.peerseq = m.peerseq
    BY <1>1 DEF Station
  <2>3. r = timerStart(b, "Recv")
    BY <1>5 DEF recv
  <2> HIDE DEF t, a, l, bad
  <2>4. /\ b \in Station /\ SameLink(t, b) /\ SameCount(t, b) /\ b.tx = t.tx /\ b.backoff = t.backoff
        /\ b.rx = t.rx /\ b.pktRx = f /\ b.rxerr = bad /\ b.late = l /\ b.nav = t.nav
        /\ b.tx_active = t.tx_active /\ b.busy = t.busy
        /\ b.cache = t.cache /\ b.copies = t.copies /\ b.peerseq = t.peerseq
    BY <1>2, <1>4, <2>1, ZenonT(60) DEF Station, SameLink, SameCount, l
  <2> HIDE DEF b
  <2>5. r = d
    <3>1. "Recv" \notin b.busy /\ ~b.abort
      BY <1>1, <1>5, <2>1, <2>2, <2>4 DEF RecvOK, SameRx, SameCount
    <3> QED BY <2>3, <2>4, <3>1, RequireHolds DEF timerStart
  <2>6. /\ d \in Station /\ SameLink(b, d) /\ SameCount(b, d) /\ d.tx = b.tx /\ d.backoff = b.backoff
        /\ d.rx = b.rx /\ d.pktRx = b.pktRx /\ d.rxerr = b.rxerr /\ d.late = b.late /\ d.nav = b.nav
        /\ d.tx_active = b.tx_active /\ d.busy = b.busy \cup {"Recv"}
        /\ d.cache = b.cache /\ d.copies = b.copies /\ d.peerseq = b.peerseq
    BY <2>4 DEF Station, SameLink, SameCount
  <2> HIDE DEF d
  <2>7. SameSend(m, d)
    BY <2>1, <2>2, <2>4, <2>6 DEF SameSend, SameRx, SameLink, SameCount
  <2>8. IdleOK(d)
    BY <2>1, <2>4, <2>6 DEF IdleOK, is_idle
  <2>9. RecvOK(d)
    <3>1. /\ d.rx = "RECV" /\ d.pktRx = f /\ "Recv" \in d.busy /\ d.rxerr = bad /\ d.late = l
          /\ d.tx_active = m.tx_active /\ d.tx = m.tx /\ d.defer = m.defer
      BY <2>1, <2>2, <2>4, <2>6 DEF SameRx, SameCount
    <3>2. m.tx_active => bad
      BY DEF bad
    <3>3. m.tx = "ACK" \/ m.defer = "SIFS" => bad \/ l
      BY <1>1, <3>2 DEF l, BeginsLate, SendDue, Unanswered, TxOK, IfOK
    <3> QED BY <1>2, <3>1, <3>2, <3>3 DEF RecvOK
  <2> QED BY <2>5, <2>6, <2>7, <2>8, <2>9
<1>6. CASE m.rx # "IDLE" /\ weak
  <2>1. r = [m EXCEPT !.nav = @ \/ TRUE]
    BY <1>6 DEF recv, capture, set_nav
  <2>2. /\ r \in Station /\ SameLink(m, r) /\ SameCount(m, r) /\ r.tx = m.tx /\ r.backoff = m.backoff
        /\ r.rx = m.rx /\ r.pktRx = m.pktRx /\ r.late = m.late
        /\ r.tx_active = m.tx_active /\ r.busy = m.busy /\ r.rxerr = m.rxerr
        /\ r.cache = m.cache /\ r.copies = m.copies /\ r.peerseq = m.peerseq
    BY <1>1, <2>1, ZenonT(60) DEF Station, SameLink, SameCount
  <2> HIDE DEF r
  <2>3. SameSend(m, r)
    BY <2>2 DEF SameSend
  <2> QED BY <1>1, <1>6, <2>2, <2>3 DEF RecvOK, IdleOK, is_idle, SameCount
<1>7. CASE m.rx # "IDLE" /\ ~weak
  <2> DEFINE t == setRxState(m, "COLL")
             e == [m EXCEPT !.rx = "COLL"]
             a == IF m.rx = "RECV" THEN t ELSE m
             l == BeginsLate(a)
             b == [a EXCEPT !.pktRx = f, !.rxerr = bad, !.late = l]
  <2>1. a \in Station /\ SameSend(m, a) /\ IdleOK(a) /\ a.rx = "COLL"
        /\ a.busy = m.busy /\ a.pktRx = m.pktRx
    <3>1. CASE m.rx = "RECV"
      <4>1. /\ t \in Station /\ SameRx(e, t) /\ SameLink(m, t) /\ SameCount(m, t) /\ t.tx = m.tx
            /\ t.backoff = "off" <=> m.backoff = "off"
            /\ IdleOK(t)
        BY <1>1, SetRxState
      <4>2. /\ e.rx = "COLL" /\ e.tx_active = m.tx_active /\ e.busy = m.busy /\ e.pktRx = m.pktRx
            /\ e.cache = m.cache /\ e.copies = m.copies /\ e.peerseq = m.peerseq
        BY <1>1 DEF Station
      <4>3. a = t
        BY <3>1
      <4> HIDE DEF t, e, a
      <4> QED BY <4>1, <4>2, <4>3 DEF SameSend, SameRx
    <3>2. CASE m.rx # "RECV"
      <4>1. a = m /\ m.rx = "COLL"
        BY <1>1, <1>7, <3>2 DEF Station
      <4> QED BY <1>1, <4>1 DEF SameSend, SameLink, SameCount
    <3> QED BY <3>1, <3>2
  <2>2. m.pktRx # NONE /\ "Recv" \in m.busy
    BY <1>1, <1>7 DEF RecvOK
  <2>3. ~a.abort
    BY <1>1, <2>1 DEF SameSend, SameCount
  <2>4. r = IF longer THEN [Require(a, a.pktRx # NONE /\ "Recv" \in a.busy /\ a.rx = "COLL")
                              EXCEPT !.pktRx = f, !.rxerr = bad,
                                !.late = BeginsLate(Require(a, a.pktRx # NONE /\ "Recv" \in a.busy /\ a.rx = "COLL"))]
            ELSE Require(a, a.pktRx # NONE /\ "Recv" \in a.busy /\ a.rx = "COLL")
    BY <1>7 DEF recv, collision
  <2> HIDE DEF a
  <2>5. Require(a, a.pktRx # NONE /\ "Recv" \in a.busy /\ a.rx = "COLL") = a
    BY <2>1, <2>2, <2>3, RequireHolds
  <2>6. r = IF longer THEN b ELSE a
    BY <2>4, <2>5
  <2>7. l \in BOOLEAN
    BY DEF BeginsLate, SendDue, Unanswered
  <2> HIDE DEF l, bad, r
  <2>8. /\ b \in Station /\ SameLink(a, b) /\ SameCount(a, b) /\ b.tx = a.tx /\ b.backoff = a.backoff
        /\ b.rx = a.rx /\ b.pktRx = f /\ b.nav = a.nav
        /\ b.tx_active = a.tx_active /\ b.busy = a.busy
        /\ b.cache = a.cache /\ b.copies = a.copies /\ b.peerseq = a.peerseq
    BY <1>2, <2>1, <2>7, ZenonT(60) DEF Station, SameLink, SameCount
  <2> HIDE DEF b
  <2>9. SameSend(m, b) /\ IdleOK(b) /\ RecvOK(b)
    BY <1>2, <2>1, <2>2, <2>8 DEF SameSend, SameLink, SameCount, IdleOK, is_idle, RecvOK
  <2>10. RecvOK(a)
    BY <2>1, <2>2 DEF RecvOK
  <2> QED BY <2>1, <2>6, <2>8, <2>9, <2>10
<1> QED BY <1>5, <1>6, <1>7

-----------------------------------------------------------------------------
(* Theorems *)

\* A station starts in a consistent state.
LEMMA InitGood == Init => Good(mac) /\ PendOK(mac)
<1> SUFFICES ASSUME Init PROVE Good(mac) /\ PendOK(mac)
  OBVIOUS
<1>1. /\ NONE \in QueueHead /\ NONE \in Control /\ NONE \in Heard /\ CWMin \in CWMin .. CWMax
      /\ 1 % SeqMod \in 0 .. SeqMod - 1 /\ NONE # "CTS"
  BY RetryAssumption, PacketAssumption DEF QueueHead, Control, Heard
<1> DEFINE q == 1 % SeqMod
<1>2. [s \in Peer |-> 0] \in [Peer -> Nat] /\ [s \in Peer |-> 0] \in [Peer -> 0 .. 2]
      /\ [s \in Peer |-> q] \in [Peer -> 0 .. SeqMod - 1]
  BY <1>1
<1>3. mac \in Station
  BY <1>1, <1>2 DEF Init, Station
<1>4. ~Cleared(mac) /\ PktOK(mac) /\ TxOK(mac) /\ IfOK(mac) /\ RecvOK(mac) /\ IdleOK(mac) /\ ~mac.abort
  BY <1>1, RetryAssumption DEF Init, Cleared, PktOK, TxOK, IfOK, RecvOK, IdleOK
<1>5. SeqOK(mac)
  BY DEF Init, SeqOK
<1>6. PendOK(mac)
  BY <1>1 DEF Init, PendOK
<1> QED BY <1>3, <1>4, <1>5, <1>6 DEF Good, Sound

\* Every step, one case for each action.
LEMMA StepMoves ==
  ASSUME bugFix_timer_, Good(mac), Next
  PROVE  Moves(mac, mac')
<1>1. CASE SendDown
  BY <1>1, SendMoves DEF SendDown
<1>2. CASE RecvUp
  BY <1>2, RecvMoves DEF RecvUp
<1>3. CASE PeerNext
  BY <1>3, PeerMoves, ZenonT(60) DEF PeerNext
<1>4. CASE RecvTimer
  BY <1>4, RecvTimerMoves DEF RecvTimer, RecvReady, Expired
<1>5. CASE SendTimer
  BY <1>5, SendTimerMoves DEF SendTimer, SendReady, Expired
<1>6. CASE IFTimer
  BY <1>6, IFTimerMoves DEF IFTimer, Expired
<1>7. CASE BackoffTimer
  BY <1>7, BackoffTimerMoves DEF BackoffTimer
<1>8. CASE DeferTimer
  BY <1>8, DeferTimerMoves DEF DeferTimer
<1>9. CASE NavTimer
  BY <1>9, NavTimerMoves DEF NavTimer
<1>10. CASE ValidTimer
  BY <1>10, ValidTimerMoves DEF ValidTimer, Expired
<1> QED BY <1>1, <1>2, <1>3, <1>4, <1>5, <1>6, <1>7, <1>8, <1>9, <1>10 DEF Next, Timers

\* The inductive invariant holds in every reachable state.
THEOREM MacInvariance == ASSUME bugFix_timer_ PROVE Spec => []IInv
<1>1. Init => IInv
  BY InitGood DEF IInv
<1>2. IInv /\ [Next]_mac => IInv'
  <2>1. ASSUME IInv, Next PROVE IInv'
    BY <2>1, StepMoves DEF IInv, Moves
  <2>2. ASSUME IInv, UNCHANGED mac PROVE IInv'
    BY <2>2 DEF IInv
  <2> QED BY <2>1, <2>2
<1> QED BY <1>1, <1>2, PTL DEF Spec

\* The invariant implies the state properties of the runs.
LEMMA GoodImplies ==
  ASSUME IInv PROVE TypeOK /\ NoAssertionFails /\ BackoffNeedsIdle /\ HalfDuplex /\ DeliveredOnce
<1>1. mac \in Station /\ Sound(mac) /\ IdleOK(mac) /\ RecvOK(mac)
  BY DEF IInv, Good, Sound
<1>2. mac.ssrc \in Nat /\ mac.slrc \in Nat /\ mac.ssrc < ShortRetryLimit /\ mac.slrc < LongRetryLimit
  BY <1>1 DEF Sound, PktOK, Station
<1>3. mac.ssrc \in 0 .. ShortRetryLimit - 1 /\ mac.slrc \in 0 .. LongRetryLimit - 1
  BY <1>2, RetryAssumption
<1>4. TypeOK
  BY <1>1, <1>3 DEF TypeOK, Station, QueueHead, Control, Heard
<1> QED BY <1>1, <1>4 DEF NoAssertionFails, BackoffNeedsIdle, HalfDuplex, DeliveredOnce,
             Sound, IdleOK, RecvOK, SeqOK

\* Type correctness, the bounds of both retry counts and of the contention window
\* included: RetransmitRTS and RetransmitDATA never leave a count at its limit.
THEOREM MacTypeCorrect == ASSUME bugFix_timer_ PROVE Spec => []TypeOK
<1>1. IInv => TypeOK
  BY GoodImplies
<1> QED BY <1>1, MacInvariance, PTL

\* None of the assertions of mac-802_11.cc or of the timers fails, for every medium.
THEOREM AssertionsHold == ASSUME bugFix_timer_ PROVE Spec => []NoAssertionFails
<1>1. IInv => NoAssertionFails
  BY GoodImplies
<1> QED BY <1>1, MacInvariance, PTL

\* The backoff timer never counts down while the medium is busy.
THEOREM BackoffIdle == ASSUME bugFix_timer_ PROVE Spec => []BackoffNeedsIdle
<1>1. IInv => BackoffNeedsIdle
  BY GoodImplies
<1> QED BY <1>1, MacInvariance, PTL

\* A frame that overlaps a transmission of the station itself is marked as lost.
THEOREM OneWay == ASSUME bugFix_timer_ PROVE Spec => []HalfDuplex
<1>1. IInv => HalfDuplex
  BY GoodImplies
<1> QED BY <1>1, MacInvariance, PTL

\* The sequence number cache passes a payload up once, however often it is repeated.
THEOREM Duplicates == ASSUME bugFix_timer_ PROVE Spec => []DeliveredOnce
<1>1. IInv => DeliveredOnce
  BY GoodImplies
<1> QED BY <1>1, MacInvariance, PTL

\* Every packet starts with a full set of short retries and the smallest window.
THEOREM Fresh == ASSUME bugFix_timer_ PROVE Spec => FreshStart
<1>1. IInv /\ [Next]_mac
        => [mac'.callback /\ (~mac.callback \/ mac'.turn # mac.turn)
              => mac'.ssrc = 0 /\ mac'.cw = CWMin]_mac
  <2>1. ASSUME IInv, Next, mac'.callback, ~mac.callback \/ mac'.turn # mac.turn
        PROVE  mac'.ssrc = 0 /\ mac'.cw = CWMin
    <3>1. LinkStep(mac, mac')
      BY <2>1, StepMoves DEF IInv, Moves
    <3> QED BY <2>1, <3>1 DEF LinkStep, SameLink, Settles
  <2> QED BY <2>1
<1> QED BY <1>1, MacInvariance, PTL DEF Spec, FreshStart

\* The station implements the safety part of LinkService: one packet at a time, one
\* fate and one call of the handler for each, also when the handler re-enters send.
THEOREM Refinement == ASSUME bugFix_timer_ PROVE Spec => LinkSafe
<1>1. Init => Link!Init
  BY DEF Init, Link!Init
<1>2. IInv /\ [Next]_mac => [Link!Next]_(Link!vars)
  <2>1. ASSUME IInv, Next PROVE Link!Next \/ UNCHANGED Link!vars
    <3>1. LinkStep(mac, mac') /\ mac.pktTx \in QueueHead /\ mac \in Station
      BY <2>1, StepMoves DEF IInv, Moves, Good, Sound, Station
    <3>2. CASE SameLink(mac, mac')
      BY <3>2 DEF SameLink, Link!vars
    <3>3. CASE Settles(mac, mac')
      BY <3>3 DEF Settles, Link!Next, Link!Settle, Link!Fates
    <3>4. CASE /\ ~mac.callback /\ mac.pktTx = NONE
               /\ mac'.pktTx \in Pkt /\ mac'.callback = TRUE /\ mac'.turn = mac.turn
               /\ mac'.fate = mac.fate
      <4>1. Link!Accept(mac'.pktTx)
        BY <3>4 DEF Link!Accept
      <4> QED BY <3>4, <4>1 DEF Link!Next
    <3>5. ASSUME NEW nxt \in QueueHead,
                 mac.callback, mac'.turn = 1 - mac.turn,
                 IF mac.pktTx = NONE THEN mac'.fate = mac.fate
                 ELSE mac'.fate = "sent" \/ (mac'.fate = "failed" /\ ~mac.pktTx.bcast),
                 mac'.pktTx = nxt, mac'.callback = (nxt # NONE)
          PROVE  Link!Next
      <4>1. Link!Answer(nxt)
        BY <3>5 DEF Link!Answer, Link!Fates
      <4> QED BY <4>1 DEF Link!Next, QueueHead
    <3> QED BY <3>1, <3>2, <3>3, <3>4, <3>5 DEF LinkStep
  <2>2. ASSUME UNCHANGED mac PROVE UNCHANGED Link!vars
    BY <2>2 DEF Link!vars
  <2> QED BY <2>1, <2>2
<1> QED BY <1>1, <1>2, MacInvariance, PTL DEF Spec, LinkSafe, Link!SafeSpec

\* In a network without RTS frames a packet that was handed down always has a timer
\* that will move it.  With RTS frames it does not: a CTS given up in deferHandler takes
\* the timer with it.
THEOREM PendingTimer ==
  ASSUME bugFix_timer_, NoRequests PROVE Spec => []PendingHasTimer
<1> DEFINE PInv == IInv /\ PendOK(mac)
<1>1. Init => PInv
  BY InitGood DEF IInv
<1>2. PInv /\ [Next]_mac => PInv'
  <2>1. ASSUME PInv, Next PROVE PInv'
    BY <2>1, StepMoves DEF IInv, Moves
  <2>2. ASSUME PInv, UNCHANGED mac PROVE PInv'
    BY <2>2 DEF IInv
  <2> QED BY <2>1, <2>2
<1>3. PInv => PendingHasTimer
  <2> SUFFICES ASSUME PInv PROVE PendingHasTimer
    OBVIOUS
  <2>1. TxOK(mac)
    BY DEF IInv, Good, Sound
  <2> QED BY <2>1 DEF PendOK, PendingHasTimer, TxOK
<1> QED BY <1>1, <1>2, <1>3, PTL DEF Spec

=============================================================================
