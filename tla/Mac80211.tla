------------------------------ MODULE Mac80211 ------------------------------
(***************************************************************************)
(* One station of the 802.11 DCF in src/code/mac/mac-802_11.cc, in the ad  *)
(* hoc mode the scenarios use (bss_id_ = IBSS_ID, infra_mode_ = 0) and as  *)
(* a normal node (workMode 0).  The station's members are the fields of    *)
(* one record; a function of the source is an operator from the record     *)
(* before the call to the record after it; each timer handler and each     *)
(* entry from the layers above and below is one action.                    *)
(*                                                                         *)
(* Time is left out except for its order: which timer can run out before   *)
(* which other is stated in the guards of the timer actions and nowhere    *)
(* else.  The medium is arbitrary: any frame of Frame may start at any     *)
(* moment, damaged or not, on top of another or not.                       *)
(***************************************************************************)
EXTENDS Naturals, FiniteSets

CONSTANTS
  NONE,             \* no packet
  Pkt,              \* packets the interface queue may hand down: [bcast, size]
  Frame,            \* frames on the air: [type, to, size, src, dur]
  Peer,             \* stations that send DATA frames to this one
  RTSThreshold, ShortRetryLimit, LongRetryLimit,
  CWMin, CWMax,
  SeqMod,           \* sequence numbers are 0 .. SeqMod - 1 (2^16 in the code)
  bugFix_timer_     \* the Tcl-bound switch of the source

ASSUME RetryAssumption ==
  /\ ShortRetryLimit \in Nat \ {0} /\ LongRetryLimit \in Nat \ {0}
  /\ CWMin \in Nat \ {0} /\ CWMax \in Nat /\ CWMin <= CWMax
  /\ RTSThreshold \in Nat /\ SeqMod \in Nat \ {0}
  /\ bugFix_timer_ \in BOOLEAN

ASSUME PacketAssumption ==
  /\ \A p \in Pkt : p \in [bcast : BOOLEAN, size : Nat]
  /\ \A f \in Frame : /\ f.type \in {"RTS", "CTS", "ACK", "DATA", "NOISE"}
                      /\ f.to \in {"me", "other", "all"}
                      /\ f.src \in Peer /\ f.size \in Nat /\ f.dur \in BOOLEAN
  /\ NONE \notin Pkt /\ NONE \notin Frame /\ NONE \notin {"CTS", "ACK"}

VARIABLE mac

-----------------------------------------------------------------------------
(* Timers (external, mac-timers.cc of ns-2) and assertions                  *)

\* An assertion of the code: a failed one ends the program.
Require(m, ok) == [m EXCEPT !.abort = @ \/ ~ok]

\* MacTimer::start asserts that the timer is not running, stop that it is.
timerStart(m, t) == [Require(m, t \notin m.busy) EXCEPT !.busy = @ \cup {t}]
timerStop(m, t)  == [Require(m, t \in m.busy) EXCEPT !.busy = @ \ {t}]

\* mhDefer_ is kept apart from the other timers for the time it runs:
\* SIFS, or DIFS plus a random number of slots.
deferStart(m, ifs) == [Require(m, m.defer = "off") EXCEPT !.defer = ifs]

is_idle(m) == m.rx = "IDLE" /\ m.tx = "IDLE" /\ ~m.nav

\* BackoffTimer::start: the timer starts paused when the medium is busy.
backoffStart(m) ==
  [Require(m, m.backoff = "off") EXCEPT
     !.backoff = IF is_idle(m) THEN "run" ELSE "paused"]

checkBackoffTimer(m) ==
  [m EXCEPT !.backoff = CASE is_idle(m) /\ @ = "paused" -> "run"
                          [] ~is_idle(m) /\ @ = "run" -> "paused"
                          [] OTHER -> @]

\* Mutant: the backoff timer is not told of a reception.
setRxState_unpaused(m, s) == [m EXCEPT !.rx = s]

setRxState(m, s) == checkBackoffTimer([m EXCEPT !.rx = s])
setTxState(m, s) == checkBackoffTimer([m EXCEPT !.tx = s])

inc_cw(m) == [m EXCEPT !.cw = IF 2 * @ + 1 > CWMax THEN CWMax ELSE 2 * @ + 1]
rst_cw(m) == [m EXCEPT !.cw = CWMin]

\* A zero duration changes nothing that lasts.
set_nav(m, dur) == [m EXCEPT !.nav = @ \/ dur]

-----------------------------------------------------------------------------
(* Outgoing frames                                                          *)

UsesRTS(p) == ~(p.size < RTSThreshold \/ p.bcast)

sendDATA(m, p) == [Require(m, m.pktTx = NONE) EXCEPT !.pktTx = p]

sendRTS(m) ==
  [Require(m, m.pktTx # NONE /\ ~m.pktRTS) EXCEPT !.pktRTS = UsesRTS(m.pktTx)]

sendCTS(m) == [Require(m, m.pktCTRL = NONE) EXCEPT !.pktCTRL = "CTS"]
sendACK(m) == [Require(m, m.pktCTRL = NONE) EXCEPT !.pktCTRL = "ACK"]

\* Mutant: the frame being received is not marked.
transmit_unmarked(m) ==
  timerStart(timerStart([m EXCEPT !.tx_active = TRUE], "Send"), "IF")

\* A frame that is being received when the transmitter starts is lost.
transmit(m) ==
  LET a == [Require(m, m.rx # "IDLE" => m.pktRx # NONE) EXCEPT
              !.tx_active = TRUE, !.rxerr = @ \/ m.rx # "IDLE"]
  IN  timerStart(timerStart(a, "Send"), "IF")

\* Wait before sending: with the bug fix in the backoff timer, else in mhDefer_.
contend(m) == IF bugFix_timer_ THEN backoffStart(m) ELSE deferStart(m, "DIFS")

\* Mutant: nothing is started when the medium is busy.
send_no_backoff(m, p) ==
  LET a == sendRTS(sendDATA([m EXCEPT !.callback = TRUE], p))
  IN  IF a.backoff = "off" /\ is_idle(a) /\ a.defer = "off" THEN contend(a) ELSE a

send(m, p) ==
  LET a == sendRTS(sendDATA([m EXCEPT !.callback = TRUE], p))
  IN  CASE a.backoff # "off" -> a
        [] a.backoff = "off" /\ ~is_idle(a) -> backoffStart(a)
        [] a.backoff = "off" /\ is_idle(a) /\ a.defer = "off" -> contend(a)
        [] OTHER -> a             \* already deferring

\* The interface queue's handler (external): it releases the queue, which
\* hands down its next packet nxt, if it has one, before handle() returns.
\* turn flips at each call, so that two calls in a row can be told apart.
handle(m, nxt) ==
  LET a == [m EXCEPT !.callback = FALSE, !.turn = 1 - @]
  IN  IF nxt = NONE THEN a ELSE send(a, nxt)

tx_resume(m, nxt) ==
  LET a == Require(m, "Send" \notin m.busy /\ m.defer = "off")
      b == CASE a.pktCTRL # NONE -> deferStart(a, "SIFS")
             [] a.pktCTRL = NONE /\ a.pktRTS ->
                  IF a.backoff = "off" THEN contend(a) ELSE a
             [] a.pktCTRL = NONE /\ ~a.pktRTS /\ a.pktTx # NONE ->
                  IF a.backoff # "off" THEN a
                  ELSE IF UsesRTS(a.pktTx) THEN deferStart(a, "SIFS")
                  ELSE contend(a)
             [] a.pktCTRL = NONE /\ ~a.pktRTS /\ a.pktTx = NONE ->
                  IF a.callback THEN handle(a, nxt) ELSE a
  IN  setTxState(b, "IDLE")

\* The pending packet leaves the MAC; fate records how: with xmit_failure_
\* called ("failed") or without ("sent").
dropTx(m, how) == [m EXCEPT !.pktTx = NONE, !.fate = how]

\* Mutants: the count survives a packet that is given up; it never advances.
RetransmitRTS_kept(m) ==
  LET a == [m EXCEPT !.ssrc = @ + 1]
  IN  IF a.ssrc >= ShortRetryLimit
        THEN rst_cw([dropTx(a, "failed") EXCEPT !.pktRTS = FALSE])
        ELSE backoffStart(inc_cw(a))
RetransmitRTS_uncounted(m) == backoffStart(inc_cw(m))

RetransmitRTS(m) ==
  LET a == [Require(m, m.pktTx # NONE /\ m.pktRTS /\ m.backoff = "off")
              EXCEPT !.ssrc = @ + 1]
  IN  IF a.ssrc >= ShortRetryLimit
        THEN rst_cw([dropTx(a, "failed") EXCEPT !.pktRTS = FALSE, !.ssrc = 0])
        ELSE backoffStart(inc_cw(a))

\* A packet of exactly RTSThreshold bytes counts as short here, although
\* sendRTS gave it an RTS.
CountsShort(p) == p.size <= RTSThreshold

\* Mutants: a broadcast is reported as failed; unicast tries are not counted.
RetransmitDATA_bcast(m) ==
  IF m.pktTx.bcast THEN backoffStart(rst_cw(dropTx(m, "failed")))
                   ELSE backoffStart(inc_cw(sendRTS(m)))
RetransmitDATA_uncounted(m) ==
  IF m.pktTx.bcast THEN backoffStart(rst_cw(dropTx(m, "sent")))
                   ELSE backoffStart(inc_cw(sendRTS(m)))

RetransmitDATA(m) ==
  LET a == Require(m, m.backoff = "off" /\ m.pktTx # NONE /\ ~m.pktRTS)
      b == IF CountsShort(a.pktTx) THEN [a EXCEPT !.ssrc = @ + 1]
                                   ELSE [a EXCEPT !.slrc = @ + 1]
      spent == IF CountsShort(a.pktTx) THEN b.ssrc >= ShortRetryLimit
                                       ELSE b.slrc >= LongRetryLimit
      over == dropTx(b, "failed")
  IN  CASE a.pktTx = NONE -> a
        [] a.pktTx # NONE /\ a.pktTx.bcast ->
             backoffStart(rst_cw(dropTx(a, "sent")))
        [] a.pktTx # NONE /\ ~a.pktTx.bcast /\ spent ->
             rst_cw(IF CountsShort(a.pktTx) THEN [over EXCEPT !.ssrc = 0]
                                            ELSE [over EXCEPT !.slrc = 0])
        [] OTHER -> backoffStart(inc_cw(sendRTS(b)))

send_timer(m, nxt) ==
  LET a == CASE m.tx = "RTS" -> RetransmitRTS(m)
             [] m.tx = "SEND" -> RetransmitDATA(m)
             [] m.tx \in {"CTS", "ACK"} ->
                  [Require(m, m.pktCTRL # NONE) EXCEPT !.pktCTRL = NONE]
             [] m.tx = "IDLE" -> m
  IN  tx_resume(a, nxt)

\* The check_pkt functions return 0 when they dealt with their packet, -1
\* when there is none: here the guard that they deal with it, and the effect.
hasCTRL(m) == m.pktCTRL # NONE /\ m.tx \notin {"CTS", "ACK"}

check_pktCTRL(m) ==
  IF m.pktCTRL = "CTS" /\ ~is_idle(m) THEN [m EXCEPT !.pktCTRL = NONE]
                                      ELSE transmit(setTxState(m, m.pktCTRL))

check_pktRTS(m) ==
  IF is_idle(m) THEN transmit(setTxState(m, "RTS"))
                ELSE backoffStart(inc_cw(m))

check_pktTx(m) ==
  IF is_idle(m) THEN transmit(setTxState(m, "SEND"))
                ELSE backoffStart(inc_cw(sendRTS(m)))

\* check_pktRTS and then check_pktTx, as both handlers end.
sendPending(m) ==
  LET a == Require(m, m.backoff = "off")
  IN  CASE a.pktRTS -> check_pktRTS(a)
        [] ~a.pktRTS /\ a.pktTx # NONE -> check_pktTx(a)
        [] OTHER -> a

backoffHandler(m) ==
  IF m.pktCTRL # NONE
    THEN Require(m, "Send" \in m.busy \/ m.defer # "off")
    ELSE sendPending(m)

deferHandler(m) ==
  LET a == Require(m, m.pktCTRL # NONE \/ m.pktRTS \/ m.pktTx # NONE)
  IN  IF hasCTRL(a) THEN check_pktCTRL(a) ELSE sendPending(a)

navHandler(m) ==
  [m EXCEPT !.backoff = IF is_idle(m) /\ @ = "paused" THEN "run" ELSE @]

-----------------------------------------------------------------------------
(* Incoming frames                                                          *)

\* No answer is awaited: mhSend_ and mhIF_ run out at the same moment.
Unanswered(m) == m.tx = "ACK" \/ (m.tx = "SEND" /\ m.pktTx.bcast)
SendDue(m) == "Send" \in m.busy /\ "IF" \notin m.busy /\ Unanswered(m)

\* late: the frame being received began when a SIFS deferral was running or
\* about to start.
BeginsLate(m) == m.defer = "SIFS" \/ SendDue(m)

\* A frame that arrives during another is ignored when it is weak enough,
\* else the two collide and the one that lasts longer is kept.
capture(m) == set_nav(m, TRUE)

collision(m, f, err, longer) ==
  LET a == IF m.rx = "RECV" THEN setRxState(m, "COLL") ELSE m
      b == Require(a, a.pktRx # NONE /\ "Recv" \in a.busy /\ a.rx = "COLL")
  IN  IF longer THEN [b EXCEPT !.pktRx = f, !.rxerr = err, !.late = BeginsLate(b)]
               ELSE b

\* The first bit of a frame reaches the interface.
recv(m, f, err, weak, longer) ==
  LET bad == err \/ m.tx_active
  IN  IF m.rx = "IDLE"
        THEN timerStart([setRxState(m, "RECV") EXCEPT
                           !.pktRx = f, !.rxerr = bad,
                           !.late = BeginsLate(m)], "Recv")
        ELSE IF weak THEN capture(m) ELSE collision(m, f, bad, longer)

\* Mutant: a second request is answered while an answer is pending.
recvRTS_always(m, nxt) ==
  IF m.tx # "IDLE" THEN m ELSE tx_resume([sendCTS(m) EXCEPT !.defer = "off"], nxt)

recvRTS(m, nxt) ==
  IF m.tx # "IDLE" \/ m.pktCTRL # NONE THEN m
  ELSE tx_resume([sendCTS(m) EXCEPT !.defer = "off"], nxt)

\* Mutant: the short retry count is not reset.
recvCTS_kept(m, nxt) ==
  IF m.tx # "RTS" THEN m
  ELSE tx_resume([timerStop(m, "Send") EXCEPT !.pktRTS = FALSE], nxt)

recvCTS(m, nxt) ==
  IF m.tx # "RTS" THEN m
  ELSE LET a == Require(m, m.pktRTS /\ m.pktTx # NONE)
       IN  tx_resume([timerStop(a, "Send") EXCEPT !.pktRTS = FALSE, !.ssrc = 0],
                     nxt)

\* Mutant: the cache is not updated.
passUp_uncached(m, f) ==
  IF f.to = "all" \/ (m.cache[f.src] # 0 /\ m.cache[f.src] = m.peerseq[f.src])
    THEN m
    ELSE [m EXCEPT !.copies[f.src] = IF @ < 2 THEN @ + 1 ELSE @]

\* The sequence number cache.  copies counts how often the frame's payload
\* has been passed to the link layer (twice is as much as is told apart).
passUp(m, f) ==
  IF f.to = "all" THEN m
  ELSE IF m.cache[f.src] # 0 /\ m.cache[f.src] = m.peerseq[f.src] THEN m
  ELSE [m EXCEPT !.cache[f.src] = m.peerseq[f.src],
                 !.copies[f.src] = IF @ < 2 THEN @ + 1 ELSE @]

recvDATA(m, f, nxt) ==
  CASE f.to = "all" -> passUp(m, f)
    [] f.to # "all" /\ f.size >= RTSThreshold ->
         IF m.tx # "CTS" THEN m
         ELSE LET a == [Require(m, m.pktCTRL # NONE) EXCEPT !.pktCTRL = NONE]
              IN  passUp(tx_resume(sendACK(timerStop(a, "Send")), nxt), f)
    [] f.to # "all" /\ f.size < RTSThreshold ->
         IF m.pktCTRL # NONE THEN m
         ELSE passUp(IF "Send" \in m.busy THEN sendACK(m)
                     ELSE tx_resume(sendACK(m), nxt), f)

recvACK(m, nxt) ==
  IF m.tx # "SEND" THEN m
  ELSE LET a == timerStop(Require(m, m.pktTx # NONE), "Send")
           b == IF CountsShort(a.pktTx) THEN [a EXCEPT !.ssrc = 0]
                                        ELSE [a EXCEPT !.slrc = 0]
       IN  tx_resume(backoffStart(dropTx(rst_cw(b), "sent")), nxt)

\* The interference flag and its timer mhValid_.
recvNoise(m) == [m EXCEPT !.noiseFlag = TRUE, !.busy = @ \cup {"Valid"}]
validHandler(m) == [m EXCEPT !.noiseFlag = FALSE]

rx_resume(m) ==
  setRxState(Require(m, m.pktRx = NONE /\ "Recv" \notin m.busy), "IDLE")

\* A frame for this station or for all, received without error.
dispatch(m, f, nxt) ==
  CASE f.type = "RTS" -> recvRTS(m, nxt)
    [] f.type = "CTS" -> recvCTS(m, nxt)
    [] f.type = "ACK" -> recvACK(m, nxt)
    [] f.type = "DATA" -> recvDATA(m, f, nxt)
    [] f.type = "NOISE" -> recvNoise(m)

recv_timer(m, nxt) ==
  LET f == m.pktRx
      a == Require(m, m.pktRx # NONE /\ m.rx \in {"RECV", "COLL"})
      b == CASE m.tx_active -> a
             [] ~m.tx_active /\ (m.rx = "COLL" \/ m.rxerr) -> set_nav(a, TRUE)
             [] ~m.tx_active /\ m.rx = "RECV" /\ ~m.rxerr ->
                  LET c == IF f.to = "me" THEN a ELSE set_nav(a, f.dur)
                  IN  IF f.to = "other" THEN c ELSE dispatch(c, f, nxt)
  IN  rx_resume([b EXCEPT !.pktRx = NONE, !.rxerr = FALSE, !.late = FALSE])

-----------------------------------------------------------------------------
(* The station                                                              *)

Init ==
  mac = [tx |-> "IDLE", rx |-> "IDLE", tx_active |-> FALSE, nav |-> FALSE,
         busy |-> {}, defer |-> "off", backoff |-> "off",
         pktTx |-> NONE, pktRTS |-> FALSE, pktCTRL |-> NONE, pktRx |-> NONE,
         rxerr |-> FALSE, late |-> FALSE, callback |-> FALSE,
         ssrc |-> 0, slrc |-> 0, cw |-> CWMin,
         cache |-> [s \in Peer |-> 0], copies |-> [s \in Peer |-> 0],
         peerseq |-> [s \in Peer |-> 1 % SeqMod],
         noiseFlag |-> FALSE, turn |-> 0, fate |-> "none", abort |-> FALSE]

\* The packet the interface queue hands down when it is released, if any.
QueueHead == Pkt \cup {NONE}

Expired(t) == [mac EXCEPT !.busy = @ \ {t}]

\* The queue hands down a packet; it stays blocked until handle().
SendDown ==
  /\ ~mac.abort /\ ~mac.callback
  /\ \E p \in Pkt : mac' = send(mac, p)

RecvUp ==
  /\ ~mac.abort
  /\ \E f \in Frame, err, weak, longer \in BOOLEAN :
       mac' = recv(mac, f, err, weak, longer)

\* A frame lasts longer than SIFS: one that began late is not complete
\* before the deferral ends.
RecvReady ==
  /\ ~mac.abort /\ "Recv" \in mac.busy
  /\ ~SendDue(mac) /\ ~(mac.late /\ mac.defer = "SIFS")

RecvTimer ==
  /\ RecvReady
  /\ \E nxt \in QueueHead : mac' = recv_timer(Expired("Recv"), nxt)

\* mhSend_ runs as long as the transmission or longer.
SendReady ==
  /\ ~mac.abort /\ "Send" \in mac.busy
  /\ "IF" \notin mac.busy \/ Unanswered(mac)

SendTimer ==
  /\ SendReady
  /\ \E nxt \in QueueHead : mac' = send_timer(Expired("Send"), nxt)

\* The transmission ends (txHandler).
IFTimer ==
  /\ ~mac.abort /\ "IF" \in mac.busy
  /\ mac' = [Expired("IF") EXCEPT !.tx_active = FALSE]

\* A backoff is resumed for at least DIFS, which is longer than SIFS.
BackoffTimer ==
  /\ ~mac.abort /\ mac.backoff = "run"
  /\ mac.defer # "SIFS" /\ "IF" \notin mac.busy
  /\ mac' = backoffHandler([mac EXCEPT !.backoff = "off"])

DeferTimer ==
  /\ ~mac.abort /\ mac.defer # "off"
  /\ mac.defer = "SIFS" => "IF" \notin mac.busy
  /\ mac' = deferHandler([mac EXCEPT !.defer = "off"])

NavTimer ==
  /\ ~mac.abort /\ mac.nav
  /\ mac' = navHandler([mac EXCEPT !.nav = FALSE])

ValidTimer ==
  /\ ~mac.abort /\ "Valid" \in mac.busy
  /\ mac' = validHandler(Expired("Valid"))

\* A peer is done with its packet and numbers the next one (sta_seqno_++ of
\* its own send), which none of this station's deliveries belong to.
PeerNext ==
  /\ ~mac.abort
  /\ \E s \in Peer :
       /\ ~\E f \in Frame : mac.pktRx = f /\ f.src = s
       /\ mac' = [mac EXCEPT !.peerseq[s] = (@ + 1) % SeqMod, !.copies[s] = 0]

Timers == \/ RecvTimer \/ SendTimer \/ IFTimer \/ BackoffTimer
          \/ DeferTimer \/ NavTimer \/ ValidTimer

Next == SendDown \/ RecvUp \/ PeerNext \/ Timers

Spec == Init /\ [][Next]_mac

\* The simulator's scheduler dispatches every timer that stays due.  The
\* first two conjuncts are the weak fairness of RecvTimer and SendTimer with
\* their enabling conditions written out, which TLC evaluates faster.
Fairness ==
  /\ []<>~RecvReady \/ []<><<RecvTimer>>_mac
  /\ []<>~SendReady \/ []<><<SendTimer>>_mac
  /\ WF_mac(IFTimer) /\ WF_mac(NavTimer)
  /\ WF_mac(BackoffTimer) /\ WF_mac(DeferTimer)

\* The service the station implements.
Link == INSTANCE LinkService
          WITH holds <- mac.pktTx, owes <- mac.callback,
               turn <- mac.turn, fate <- mac.fate

-----------------------------------------------------------------------------
(* Properties                                                               *)

\* Types of the station's members.
TypeOK ==
  /\ mac.tx \in {"IDLE", "RTS", "CTS", "SEND", "ACK"}
  /\ mac.rx \in {"IDLE", "RECV", "COLL"}
  /\ mac.busy \subseteq {"Send", "Recv", "IF", "Valid"}
  /\ mac.defer \in {"off", "SIFS", "DIFS"}
  /\ mac.backoff \in {"off", "run", "paused"}
  /\ mac.pktTx \in Pkt \cup {NONE} /\ mac.pktRx \in Frame \cup {NONE}
  /\ mac.pktCTRL \in {NONE, "CTS", "ACK"}
  /\ mac.ssrc \in 0 .. ShortRetryLimit - 1 /\ mac.slrc \in 0 .. LongRetryLimit - 1
  /\ mac.cw \in CWMin .. CWMax /\ mac.fate \in {"none", "sent", "failed"}

\* No assertion of the source ever fails: none of its assert()s on pending
\* packets and timers, and none of the timers' own.
NoAssertionFails == ~mac.abort

\* The backoff timer never counts down while the medium is busy, although
\* set_nav does not look at it.
BackoffNeedsIdle == mac.backoff = "run" => is_idle(mac)

\* A frame that overlaps a transmission of this station's own is marked as
\* lost by the time it has been received, whichever of the two began first.
HalfDuplex == mac.tx_active /\ mac.rx = "RECV" => mac.rxerr

\* While the station owes the queue its handler, some timer is running that
\* will move the pending packet (send: "If we are already deferring, there
\* is no need to reset the Defer timer").
PendingHasTimer ==
  mac.callback => "Send" \in mac.busy \/ mac.defer # "off" \/ mac.backoff # "off"

\* A packet is passed up once, however often its sender repeats it, as long
\* as its sequence number is not the zero that marks an empty cache entry.
DeliveredOnce == \A s \in Peer : mac.peerseq[s] # 0 => mac.copies[s] <= 1

\* The same without the exception: what a cache "used for duplicate
\* detection" promises.
NoDuplicate == \A s \in Peer : mac.copies[s] <= 1

\* A packet starts with a full set of short retries and the smallest
\* contention window, whatever became of the packets before it, also when
\* it is handed down from within the handler of the last one.
FreshStart ==
  [][mac'.callback /\ (~mac.callback \/ mac'.turn # mac.turn)
       => mac'.ssrc = 0 /\ mac'.cw = CWMin]_mac

\* One packet at a time, one fate for each, one call of the queue's handler
\* for each, after its fate is settled, also when the handler re-enters send
\* from within tx_resume: the station implements LinkService.
LinkSafe == Link!SafeSpec

\* The station implements LinkService with its liveness: the queue's handler
\* is called for every packet handed down.
LinkServed == Link!Spec

=============================================================================
