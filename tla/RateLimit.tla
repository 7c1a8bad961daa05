----------------------------- MODULE RateLimit -----------------------------
(* The limits on how often a node sends RREQs and RERRs (aodv_socket_send),   *)
(* under what calls it: discoveries with their retries, forwarded requests    *)
(* and errors.  Time advances in ticks; timers run out when they are due.     *)
EXTENDS Integers, Sequences, FiniteSets

CONSTANTS
  Dests,          \* destinations of discoveries
  Channel_Count,  \* a flood is one RREQ for every channel (3 in the code)
  RREQ_RATELIMIT, RERR_RATELIMIT,  \* 10 in the code
  RREQ_RETRIES,
  Window,         \* 1000 ms
  RING_TRAVERSAL_TIME,  \* 1190 ms for the first flood: longer than the window
  MaxTime, MaxForwards  \* bounds

ASSUME RateLimitAssumption ==
  /\ Channel_Count \in Nat \ {0}
  /\ RREQ_RATELIMIT \in Nat \ {0, 1} /\ RERR_RATELIMIT \in Nat \ {0, 1}
  /\ RREQ_RETRIES \in Nat /\ Window \in Nat \ {0}
  /\ RING_TRAVERSAL_TIME \in Nat /\ RING_TRAVERSAL_TIME > Window

VARIABLES
  now,      \* the clock
  ratel,    \* rreq_ratel and rerr_ratel: when the last messages were sent
  seeks,    \* the seek list: for each destination {} or its one entry
  sent,     \* history: when every message of each type was sent
  refused,  \* history: when messages of each type were dropped
  floods,   \* history: RREQs sent since each discovery began
  forwards  \* requests and errors of others (bounded)

vars == <<now, ratel, seeks, sent, refused, floods, forwards>>

Types == {"RREQ", "RERR"}
RATELIMIT == [t \in Types |-> IF t = "RREQ" THEN RREQ_RATELIMIT ELSE RERR_RATELIMIT]

Init ==
  /\ now = 0 /\ forwards = 0
  /\ ratel = [t \in Types |-> <<>>]
  /\ seeks = [d \in Dests |-> {}]
  /\ sent = [t \in Types |-> <<>>]
  /\ refused = [t \in Types |-> {}]
  /\ floods = [d \in Dests |-> 0]

(* ---- aodv_socket_send ------------------------------------------------------- *)

full_one_more(t, times) == Len(times) = RATELIMIT[t] \* Mutant.
full(t, times) == Len(times) = RATELIMIT[t] - 1

\* Dropped: as many as are remembered were sent, the oldest within the window.
over_limit_last(t, times) == \* Mutant: the newest in place of the oldest.
  full(t, times) /\ now - times[Len(times)] < Window
over_limit(t, times) == full(t, times) /\ now - times[1] < Window

\* k messages sent in a row push out as many of the oldest times.
remember(t, times, k) ==
  LET all == times \o [i \in 1 .. k |-> now]
      kept == RATELIMIT[t] - 1
  IN  IF Len(all) <= kept THEN all ELSE SubSeq(all, Len(all) - kept + 1, Len(all))

\* Of n messages of type t in a row the first k are sent: one that is dropped
\* leaves the times as they are, so that the rest are dropped too.
aodv_socket_send(t, n, k) ==
  /\ \A i \in 0 .. k - 1 : ~ over_limit(t, remember(t, ratel[t], i))
  /\ k < n => over_limit(t, remember(t, ratel[t], k))
  /\ ratel' = [ratel EXCEPT ![t] = remember(t, @, k)]
  /\ sent' = [sent EXCEPT ![t] = @ \o [i \in 1 .. k |-> now]]
  /\ refused' = IF k < n THEN [refused EXCEPT ![t] = @ \cup {now}] ELSE refused

(* ---- what calls it ----------------------------------------------------------- *)

\* rreq_route_discovery: flood on every channel and remember the destination.
rreq_route_discovery(d) ==
  /\ seeks[d] = {}
  /\ \E k \in 0 .. Channel_Count :
       /\ aodv_socket_send("RREQ", Channel_Count, k)
       /\ floods' = [floods EXCEPT ![d] = k]
  /\ seeks' = [seeks EXCEPT ![d] = {[reqs |-> 0, timeout |-> now + RING_TRAVERSAL_TIME]}]
  /\ UNCHANGED <<now, forwards>>

\* route_discovery_timeout: flood again, or give up.
route_discovery_timeout(d) ==
  \E s \in seeks[d] :
    /\ s.timeout = now
    /\ UNCHANGED <<now, forwards>>
    /\ \/ /\ s.reqs < RREQ_RETRIES
          /\ seeks' = [seeks EXCEPT ![d] = {[reqs |-> s.reqs + 1,
                                             timeout |-> now + RING_TRAVERSAL_TIME]}]
          /\ \E k \in 0 .. Channel_Count :
               /\ aodv_socket_send("RREQ", Channel_Count, k)
               /\ floods' = [floods EXCEPT ![d] = @ + k]
       \/ /\ s.reqs >= RREQ_RETRIES
          /\ seeks' = [seeks EXCEPT ![d] = {}]
          /\ UNCHANGED <<ratel, sent, refused, floods>>

\* rreq_forward_with_channel, on every channel.
rreq_forward ==
  /\ forwards < MaxForwards
  /\ forwards' = forwards + 1
  /\ \E k \in 0 .. Channel_Count : aodv_socket_send("RREQ", Channel_Count, k)
  /\ UNCHANGED <<now, seeks, floods>>

\* A RERR of this node, or one passed on.
rerr_send ==
  /\ forwards < MaxForwards
  /\ forwards' = forwards + 1
  /\ \E k \in 0 .. 1 : aodv_socket_send("RERR", 1, k)
  /\ UNCHANGED <<now, seeks, floods>>

\* A reply ends a discovery (seek_list_remove).
Answered(d) ==
  /\ seeks[d] # {}
  /\ seeks' = [seeks EXCEPT ![d] = {}]
  /\ UNCHANGED <<now, ratel, sent, refused, floods, forwards>>

\* Time passes, but not beyond a timer that is due.
Tick ==
  /\ now < MaxTime
  /\ \A d \in Dests : \A s \in seeks[d] : now < s.timeout
  /\ now' = now + 1
  /\ UNCHANGED <<ratel, seeks, sent, refused, floods, forwards>>

Next ==
  \/ \E d \in Dests :
       rreq_route_discovery(d) \/ route_discovery_timeout(d) \/ Answered(d)
  \/ rreq_forward \/ rerr_send \/ Tick

Spec == Init /\ [][Next]_vars

(* ---- properties -------------------------------------------------------------- *)

within(t, time) == {i \in DOMAIN sent[t] : sent[t][i] <= time /\ time - sent[t][i] < Window}

\* aodv_socket_send: in any stretch of a window's length a node sends fewer than
\* RREQ_RATELIMIT RREQs and fewer than RERR_RATELIMIT RERRs, in whatever bursts
\* its own discoveries, retries and forwarded messages come.
RateWithinLimit ==
  \A t \in Types, time \in 0 .. now : Cardinality(within(t, time)) < RATELIMIT[t]

\* aodv_socket_send: a message is dropped only when the limit of its own type is
\* reached in the window that ends with it.
DroppedOnlyAtLimit ==
  \A t \in Types : \A time \in refused[t] : Cardinality(within(t, time)) = RATELIMIT[t] - 1

\* route_discovery_timeout (the field reqs of the seek list): reqs is the number
\* of repeated requests that were sent for the destination, so a discovery has
\* put at least that many RREQs on the air.
ReqsWereSent ==
  \A d \in Dests : \A s \in seeks[d] : s.reqs <= floods[d]
=============================================================================
