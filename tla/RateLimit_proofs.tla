-------------------------- MODULE RateLimit_proofs --------------------------
(***************************************************************************)
(* The limiter of aodv_socket_send keeps both rates below their limits in  *)
(* every window, and drops no message that they would have allowed: for    *)
(* every limit, window, number of channels and burst.                      *)
(*                                                                         *)
(* The node remembers only the times of its last messages.  The invariant  *)
(* says that these are the end of the history, and that any two messages   *)
(* as far apart in it as the node remembers are a window apart in time.    *)
(***************************************************************************)
EXTENDS RateLimit, SequenceTheorems, FiniteSetTheorems, NaturalsInduction,
        WellFoundedInduction, TLAPS

---------------------------------------------------------------------------
(* The inductive invariant *)

\* How many times aodv_socket_send remembers.
kept(t) == RATELIMIT[t] - 1

\* The last of a history: what fits into rreq_ratel or rerr_ratel.
newest(t, s) == IF Len(s) <= kept(t) THEN s ELSE SubSeq(s, Len(s) - kept(t) + 1, Len(s))

\* The times of k messages sent now.
burst(k) == [i \in 1 .. k |-> now]

RateType ==
  /\ now \in Nat
  /\ ratel \in [Types -> Seq(Nat)]
  /\ sent \in [Types -> Seq(Nat)]
  /\ refused \in [Types -> SUBSET Nat]

Remembered(t) == ratel[t] = newest(t, sent[t])

Ordered(t) ==
  \A i, j \in DOMAIN sent[t] : i <= j => sent[t][i] <= sent[t][j] /\ sent[t][j] <= now

Spaced(t) ==
  \A i \in DOMAIN sent[t] :
    i + kept(t) \in DOMAIN sent[t] => sent[t][i + kept(t)] - sent[t][i] >= Window

\* A message was dropped at this time because of the kept(t) messages up to j,
\* and nothing was sent at this time after them.
Justified(t, time) ==
  \E j \in DOMAIN sent[t] :
    /\ j >= kept(t)
    /\ sent[t][j] <= time
    /\ time - sent[t][j - kept(t) + 1] < Window
    /\ time <= now
    /\ time = now => j = Len(sent[t])

RateInv ==
  /\ RateType
  /\ \A t \in Types : Remembered(t) /\ Ordered(t) /\ Spaced(t)
  /\ \A t \in Types : \A time \in refused[t] : Justified(t, time)
---------------------------------------------------------------------------
(* Lemmas about the operators *)

\* At least one time is remembered.
LEMMA KeptType ==
  ASSUME NEW t \in Types
  PROVE  kept(t) \in Nat /\ kept(t) >= 1 /\ RATELIMIT[t] = kept(t) + 1
BY RateLimitAssumption DEF kept, RATELIMIT, Types

\* The newest times of a history: how many there are, and which.
LEMMA NewestElements ==
  ASSUME NEW t \in Types, NEW s \in Seq(Nat)
  PROVE  /\ newest(t, s) \in Seq(Nat)
         /\ Len(newest(t, s)) = IF Len(s) <= kept(t) THEN Len(s) ELSE kept(t)
         /\ \A i \in 1 .. Len(newest(t, s)) :
              newest(t, s)[i] = s[Len(s) - Len(newest(t, s)) + i]
<1>1. kept(t) \in Nat /\ Len(s) \in Nat
  BY KeptType
<1>2. CASE Len(s) <= kept(t)
  BY <1>1, <1>2 DEF newest
<1>3. CASE Len(s) > kept(t)
  <2> DEFINE a == Len(s) - kept(t) + 1
  <2>1. ~(Len(s) <= kept(t))
    BY <1>1, <1>3
  <2>2. newest(t, s) = SubSeq(s, a, Len(s))
    BY <2>1 DEF newest
  <2>3. a \in Int /\ a >= 1 /\ Len(s) - a + 1 = kept(t) /\ (a <= Len(s) \/ kept(t) = 0)
    BY <1>1, <1>3
  <2> HIDE DEF a
  <2>4. \A i \in a .. Len(s) : s[i] \in Nat
    BY <1>1, <2>3
  <2>5. /\ SubSeq(s, a, Len(s)) \in Seq(Nat)
        /\ Len(SubSeq(s, a, Len(s))) = IF a <= Len(s) THEN Len(s) - a + 1 ELSE 0
        /\ \A i \in 1 .. Len(s) - a + 1 : SubSeq(s, a, Len(s))[i] = s[a + i - 1]
    BY <1>1, <2>3, <2>4, SubSeqProperties
  <2>6. newest(t, s) \in Seq(Nat) /\ Len(newest(t, s)) = kept(t)
    BY <1>1, <2>2, <2>3, <2>5
  <2>7. \A i \in 1 .. kept(t) : newest(t, s)[i] = s[Len(s) - kept(t) + i]
    <3>1. TAKE i \in 1 .. kept(t)
    <3>2. newest(t, s)[i] = s[a + i - 1]
      BY <2>2, <2>3, <2>5
    <3>3. a + i - 1 = Len(s) - kept(t) + i
      BY <1>1 DEF a
    <3> QED BY <3>2, <3>3
  <2> QED BY <1>1, <2>1, <2>6, <2>7
<1> QED BY <1>1, <1>2, <1>3

\* The times of a burst.
LEMMA BurstElements ==
  ASSUME NEW k \in Nat, now \in Nat
  PROVE  burst(k) \in Seq(Nat) /\ Len(burst(k)) = k /\ \A i \in 1 .. k : burst(k)[i] = now
BY DEF burst

\* A history and a burst after it.
LEMMA AppendedElements ==
  ASSUME NEW s \in Seq(Nat), NEW k \in Nat, now \in Nat
  PROVE  /\ s \o burst(k) \in Seq(Nat)
         /\ Len(s \o burst(k)) = Len(s) + k
         /\ \A i \in 1 .. Len(s) : (s \o burst(k))[i] = s[i]
         /\ \A i \in Len(s) + 1 .. Len(s) + k : (s \o burst(k))[i] = now
<1>1. burst(k) \in Seq(Nat) /\ Len(burst(k)) = k /\ \A i \in 1 .. k : burst(k)[i] = now
  BY BurstElements
<1>2. s \o burst(k) \in Seq(Nat) /\ Len(s \o burst(k)) = Len(s) + k
  BY <1>1
<1>3. \A i \in 1 .. Len(s) : (s \o burst(k))[i] = s[i]
  BY <1>1
<1>4. ASSUME NEW i \in Len(s) + 1 .. Len(s) + k PROVE (s \o burst(k))[i] = now
  <2>1. (s \o burst(k))[i] = burst(k)[i - Len(s)]
    BY <1>1
  <2> QED BY <1>1, <2>1
<1> QED BY <1>2, <1>3, <1>4

\* To remember the newest times of a history is enough to know them after a
\* burst: what was forgotten before is not missed.
LEMMA RememberNewest ==
  ASSUME NEW t \in Types, NEW s \in Seq(Nat), NEW k \in Nat, now \in Nat
  PROVE  remember(t, newest(t, s), k) = newest(t, s \o burst(k))
<1> DEFINE n == newest(t, s)
           x == n \o burst(k)
           y == s \o burst(k)
           r == newest(t, x)
           w == newest(t, y)
<1>1. remember(t, n, k) = r
  BY DEF remember, newest, burst, kept, r, x
<1>2. /\ n \in Seq(Nat)
      /\ Len(n) = IF Len(s) <= kept(t) THEN Len(s) ELSE kept(t)
      /\ \A i \in 1 .. Len(n) : n[i] = s[Len(s) - Len(n) + i]
  BY NewestElements
<1> HIDE DEF n
<1>3. /\ x \in Seq(Nat)
      /\ Len(x) = Len(n) + k
      /\ \A i \in 1 .. Len(n) : x[i] = n[i]
      /\ \A i \in Len(n) + 1 .. Len(n) + k : x[i] = now
  BY <1>2, AppendedElements
<1>4. /\ y \in Seq(Nat)
      /\ Len(y) = Len(s) + k
      /\ \A i \in 1 .. Len(s) : y[i] = s[i]
      /\ \A i \in Len(s) + 1 .. Len(s) + k : y[i] = now
  BY AppendedElements
<1> HIDE DEF x, y
<1>5. /\ r \in Seq(Nat)
      /\ Len(r) = IF Len(x) <= kept(t) THEN Len(x) ELSE kept(t)
      /\ \A i \in 1 .. Len(r) : r[i] = x[Len(x) - Len(r) + i]
  BY <1>3, NewestElements
<1>6. /\ w \in Seq(Nat)
      /\ Len(w) = IF Len(y) <= kept(t) THEN Len(y) ELSE kept(t)
      /\ \A i \in 1 .. Len(w) : w[i] = y[Len(y) - Len(w) + i]
  BY <1>4, NewestElements
<1> HIDE DEF r, w
<1>7. kept(t) \in Nat /\ Len(s) \in Nat /\ Len(n) \in Nat
  BY <1>2, KeptType
<1>8. Len(r) = Len(w) /\ Len(r) \in Nat /\ Len(n) <= Len(s) /\ Len(r) <= Len(n) + k
  <2>1. CASE Len(s) <= kept(t)
    <3>1. Len(n) = Len(s)
      BY <1>2, <2>1
    <3> QED BY <1>3, <1>4, <1>5, <1>6, <1>7, <3>1
  <2>2. CASE ~(Len(s) <= kept(t))
    <3>1. Len(n) = kept(t)
      BY <1>2, <2>2
    <3>2. Len(w) = kept(t)
      BY <1>4, <1>6, <1>7, <2>2
    <3>3. Len(r) = kept(t)
      BY <1>3, <1>5, <1>7, <3>1
    <3> QED BY <1>7, <2>2, <3>1, <3>2, <3>3
  <2> QED BY <2>1, <2>2
<1>9. ASSUME NEW i \in 1 .. Len(r) PROVE r[i] = w[i]
  <2> DEFINE a == Len(x) - Len(r) + i
             b == Len(y) - Len(r) + i
  <2>1. r[i] = x[a] /\ w[i] = y[b]
    BY <1>5, <1>6, <1>8
  <2>2. a \in Int /\ b \in Int /\ b = a + (Len(s) - Len(n))
    BY <1>3, <1>4, <1>7, <1>8
  <2>3. 1 <= a /\ a <= Len(n) + k
    BY <1>3, <1>7, <1>8
  <2> HIDE DEF a, b
  <2>4. CASE a <= Len(n)
    <3>1. a \in 1 .. Len(n) /\ b \in 1 .. Len(s)
      BY <1>7, <1>8, <2>2, <2>3, <2>4
    <3>2. n[a] = s[b]
      <4>1. n[a] = s[Len(s) - Len(n) + a]
        BY <1>2, <3>1
      <4>2. Len(s) - Len(n) + a = b
        BY <1>7, <2>2
      <4> QED BY <4>1, <4>2
    <3> QED BY <1>3, <1>4, <2>1, <3>1, <3>2
  <2>5. CASE a > Len(n)
    <3>1. a \in Len(n) + 1 .. Len(n) + k /\ b \in Len(s) + 1 .. Len(s) + k
      BY <1>7, <1>8, <2>2, <2>3, <2>5
    <3> QED BY <1>3, <1>4, <2>1, <3>1
  <2> QED BY <1>7, <2>2, <2>4, <2>5
<1>10. r = w
  BY <1>5, <1>6, <1>8, <1>9, SeqEqual
<1> QED BY <1>1, <1>10 DEF n, r, w, x, y

\* The limit is reached when there are kept(t) messages, the first of the last
\* kept(t) within the window.
LEMMA OverLimit ==
  ASSUME NEW t \in Types, NEW s \in Seq(Nat), now \in Nat
  PROVE  over_limit(t, newest(t, s))
           <=> Len(s) >= kept(t) /\ now - s[Len(s) - kept(t) + 1] < Window
<1>1. kept(t) \in Nat /\ kept(t) >= 1 /\ Len(s) \in Nat /\ RATELIMIT[t] - 1 = kept(t)
  BY KeptType DEF kept
<1>2. /\ Len(newest(t, s)) = IF Len(s) <= kept(t) THEN Len(s) ELSE kept(t)
      /\ \A i \in 1 .. Len(newest(t, s)) :
           newest(t, s)[i] = s[Len(s) - Len(newest(t, s)) + i]
  BY NewestElements
<1>3. full(t, newest(t, s)) <=> Len(s) >= kept(t)
  BY <1>1, <1>2 DEF full
<1>4. ASSUME Len(s) >= kept(t) PROVE newest(t, s)[1] = s[Len(s) - kept(t) + 1]
  <2>1. Len(newest(t, s)) = kept(t)
    BY <1>1, <1>2, <1>4
  <2>2. 1 \in 1 .. Len(newest(t, s))
    BY <1>1, <2>1
  <2> QED BY <1>2, <2>1, <2>2
<1> QED BY <1>3, <1>4 DEF over_limit

\* A nonempty set of natural numbers has a least element.
LEMMA LeastIndex ==
  ASSUME NEW S, S \subseteq Nat, S # {} PROVE \E x \in S : \A y \in S : x <= y
<1> DEFINE R == OpToRel(<, Nat)
<1>1. IsWellFoundedOn(R, Nat)
  BY NatLessThanWellFounded
<1>2. \A x, y \in Nat : <<y, x>> \in R <=> y < x
  BY DEF OpToRel
<1> HIDE DEF R
<1>3. PICK x \in S : \A y \in S : ~(<<y, x>> \in R)
  BY <1>1, WFMin
<1>4. ASSUME NEW y \in S PROVE x <= y
  <2>1. x \in Nat /\ y \in Nat
    BY <1>3
  <2>2. ~(y < x)
    BY <2>1, <1>2, <1>3
  <2> QED BY <2>1, <2>2
<1> QED BY <1>4

---------------------------------------------------------------------------
(* What a window may hold *)

\* The indices of two messages of one window differ by less than kept(t).
LEMMA WindowNarrow ==
  ASSUME RateInv, NEW t \in Types, NEW time \in Nat,
         NEW i \in within(t, time), NEW j \in within(t, time), i <= j
  PROVE  j < i + kept(t)
<1> USE DEF within
<1>1. kept(t) \in Nat /\ kept(t) >= 1 /\ Window \in Nat
  BY KeptType, RateLimitAssumption
<1>2. /\ sent[t] \in Seq(Nat) /\ Len(sent[t]) \in Nat
      /\ i \in 1 .. Len(sent[t]) /\ j \in 1 .. Len(sent[t])
      /\ DOMAIN sent[t] = 1 .. Len(sent[t])
  BY DEF RateInv, RateType
<1>3. sent[t][i] \in Nat /\ sent[t][j] \in Nat
  BY <1>2
<1> SUFFICES ASSUME i + kept(t) <= j PROVE FALSE
  BY <1>1, <1>2
<1> DEFINE m == i + kept(t)
<1>4. m \in 1 .. Len(sent[t]) /\ sent[t][m] \in Nat
  <2>1. i \in Int /\ 1 <= i /\ j \in Int /\ j <= Len(sent[t])
    BY <1>2
  <2>2. m \in 1 .. Len(sent[t])
    BY <1>1, <1>2, <2>1, SMTT(30)
  <2> QED BY <1>2, <2>2, ElementOfSeq
<1>5. sent[t][m] - sent[t][i] >= Window
  BY <1>2, <1>4 DEF RateInv, Spaced
<1>6. sent[t][m] <= sent[t][j]
  BY <1>2, <1>4 DEF RateInv, Ordered
<1>7. sent[t][j] <= time /\ time - sent[t][i] < Window
  OBVIOUS
<1> QED BY <1>1, <1>3, <1>4, <1>5, <1>6, <1>7, SMTT(30)

\* A window holds at most kept(t) messages.
LEMMA WindowBound ==
  ASSUME RateInv, NEW t \in Types, NEW time \in Nat
  PROVE  IsFiniteSet(within(t, time)) /\ Cardinality(within(t, time)) \in 0 .. kept(t)
<1>1. kept(t) \in Nat /\ kept(t) >= 1
  BY KeptType
<1>2. within(t, time) \subseteq Nat
  BY DEF within, RateInv, RateType
<1>3. CASE within(t, time) = {}
  BY <1>1, <1>3, FS_EmptySet
<1>4. CASE within(t, time) # {}
  <2>1. PICK i \in within(t, time) : \A j \in within(t, time) : i <= j
    BY <1>2, <1>4, LeastIndex
  <2> DEFINE b == i + kept(t) - 1
  <2>2. i \in Int /\ b \in Int /\ i <= b /\ b - i + 1 = kept(t)
    BY <1>1, <1>2
  <2>3. within(t, time) \subseteq i .. b
    <3>1. SUFFICES ASSUME NEW j \in within(t, time) PROVE j \in i .. b
      OBVIOUS
    <3>2. j < i + kept(t) /\ i <= j
      BY <2>1, WindowNarrow
    <3> QED BY <1>1, <1>2, <3>2
  <2> HIDE DEF b
  <2>4. IsFiniteSet(i .. b) /\ Cardinality(i .. b) = kept(t)
    <3>1. IsFiniteSet(i .. b) /\ Cardinality(i .. b) = IF i > b THEN 0 ELSE b - i + 1
      BY <2>2, FS_Interval
    <3> QED BY <2>2, <3>1
  <2>5. IsFiniteSet(within(t, time)) /\ Cardinality(within(t, time)) <= Cardinality(i .. b)
    BY <2>3, <2>4, FS_Subset
  <2>6. Cardinality(within(t, time)) \in Nat
    BY <2>5, FS_CardinalityType
  <2> QED BY <1>1, <2>4, <2>5, <2>6
<1> QED BY <1>3, <1>4

\* When a message was dropped the window that ends then holds kept(t) messages.
LEMMA WindowFull ==
  ASSUME RateInv, NEW t \in Types, NEW time \in refused[t]
  PROVE  Cardinality(within(t, time)) = kept(t)
<1>1. kept(t) \in Nat /\ kept(t) >= 1 /\ Window \in Nat /\ time \in Nat
  BY KeptType, RateLimitAssumption DEF RateInv, RateType
<1>2. /\ sent[t] \in Seq(Nat) /\ Len(sent[t]) \in Nat
      /\ DOMAIN sent[t] = 1 .. Len(sent[t])
  BY DEF RateInv, RateType
<1>3. PICK j \in DOMAIN sent[t] :
        /\ j >= kept(t)
        /\ sent[t][j] <= time
        /\ time - sent[t][j - kept(t) + 1] < Window
  BY DEF RateInv, Justified
<1> DEFINE a == j - kept(t) + 1
<1>4. a \in Int /\ j \in Int /\ 1 <= a /\ a <= j /\ j <= Len(sent[t]) /\ j - a + 1 = kept(t)
  <2>1. j \in Int /\ 1 <= j /\ j <= Len(sent[t]) /\ kept(t) <= j
    BY <1>1, <1>2, <1>3
  <2> QED BY <1>1, <2>1, SMTT(30)
<1>5. time - sent[t][a] < Window
  BY <1>3
<1> HIDE DEF a
<1>6. a .. j \subseteq within(t, time)
  <2>1. SUFFICES ASSUME NEW i \in a .. j PROVE i \in within(t, time)
    OBVIOUS
  <2>2. i \in DOMAIN sent[t] /\ a \in DOMAIN sent[t] /\ a <= i /\ i <= j
    BY <1>2, <1>4
  <2>3. sent[t][a] <= sent[t][i] /\ sent[t][i] <= sent[t][j]
    BY <1>3, <2>2 DEF RateInv, Ordered
  <2>4. sent[t][a] \in Nat /\ sent[t][i] \in Nat /\ sent[t][j] \in Nat
    BY <1>2, <1>3, <2>2, ElementOfSeq
  <2>5. sent[t][i] <= time /\ time - sent[t][i] < Window
    BY <1>1, <1>3, <1>5, <2>3, <2>4
  <2> QED BY <2>2, <2>5 DEF within
<1>7. Cardinality(a .. j) = kept(t)
  <2>1. Cardinality(a .. j) = IF a > j THEN 0 ELSE j - a + 1
    BY <1>4, FS_Interval
  <2> QED BY <1>4, <2>1
<1>8. IsFiniteSet(within(t, time)) /\ Cardinality(within(t, time)) \in 0 .. kept(t)
  BY <1>1, WindowBound
<1>9. Cardinality(a .. j) <= Cardinality(within(t, time))
  BY <1>6, <1>8, FS_Subset
<1> QED BY <1>1, <1>7, <1>8, <1>9

\* The invariant implies both properties of the limiter.
LEMMA RateInvImplies == RateInv => RateWithinLimit /\ DroppedOnlyAtLimit
<1> SUFFICES ASSUME RateInv PROVE RateWithinLimit /\ DroppedOnlyAtLimit
  OBVIOUS
<1>1. ASSUME NEW t \in Types, NEW time \in 0 .. now
      PROVE  Cardinality(within(t, time)) < RATELIMIT[t]
  <2>1. time \in Nat
    BY DEF RateInv, RateType
  <2>2. Cardinality(within(t, time)) \in 0 .. kept(t)
    BY <2>1, WindowBound
  <2> QED BY <2>2, KeptType
<1>2. ASSUME NEW t \in Types, NEW time \in refused[t]
      PROVE  Cardinality(within(t, time)) = RATELIMIT[t] - 1
  BY WindowFull DEF kept
<1> QED BY <1>1, <1>2 DEF RateWithinLimit, DroppedOnlyAtLimit

---------------------------------------------------------------------------
(* The steps *)

\* Nothing is sent or refused at first.
LEMMA InitRate == Init => RateInv
<1> SUFFICES ASSUME Init PROVE RateInv
  OBVIOUS
<1>1. RateType
  BY DEF Init, RateType, Types
<1>2. ASSUME NEW t \in Types PROVE Remembered(t) /\ Ordered(t) /\ Spaced(t)
  <2>1. sent[t] = <<>> /\ ratel[t] = <<>>
    BY DEF Init
  <2>2. newest(t, <<>>) = <<>>
    BY KeptType DEF newest
  <2> QED BY <2>1, <2>2 DEF Remembered, Ordered, Spaced
<1>3. \A t \in Types : refused[t] = {}
  BY DEF Init
<1> QED BY <1>1, <1>2, <1>3 DEF RateInv

\* What aodv_socket_send accepts is a window after the message that far back.
LEMMA SendSpaced ==
  ASSUME RateInv, NEW t \in Types, NEW n \in Nat, NEW k \in 0 .. n,
         aodv_socket_send(t, n, k)
  PROVE  /\ sent'[t] = sent[t] \o burst(k)
         /\ \A i \in 1 .. Len(sent[t]) + k :
              i + kept(t) \in 1 .. Len(sent[t]) + k =>
                sent'[t][i + kept(t)] - sent'[t][i] >= Window
<1>1. kept(t) \in Nat /\ kept(t) >= 1 /\ Window \in Nat /\ now \in Nat
  BY KeptType, RateLimitAssumption DEF RateInv, RateType
<1>2. sent[t] \in Seq(Nat) /\ Len(sent[t]) \in Nat /\ ratel[t] = newest(t, sent[t])
  BY DEF RateInv, RateType, Remembered
<1> DEFINE s == sent[t]
           x == s \o burst(k)
<1>3. sent'[t] = x
  BY DEF aodv_socket_send, burst, RateInv, RateType
<1>4. s \in Seq(Nat) /\ Len(s) \in Nat /\ k \in Nat
  BY <1>2
<1>5. \A i \in 1 .. Len(s) :
        i + kept(t) \in 1 .. Len(s) => s[i + kept(t)] - s[i] >= Window
  BY <1>2 DEF RateInv, Spaced
<1> HIDE DEF s
<1>6. /\ x \in Seq(Nat)
      /\ Len(x) = Len(s) + k
      /\ \A i \in 1 .. Len(s) : x[i] = s[i]
      /\ \A i \in Len(s) + 1 .. Len(s) + k : x[i] = now
  BY <1>1, <1>4, AppendedElements
<1> HIDE DEF x
<1>7. ASSUME NEW i \in 1 .. Len(s) + k, i + kept(t) \in 1 .. Len(s) + k
      PROVE  x[i + kept(t)] - x[i] >= Window
  <2>1. CASE i + kept(t) <= Len(s)
    <3>1. i \in 1 .. Len(s) /\ i + kept(t) \in 1 .. Len(s)
      BY <1>1, <1>4, <1>7, <2>1
    <3> QED BY <1>5, <1>6, <3>1
  <2>2. CASE i + kept(t) > Len(s)
    <3> DEFINE j == i + kept(t) - Len(s) - 1
               y == s \o burst(j)
    <3>1. j \in 0 .. k - 1 /\ j \in Nat /\ Len(s) + j = i + kept(t) - 1
      BY <1>1, <1>4, <1>7, <2>2
    <3> HIDE DEF j
    <3>2. ~ over_limit(t, newest(t, y))
      <4>1. ~ over_limit(t, remember(t, ratel[t], j))
        BY <3>1 DEF aodv_socket_send
      <4> QED BY <1>1, <1>2, <1>4, <3>1, <4>1, RememberNewest DEF s
    <3>3. /\ y \in Seq(Nat)
          /\ Len(y) = Len(s) + j
          /\ \A m \in 1 .. Len(s) : y[m] = s[m]
          /\ \A m \in Len(s) + 1 .. Len(s) + j : y[m] = now
      BY <1>1, <1>4, <3>1, AppendedElements
    <3> HIDE DEF y
    <3>4. Len(y) >= kept(t) /\ Len(y) - kept(t) + 1 = i
      BY <1>1, <1>4, <3>1, <3>3
    <3>5. ~(now - y[i] < Window)
      BY <1>1, <3>2, <3>3, <3>4, OverLimit
    <3>6. i \in 1 .. Len(s) + j
      BY <1>1, <1>4, <3>1
    <3>7. y[i] = x[i]
      <4>1. CASE i <= Len(s)
        <5>1. i \in 1 .. Len(s)
          BY <1>4, <4>1
        <5> QED BY <1>6, <3>3, <5>1
      <4>2. CASE i > Len(s)
        <5>1. i \in Len(s) + 1 .. Len(s) + j /\ i \in Len(s) + 1 .. Len(s) + k
          BY <1>4, <3>6, <4>2
        <5> QED BY <1>6, <3>3, <5>1
      <4> QED BY <1>4, <4>1, <4>2
    <3>8. x[i] \in Nat
      BY <1>6, ElementOfSeq
    <3>9. x[i + kept(t)] = now
      <4>1. i + kept(t) \in Len(s) + 1 .. Len(s) + k
        BY <1>1, <1>4, <1>7, <2>2
      <4> QED BY <1>6, <4>1
    <3> QED BY <1>1, <3>5, <3>7, <3>8, <3>9
  <2> QED BY <1>1, <1>4, <2>1, <2>2
<1> QED BY <1>3, <1>7 DEF s, x

\* A message that is refused is refused for the kept(t) messages before it, and
\* one that was refused at this time keeps the rest of this time from being sent.
LEMMA SendJustified ==
  ASSUME RateInv, NEW t \in Types, NEW n \in Nat, NEW k \in 0 .. n,
         aodv_socket_send(t, n, k), now' = now, NEW time \in refused'[t]
  PROVE  Justified(t, time)'
<1>1. kept(t) \in Nat /\ kept(t) >= 1 /\ Window \in Nat \ {0} /\ now \in Nat
  BY KeptType, RateLimitAssumption DEF RateInv, RateType
<1>2. sent[t] \in Seq(Nat) /\ Len(sent[t]) \in Nat /\ ratel[t] = newest(t, sent[t])
  BY DEF RateInv, RateType, Remembered
<1> DEFINE s == sent[t]
           x == s \o burst(k)
<1>3. sent'[t] = x /\ k \in Nat
  BY DEF aodv_socket_send, burst, RateInv, RateType
<1>4. s \in Seq(Nat) /\ Len(s) \in Nat
  BY <1>2
<1>5. /\ x \in Seq(Nat)
      /\ Len(x) = Len(s) + k
      /\ \A i \in 1 .. Len(s) : x[i] = s[i]
      /\ \A i \in Len(s) + 1 .. Len(s) + k : x[i] = now
  BY <1>1, <1>3, <1>4, AppendedElements
<1>6. over_limit(t, newest(t, s)) => k = 0
  <2>1. SUFFICES ASSUME k # 0 PROVE ~ over_limit(t, newest(t, s))
    OBVIOUS
  <2>2. ~ over_limit(t, remember(t, ratel[t], 0))
    BY <1>3, <2>1 DEF aodv_socket_send
  <2>3. remember(t, ratel[t], 0) = newest(t, s \o burst(0))
    BY <1>1, <1>2, RememberNewest
  <2>4. s \o burst(0) = s
    <3> HIDE DEF s
    <3>1. /\ s \o burst(0) \in Seq(Nat) /\ Len(s \o burst(0)) = Len(s) + 0
          /\ \A i \in 1 .. Len(s) : (s \o burst(0))[i] = s[i]
      BY <1>1, <1>4, AppendedElements
    <3> QED BY <1>4, <3>1, SeqEqual
  <2> QED BY <2>2, <2>3, <2>4
<1>7. \A i \in 1 .. Len(x) : sent'[t][i] = x[i]
  BY <1>3
<1>8. k < n => over_limit(t, newest(t, x))
  <2>1. k < n => over_limit(t, remember(t, ratel[t], k))
    BY DEF aodv_socket_send
  <2> QED BY <1>1, <1>2, <1>3, <2>1, RememberNewest
<1>9. DOMAIN sent'[t] = 1 .. Len(x) /\ Len(sent'[t]) = Len(x) /\ Len(x) \in Nat
  BY <1>3, <1>5
<1>10. kept(t)' = kept(t)
  BY DEF kept
<1>11. CASE time \in refused[t]
  <2>1. PICK j \in DOMAIN s :
          /\ j >= kept(t)
          /\ s[j] <= time
          /\ time - s[j - kept(t) + 1] < Window
          /\ time <= now
          /\ time = now => j = Len(s)
    BY <1>11 DEF RateInv, Justified
  <2>2. j \in 1 .. Len(s) /\ j \in Int
    BY <1>4, <2>1
  <2>3. j - kept(t) + 1 \in 1 .. Len(s) /\ j \in 1 .. Len(x)
    <3>1. j >= kept(t) /\ 1 <= j /\ j <= Len(s) /\ Len(x) = Len(s) + k
      BY <1>4, <1>5, <2>1, <2>2
    <3> HIDE DEF s, x
    <3> QED BY <1>1, <1>3, <1>4, <2>2, <3>1
  <2>4. time = now => k = 0
    <3>1. SUFFICES ASSUME time = now PROVE over_limit(t, newest(t, s))
      BY <1>6
    <3>2. Len(s) >= kept(t) /\ now - s[Len(s) - kept(t) + 1] < Window
      BY <2>1, <3>1
    <3> QED BY <1>1, <1>4, <3>2, OverLimit
  <2>5. time = now => j = Len(x)
    BY <1>4, <1>5, <2>1, <2>4
  <2>6. x[j] = s[j] /\ x[j - kept(t) + 1] = s[j - kept(t) + 1]
    BY <1>5, <2>2, <2>3
  <2> HIDE DEF x
  <2> QED BY <1>3, <1>9, <1>10, <2>1, <2>3, <2>5, <2>6 DEF Justified
<1>12. CASE time \notin refused[t]
  <2>1. k < n /\ time = now
    BY <1>12 DEF aodv_socket_send, RateInv, RateType
  <2>2. Len(x) >= kept(t) /\ now - x[Len(x) - kept(t) + 1] < Window
    <3> HIDE DEF x
    <3> QED BY <1>1, <1>5, <1>8, <2>1, OverLimit
  <2>3. Len(x) \in 1 .. Len(x)
    BY <1>1, <1>9, <2>2
  <2>4. x[Len(x)] <= now
    <3>1. CASE k = 0
      <4>1. Len(x) = Len(s) /\ Len(s) \in 1 .. Len(s)
        BY <1>4, <1>5, <2>3, <3>1
      <4>2. s[Len(s)] <= now
        BY <1>4, <4>1 DEF RateInv, Ordered
      <4> QED BY <1>5, <4>1, <4>2
    <3>2. CASE k # 0
      <4>1. Len(x) \in Len(s) + 1 .. Len(s) + k
        BY <1>3, <1>4, <1>5, <3>2
      <4>2. x[Len(x)] = now
        <5> HIDE DEF x
        <5> QED BY <1>5, <4>1
      <4> QED BY <1>1, <4>2
    <3> QED BY <3>1, <3>2
  <2> HIDE DEF x
  <2> QED BY <1>1, <1>3, <1>9, <1>10, <2>1, <2>2, <2>3, <2>4 DEF Justified
<1> QED BY <1>11, <1>12

\* The invariant outlives whatever aodv_socket_send sends and drops.
LEMMA SendKeeps ==
  ASSUME RateInv, NEW t \in Types, NEW n \in Nat, NEW k \in 0 .. n,
         aodv_socket_send(t, n, k), now' = now
  PROVE  RateInv'
<1>1. kept(t) \in Nat /\ now \in Nat /\ RateType /\ k \in Nat
  BY KeptType DEF RateInv, RateType
<1> DEFINE s == sent[t]
           x == s \o burst(k)
<1>2. s \in Seq(Nat) /\ Len(s) \in Nat /\ ratel[t] = newest(t, s)
  BY DEF RateInv, RateType, Remembered
<1>3. /\ x \in Seq(Nat)
      /\ Len(x) = Len(s) + k
      /\ \A i \in 1 .. Len(s) : x[i] = s[i]
      /\ \A i \in Len(s) + 1 .. Len(s) + k : x[i] = now
  BY <1>1, <1>2, AppendedElements
<1>4. remember(t, ratel[t], k) = newest(t, x)
  BY <1>1, <1>2, RememberNewest
<1>5. newest(t, x) \in Seq(Nat)
  BY <1>3, NewestElements
<1>6. ratel' = [ratel EXCEPT ![t] = newest(t, x)] /\ sent' = [sent EXCEPT ![t] = x]
  BY <1>4 DEF aodv_socket_send, burst
<1>7. refused' \in [Types -> SUBSET Nat] /\ \A u \in Types : u # t => refused'[u] = refused[u]
  BY <1>1 DEF aodv_socket_send, RateType
<1>8. RateType'
  BY <1>1, <1>3, <1>5, <1>6, <1>7 DEF RateType
<1>9. \A u \in Types : u # t => sent'[u] = sent[u] /\ ratel'[u] = ratel[u]
  BY <1>1, <1>6 DEF RateType
<1>10. sent'[t] = x /\ ratel'[t] = newest(t, x) /\ DOMAIN x = 1 .. Len(x)
  BY <1>1, <1>3, <1>6 DEF RateType
<1>11. Ordered(t)'
  <2> HIDE DEF x
  <2>1. SUFFICES ASSUME NEW i \in 1 .. Len(x), NEW j \in 1 .. Len(x), i <= j
                 PROVE  x[i] <= x[j] /\ x[j] <= now
    BY <1>10 DEF Ordered
  <2>2. CASE j <= Len(s)
    <3>1. i \in 1 .. Len(s) /\ j \in 1 .. Len(s)
      BY <1>1, <1>2, <1>3, <2>1, <2>2
    <3>2. s[i] <= s[j] /\ s[j] <= now
      BY <1>2, <2>1, <3>1, SMTT(30) DEF RateInv, Ordered
    <3> QED BY <1>3, <3>1, <3>2
  <2>3. CASE j > Len(s)
    <3>1. j \in Len(s) + 1 .. Len(s) + k
      BY <1>1, <1>2, <1>3, <2>3
    <3>2. x[j] = now
      BY <1>3, <3>1
    <3>3. CASE i <= Len(s)
      <4>1. i \in 1 .. Len(s)
        BY <1>2, <3>3
      <4>2. s[i] <= now
        BY <1>2, <4>1 DEF RateInv, Ordered
      <4>3. x[i] = s[i]
        BY <1>3, <4>1
      <4> QED BY <1>1, <3>2, <4>2, <4>3
    <3>4. CASE i > Len(s)
      <4>1. i \in Len(s) + 1 .. Len(s) + k
        BY <1>1, <1>2, <1>3, <3>4
      <4> QED BY <1>1, <1>3, <3>2, <4>1, SMTT(30)
    <3> QED BY <1>2, <3>3, <3>4
  <2> QED BY <1>2, <1>3, <2>2, <2>3
<1>12. Spaced(t)'
  <2>1. \A i \in 1 .. Len(s) + k :
          i + kept(t) \in 1 .. Len(s) + k => sent'[t][i + kept(t)] - sent'[t][i] >= Window
    BY SendSpaced
  <2>2. DOMAIN sent'[t] = 1 .. Len(s) + k
    BY <1>3, <1>10
  <2> QED BY <2>1, <2>2 DEF Spaced, kept
<1>13. Remembered(t)'
  BY <1>10 DEF Remembered, newest, kept
<1>14. ASSUME NEW u \in Types PROVE (Remembered(u) /\ Ordered(u) /\ Spaced(u))'
  <2>1. CASE u = t
    BY <1>11, <1>12, <1>13, <2>1
  <2>2. CASE u # t
    <3>1. Remembered(u) /\ Ordered(u) /\ Spaced(u)
      BY DEF RateInv
    <3>2. sent'[u] = sent[u] /\ ratel'[u] = ratel[u]
      BY <1>9, <2>2
    <3> QED BY <3>1, <3>2 DEF Remembered, Ordered, Spaced, newest, kept
  <2> QED BY <2>1, <2>2
<1>15. ASSUME NEW u \in Types, NEW time \in refused'[u] PROVE Justified(u, time)'
  <2>1. CASE u = t
    BY <1>15, <2>1, SendJustified
  <2>2. CASE u # t
    <3>1. sent'[u] = sent[u] /\ refused'[u] = refused[u]
      BY <1>7, <1>9, <2>2
    <3>2. Justified(u, time)
      BY <3>1 DEF RateInv
    <3> QED BY <3>1, <3>2 DEF Justified, kept
  <2> QED BY <2>1, <2>2
<1> QED BY <1>8, <1>14, <1>15 DEF RateInv

\* A step that sends nothing; time may pass.
LEMMA QuietKeeps ==
  ASSUME RateInv, now' \in {now, now + 1}, UNCHANGED <<ratel, sent, refused>>
  PROVE  RateInv'
<1>1. RateType /\ now \in Nat /\ now' \in Nat /\ now <= now'
  BY DEF RateInv, RateType
<1>2. RateType'
  BY <1>1 DEF RateType
<1>3. ASSUME NEW t \in Types PROVE (Remembered(t) /\ Ordered(t) /\ Spaced(t))'
  <2>1. Remembered(t)' /\ Spaced(t)'
    BY DEF RateInv, Remembered, Spaced, newest, kept
  <2>2. ASSUME NEW i \in DOMAIN sent[t], NEW j \in DOMAIN sent[t], i <= j
        PROVE  sent[t][i] <= sent[t][j] /\ sent[t][j] <= now'
    <3>1. sent[t][i] <= sent[t][j] /\ sent[t][j] <= now
      BY <2>2 DEF RateInv, Ordered
    <3>2. sent[t][j] \in Nat
      BY <1>1, ElementOfSeq DEF RateType
    <3> QED BY <1>1, <3>1, <3>2
  <2>3. Ordered(t)'
    BY <2>2 DEF Ordered
  <2> QED BY <2>1, <2>3
<1>4. ASSUME NEW t \in Types, NEW time \in refused[t] PROVE Justified(t, time)'
  <2>1. PICK j \in DOMAIN sent[t] :
          /\ j >= kept(t)
          /\ sent[t][j] <= time
          /\ time - sent[t][j - kept(t) + 1] < Window
          /\ time <= now
          /\ time = now => j = Len(sent[t])
    BY DEF RateInv, Justified
  <2>2. time \in Nat
    BY <1>1 DEF RateType
  <2>3. time <= now' /\ (time = now' => j = Len(sent[t]))
    BY <1>1, <2>1, <2>2
  <2> QED BY <2>1, <2>3 DEF Justified, kept
<1> QED BY <1>2, <1>3, <1>4 DEF RateInv

\* Every step of a node keeps the invariant.
LEMMA NextRate == RateInv /\ [Next]_vars => RateInv'
<1> SUFFICES ASSUME RateInv, [Next]_vars PROVE RateInv'
  OBVIOUS
<1>1. "RREQ" \in Types /\ "RERR" \in Types /\ Channel_Count \in Nat /\ 1 \in Nat
  BY RateLimitAssumption DEF Types
<1>2. ASSUME NEW d \in Dests, rreq_route_discovery(d) PROVE RateInv'
  <2>1. PICK k \in 0 .. Channel_Count : aodv_socket_send("RREQ", Channel_Count, k)
    BY <1>2 DEF rreq_route_discovery
  <2>2. now' = now
    BY <1>2 DEF rreq_route_discovery
  <2> QED BY <1>1, <2>1, <2>2, SendKeeps
<1>3. ASSUME NEW d \in Dests, route_discovery_timeout(d) PROVE RateInv'
  <2>1. now' = now
    BY <1>3 DEF route_discovery_timeout
  <2>2. CASE \E k \in 0 .. Channel_Count : aodv_socket_send("RREQ", Channel_Count, k)
    BY <1>1, <2>1, <2>2, SendKeeps
  <2>3. CASE UNCHANGED <<ratel, sent, refused>>
    BY <2>1, <2>3, QuietKeeps
  <2> QED BY <1>3, <2>2, <2>3 DEF route_discovery_timeout
<1>4. ASSUME NEW d \in Dests, Answered(d) PROVE RateInv'
  BY <1>4, QuietKeeps DEF Answered
<1>5. CASE rreq_forward
  <2>1. PICK k \in 0 .. Channel_Count : aodv_socket_send("RREQ", Channel_Count, k)
    BY <1>5 DEF rreq_forward
  <2>2. now' = now
    BY <1>5 DEF rreq_forward
  <2> QED BY <1>1, <2>1, <2>2, SendKeeps
<1>6. CASE rerr_send
  <2>1. PICK k \in 0 .. 1 : aodv_socket_send("RERR", 1, k)
    BY <1>6 DEF rerr_send
  <2>2. now' = now
    BY <1>6 DEF rerr_send
  <2> QED BY <1>1, <2>1, <2>2, SendKeeps
<1>7. CASE Tick
  BY <1>7, QuietKeeps DEF Tick
<1>8. CASE UNCHANGED vars
  BY <1>8, QuietKeeps DEF vars
<1> QED BY <1>2, <1>3, <1>4, <1>5, <1>6, <1>7, <1>8 DEF Next

---------------------------------------------------------------------------
(* The theorems *)

\* The times that aodv_socket_send remembers are the end of what was sent, and
\* what it remembers is enough to space the messages of every history.
THEOREM RateInvariance == Spec => []RateInv
<1>1. Init => RateInv
  BY InitRate
<1>2. RateInv /\ [Next]_vars => RateInv'
  BY NextRate
<1> QED BY <1>1, <1>2, PTL DEF Spec

\* In no stretch of a window's length does a node send RREQ_RATELIMIT RREQs or
\* RERR_RATELIMIT RERRs, whatever the limits, the window and the bursts.
THEOREM RateLimited == Spec => []RateWithinLimit
<1>1. RateInv => RateWithinLimit
  BY RateInvImplies
<1> QED BY <1>1, RateInvariance, PTL

\* No RREQ and no RERR is dropped that the limit of its type would have allowed.
THEOREM DropsJustified == Spec => []DroppedOnlyAtLimit
<1>1. RateInv => DroppedOnlyAtLimit
  BY RateInvImplies
<1> QED BY <1>1, RateInvariance, PTL
=============================================================================
