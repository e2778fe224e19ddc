----------------------------- MODULE PathProofs -----------------------------
(***************************************************************************)
(* Theorems about an anonymous inference, for every number of clients,     *)
(* calls, hosts, repeats and keys, and about the relay's limiter, for      *)
(* every capacity and refill rate.                                         *)
(***************************************************************************)
EXTENDS Path, SequenceTheorems, WellFoundedInduction, TLAPS

-----------------------------------------------------------------------------
(* The inductive invariant. *)

\* The relay mirrors a document about a key that was made.
MirrorOk == mirror \in [domain : {"bootstrap", "snapshot"}, body : 1..MaxKeys]

\* The call has sealed its request: what it asks for is final.
Sealed(c) == call[c].pc \notin {"idle", "connected", "keyed", "exec"}

\* A call that began has a client.
CallReady ==
    \A c \in Calls : call[c].pc # "idle" => call[c].by \in Clients

\* A capsule under way is that of a call that has sealed it, and the first flight of
\* a capsule bears the name of its call.
FlightReady ==
    \A f \in Flights : flight[f].at # "none" \/ flight[f].reply # None =>
        /\ flight[f].at # "none"
        /\ flight[f].of \in Calls /\ Sealed(flight[f].of)
        /\ f \in Calls => flight[f].of = f

\* The token was spent by this call, on the host it chose.
SpentBy(c) ==
    /\ spent[call[c].by] # None
    /\ spent[call[c].by] = [call |-> c, host |-> call[c].host]

\* A job is at a host only while the token it spent has bought nothing yet, and no
\* other flight has got that far with the token.
HostStage ==
    \A f \in Flights : flight[f].at = "host" =>
        /\ SpentBy(flight[f].of)
        /\ call[flight[f].of].host \in Hosts
        /\ served[call[flight[f].of].by] = <<>>
        /\ \A g \in Flights :
              flight[g].at = "host" /\ call[flight[g].of].by = call[flight[f].of].by => g = f

\* What an answer under way says is true of the capsule it answers.
RepliesTrue ==
    \A f \in Flights : flight[f].reply # None /\ flight[f].reply.status = "ok" =>
        /\ flight[f].reply.resp.answer = <<call[flight[f].of].host, flight[f].of>>
        /\ SpentBy(flight[f].of)

\* A call that has its answer paid for it.
AnswerPaid ==
    \A c \in Calls : call[c].pc = "ok" =>
        call[c].answer = <<call[c].host, c>> /\ SpentBy(c)

\* A call told of an error of the origin was told what its own capsule was answered.
ErrorIsOwn ==
    \A c \in Calls : call[c].pc \in {"conflict", "server"} =>
        \E f \in Flights : flight[f].of = c /\ flight[f].reply = [status |-> call[c].pc]

PathTypeOK ==
    /\ GatewayTypeOK /\ MirrorOk
    /\ call \in [Calls -> Call]
    /\ flight \in [Flights -> Flight]
    /\ host_sk \in [Hosts -> HostKeys]
    /\ spent \in [Clients -> Spend \cup {None}]
    /\ served \in [Clients -> Seq(Calls)]

PathInv ==
    /\ PathTypeOK /\ CallReady /\ FlightReady /\ HostStage /\ RepliesTrue
    /\ ServedOnce /\ AnswerPaid /\ ErrorIsOwn

\* The tokens an address could draw now.
Drawable(i) == IF buckets[i] = None THEN capacity ELSE Refilled(buckets[i])

\* The clock is past everything the relay remembers.
RelayPast ==
    \A i \in Clients :
        /\ buckets[i] # None => buckets[i].last <= now
        /\ \A m \in DOMAIN passed[i] : passed[i][m] <= now

\* The tokens left, with those drawn since any moment, are within the capacity and
\* what was refilled since.
BucketBound ==
    \A i \in Clients : \A m \in DOMAIN passed[i] :
        Len(passed[i]) - m + 1 + Drawable(i)
            <= capacity + refill_per_sec * (now - passed[i][m])

RelayInv == RelayTypeOK /\ RelayPast /\ BucketBound /\ Allowance

-----------------------------------------------------------------------------
(* The relay's limiter. *)

\* One second more refills refill_per_sec tokens more.
LEMMA OneMore ==
    ASSUME NEW t \in Nat, NEW last \in Nat
    PROVE  /\ (t + 1 - last) * refill_per_sec = (t - last) * refill_per_sec + refill_per_sec
           /\ refill_per_sec * (t + 1 - last) = refill_per_sec * (t - last) + refill_per_sec
           /\ last <= t => (t - last) * refill_per_sec \in Nat
BY RelayAssumption

LEMMA RefilledType ==
    ASSUME RelayTypeOK, NEW b \in Bucket, b.last <= now
    PROVE  Refilled(b) \in 0..capacity
<1>1. b.tokens \in 0..capacity /\ b.last \in Nat /\ now \in Nat
    BY RelayAssumption DEF RelayTypeOK, Bucket
<1>2. (now - b.last) * refill_per_sec \in Nat
    BY <1>1, OneMore
<1> QED BY <1>1, <1>2, RelayAssumption DEF Refilled

\* What a request finds is what the address could draw, whether or not its bucket
\* was just forgotten.
LEMMA DrawableType ==
    ASSUME RelayInv, NEW i \in Clients
    PROVE  Drawable(i) \in 0..capacity
BY RefilledType, RelayAssumption DEF RelayInv, RelayTypeOK, RelayPast, Drawable

\* Eviction forgets full buckets and no others.
LEMMA EvictedFacts ==
    ASSUME RelayInv
    PROVE  /\ Evicted(buckets) \in [Clients -> Bucket \cup {None}]
           /\ \A i \in Clients :
                 \/ Evicted(buckets)[i] = buckets[i]
                 \/ /\ Evicted(buckets)[i] = None /\ buckets[i] # None
                    /\ Refilled(buckets[i]) = capacity
           /\ \A i \in Clients : Level(i) = Drawable(i)
<1>1. buckets \in [Clients -> Bucket \cup {None}]
    BY DEF RelayInv, RelayTypeOK
<1>2. /\ Evicted(buckets) \in [Clients -> Bucket \cup {None}]
      /\ \A i \in Clients :
            \/ Evicted(buckets)[i] = buckets[i]
            \/ /\ Evicted(buckets)[i] = None /\ buckets[i] # None
               /\ Refilled(buckets[i]) = capacity
    BY <1>1 DEF Evicted
<1>3. \A i \in Clients : Level(i) = Drawable(i)
    BY <1>2 DEF Level, Drawable
<1> QED BY <1>2, <1>3

\* allow, on an address: the request is let through and one token less is left, or
\* it is not and none was left.
LEMMA AllowKeeps ==
    ASSUME RelayInv, NEW i \in Clients, NEW pass \in BOOLEAN, Allow(i, pass)
    PROVE  RelayInv'
<1> DEFINE L == Drawable(i)
           N == Len(passed[i])
<1>1. /\ now \in 0..MaxTime /\ now \in Nat /\ UNCHANGED now /\ L \in 0..capacity
      /\ passed \in [Clients -> Seq(0..MaxTime)] /\ passed[i] \in Seq(0..MaxTime)
    BY DrawableType, RelayAssumption DEF Allow, RelayInv, RelayTypeOK
<1>2. /\ pass <=> L >= 1
      /\ buckets' = [Evicted(buckets) EXCEPT ![i] =
                        [tokens |-> IF pass THEN L - 1 ELSE L, last |-> now]]
      /\ passed' = [passed EXCEPT ![i] = IF pass THEN Append(@, now) ELSE @]
    BY EvictedFacts DEF Allow
<1>3. PICK t \in 0..capacity : t = IF pass THEN L - 1 ELSE L
    BY <1>1, <1>2, RelayAssumption
<1>4. /\ buckets'[i] = [tokens |-> t, last |-> now] /\ buckets'[i] \in Bucket
      /\ \A j \in Clients : j # i => buckets'[j] = Evicted(buckets)[j]
      /\ buckets' \in [Clients -> Bucket \cup {None}]
  <2>1. [tokens |-> t, last |-> now] \in Bucket
      BY <1>1 DEF Bucket
  <2> QED BY <1>2, <1>3, <2>1, EvictedFacts
<1>5. Drawable(i)' = t
  <2>1. buckets'[i] # None /\ buckets'[i].tokens = t /\ buckets'[i].last = now
      BY <1>4, NoBucket
  <2>2. (now - now) * refill_per_sec = 0
      BY <1>1, RelayAssumption
  <2> QED BY <1>1, <2>1, <2>2, RelayAssumption DEF Drawable, Refilled
<1>6. \A j \in Clients : j # i => Drawable(j)' = Drawable(j)
    BY <1>1, <1>4, EvictedFacts DEF Drawable, Refilled
<1>7. /\ passed' \in [Clients -> Seq(0..MaxTime)]
      /\ \A j \in Clients : j # i => passed'[j] = passed[j]
      /\ N \in Nat /\ DOMAIN passed[i] = 1..N
      /\ pass => /\ Len(passed'[i]) = N + 1 /\ passed'[i][N + 1] = now
                 /\ DOMAIN passed'[i] = 1..(N + 1)
                 /\ \A m \in 1..N : passed'[i][m] = passed[i][m]
      /\ ~pass => passed'[i] = passed[i]
  <2>1. CASE pass
    <3>1. passed'[i] = Append(passed[i], now) /\ \A j \in Clients : j # i => passed'[j] = passed[j]
        BY <1>1, <1>2, <2>1
    <3>2. /\ Append(passed[i], now) \in Seq(0..MaxTime)
          /\ Len(Append(passed[i], now)) = N + 1
          /\ Append(passed[i], now)[N + 1] = now
          /\ \A m \in 1..N : Append(passed[i], now)[m] = passed[i][m]
        BY <1>1, AppendProperties
    <3>3. DOMAIN Append(passed[i], now) = 1..(N + 1)
        BY <3>2, LenProperties
    <3> QED BY <1>1, <1>2, <2>1, <3>1, <3>2, <3>3, LenProperties
  <2>2. CASE ~pass
      BY <1>1, <1>2, <2>2, LenProperties
  <2> QED BY <2>1, <2>2
<1>8. RelayTypeOK'
    BY <1>1, <1>4, <1>7 DEF RelayTypeOK
<1>9. ASSUME NEW j \in Clients, NEW m \in DOMAIN passed'[j]
      PROVE  \/ /\ j = i /\ pass /\ m = N + 1 /\ passed'[j][m] = now
             \/ m \in DOMAIN passed[j] /\ passed'[j][m] = passed[j][m]
    BY <1>1, <1>7, <1>9
<1>10. RelayPast'
  <2>1. \A j \in Clients : buckets'[j] # None => buckets'[j].last <= now'
    <3>1. \A j \in Clients : j # i /\ buckets'[j] # None => buckets'[j] = buckets[j]
        BY <1>4, EvictedFacts
    <3> QED BY <1>1, <1>4, <3>1 DEF RelayInv, RelayPast
  <2>2. \A j \in Clients : \A m \in DOMAIN passed'[j] : passed'[j][m] <= now'
      BY <1>1, <1>9, SMTT(30) DEF RelayInv, RelayPast
  <2> QED BY <2>1, <2>2 DEF RelayPast
<1>11. ASSUME NEW j \in Clients, NEW m \in DOMAIN passed'[j]
       PROVE  /\ m \in 1..Len(passed'[j]) /\ Len(passed'[j]) \in Nat
              /\ refill_per_sec * (now - passed'[j][m]) \in Int
  <2>1. passed'[j] \in Seq(0..MaxTime)
      BY <1>7
  <2>2. m \in 1..Len(passed'[j]) /\ Len(passed'[j]) \in Nat
      BY <1>11, <2>1, LenProperties
  <2>3. passed'[j][m] \in 0..MaxTime
      BY <2>1, <2>2, ElementOfSeq
  <2> QED BY <1>1, <2>2, <2>3, RelayAssumption
<1>12. ASSUME NEW j \in Clients, NEW m \in DOMAIN passed'[j]
       PROVE  Len(passed'[j]) - m + 1 + Drawable(j)'
                 <= capacity + refill_per_sec * (now - passed'[j][m])
  <2>1. CASE j # i \/ ~pass
      BY <1>3, <1>5, <1>6, <1>7, <1>12, <2>1 DEF RelayInv, BucketBound
  <2>2. CASE j = i /\ pass /\ m = N + 1 /\ passed'[j][m] = now
    <3>1. refill_per_sec * (now - now) = 0
        BY <1>1, RelayAssumption
    <3> QED BY <1>1, <1>3, <1>5, <1>7, <2>2, <3>1, RelayAssumption
  <2>3. CASE j = i /\ pass /\ m \in DOMAIN passed[j] /\ passed'[j][m] = passed[j][m]
    <3>1. N - m + 1 + L <= capacity + refill_per_sec * (now - passed[i][m])
        BY <2>3 DEF RelayInv, BucketBound
    <3>2. m \in Nat /\ N \in Nat /\ L \in Nat /\ t = L - 1 /\ Len(passed'[i]) = N + 1
        BY <1>1, <1>3, <1>7, <2>3, RelayAssumption
    <3>3. refill_per_sec * (now - passed[i][m]) \in Int
        BY <1>11, <1>12, <2>3
    <3>4. Len(passed'[i]) - m + 1 + t <= capacity + refill_per_sec * (now - passed[i][m])
        BY <3>1, <3>2, <3>3, RelayAssumption
    <3> QED BY <1>5, <2>3, <3>4
  <2> QED BY <1>9, <1>12, <2>1, <2>2, <2>3
<1>13. BucketBound'
    BY <1>1, <1>12 DEF BucketBound
<1>14. Allowance'
  <2> SUFFICES ASSUME NEW j \in Clients, NEW m \in DOMAIN passed'[j], NEW n \in DOMAIN passed'[j],
                      m <= n
               PROVE  n - m + 1 <= capacity + refill_per_sec * (passed'[j][n] - passed'[j][m])
      BY DEF Allowance
  <2>1. m \in Nat /\ n \in Nat
      BY <1>11
  <2>2. CASE ~(j = i /\ pass)
    <3>1. passed'[j] = passed[j]
        BY <1>7, <2>2
    <3> QED BY <3>1 DEF RelayInv, Allowance
  <2>3. CASE j = i /\ pass /\ n \in 1..N
    <3>1. m \in 1..N
        BY <1>7, <2>1, <2>3
    <3>2. passed'[j][n] = passed[i][n] /\ passed'[j][m] = passed[i][m]
        BY <1>7, <2>3, <3>1
    <3> QED BY <1>7, <2>3, <3>1, <3>2 DEF RelayInv, Allowance
  <2>4. CASE j = i /\ pass /\ n = N + 1
    <3>1. passed'[j][n] = now /\ Len(passed'[j]) = n
        BY <1>7, <2>4
    <3>2. n - m + 1 + t <= capacity + refill_per_sec * (now - passed'[j][m])
        BY <1>5, <1>12, <2>4, <3>1
    <3>3. refill_per_sec * (now - passed'[j][m]) \in Int
        BY <1>11
    <3> QED BY <2>1, <3>1, <3>2, <3>3, RelayAssumption, SMTT(30)
  <2>5. CASE j = i /\ pass
      BY <1>7, <2>1, <2>3, <2>4, <2>5
  <2> QED BY <2>2, <2>5
<1> QED BY <1>8, <1>10, <1>13, <1>14 DEF RelayInv

\* A second passes: at most refill_per_sec tokens more can be drawn.
LEMMA TickKeeps == RelayInv /\ Tick => RelayInv'
<1> SUFFICES ASSUME RelayInv, Tick PROVE RelayInv'
    OBVIOUS
<1>1. /\ now \in Nat /\ now' = now + 1 /\ now' \in 0..MaxTime
      /\ UNCHANGED <<buckets, passed>>
    BY RelayAssumption DEF Tick, RelayInv, RelayTypeOK
<1>2. RelayTypeOK'
    BY <1>1 DEF RelayInv, RelayTypeOK
<1>3. RelayPast'
  <2>1. ASSUME NEW i \in Clients, buckets[i] # None PROVE buckets[i].last <= now'
      BY <1>1, <2>1, RelayAssumption DEF RelayInv, RelayPast, RelayTypeOK, Bucket
  <2>2. ASSUME NEW i \in Clients, NEW m \in DOMAIN passed[i] PROVE passed[i][m] <= now'
    <3>1. passed[i][m] \in 0..MaxTime
        BY <2>2, ElementOfSeq, LenProperties DEF RelayInv, RelayTypeOK
    <3> QED BY <1>1, <2>2, <3>1, RelayAssumption DEF RelayInv, RelayPast
  <2> QED BY <1>1, <2>1, <2>2 DEF RelayPast
<1>4. ASSUME NEW i \in Clients PROVE Drawable(i)' <= Drawable(i) + refill_per_sec
  <2>1. CASE buckets[i] = None
      BY <1>1, <2>1, RelayAssumption DEF Drawable
  <2>2. CASE buckets[i] # None
    <3>1. /\ buckets[i].tokens \in Nat /\ buckets[i].last \in Nat
        BY <2>2, RelayAssumption DEF RelayInv, RelayTypeOK, Bucket
    <3>2. PICK z \in Int : z = (now - buckets[i].last) * refill_per_sec
        BY <1>1, <3>1, RelayAssumption
    <3>3. (now + 1 - buckets[i].last) * refill_per_sec = z + refill_per_sec
        BY <1>1, <3>1, <3>2, OneMore
    <3>4. /\ Drawable(i) = IF buckets[i].tokens + z > capacity THEN capacity
                          ELSE buckets[i].tokens + z
          /\ Drawable(i)' = IF buckets[i].tokens + (z + refill_per_sec) > capacity THEN capacity
                           ELSE buckets[i].tokens + (z + refill_per_sec)
        BY <1>1, <2>2, <3>1, <3>2, <3>3, RelayAssumption DEF Drawable, Refilled
    <3> QED BY <3>1, <3>2, <3>4, RelayAssumption
  <2> QED BY <2>1, <2>2
<1>5. BucketBound'
  <2> SUFFICES ASSUME NEW i \in Clients, NEW m \in DOMAIN passed[i]
               PROVE  Len(passed[i]) - m + 1 + Drawable(i)'
                         <= capacity + refill_per_sec * (now' - passed[i][m])
      BY <1>1 DEF BucketBound
  <2>1. passed[i] \in Seq(0..MaxTime) /\ m \in 1..Len(passed[i]) /\ Len(passed[i]) \in Nat
      BY LenProperties DEF RelayInv, RelayTypeOK
  <2>2. passed[i][m] \in Nat
      BY <2>1, ElementOfSeq, RelayAssumption
  <2>3. PICK z \in Int : z = refill_per_sec * (now - passed[i][m])
      BY <1>1, <2>2, RelayAssumption
  <2>4. refill_per_sec * (now + 1 - passed[i][m]) = z + refill_per_sec
      BY <1>1, <2>2, <2>3, OneMore
  <2>5. Len(passed[i]) - m + 1 + Drawable(i) <= capacity + z
      BY <2>3 DEF RelayInv, BucketBound
  <2>6. Drawable(i) \in Nat /\ Drawable(i)' \in Int
    <3>1. Drawable(i)' \in 0..capacity
      <4>1. CASE buckets[i] = None
          BY <1>1, <4>1, RelayAssumption DEF Drawable
      <4>2. CASE buckets[i] # None
        <5>1. /\ buckets[i].tokens \in 0..capacity /\ buckets[i].last \in Nat
              /\ buckets[i].last <= now /\ buckets[i].last <= now + 1
            BY <1>1, <4>2, RelayAssumption DEF RelayInv, RelayTypeOK, RelayPast, Bucket
        <5>2. PICK u \in Nat : u = now + 1
            BY <1>1
        <5>3. (u - buckets[i].last) * refill_per_sec \in Nat
            BY <5>1, <5>2, OneMore
        <5> QED BY <1>1, <4>2, <5>1, <5>2, <5>3, RelayAssumption DEF Drawable, Refilled
      <4> QED BY <4>1, <4>2
    <3>2. Drawable(i) \in 0..capacity
        BY DrawableType
    <3> QED BY <3>1, <3>2, RelayAssumption
  <2>7. Len(passed[i]) - m + 1 + Drawable(i)' <= capacity + (z + refill_per_sec)
      BY <1>4, <2>1, <2>5, <2>6, RelayAssumption, SMTT(30)
  <2>8. refill_per_sec * (now' - passed[i][m]) = z + refill_per_sec
      BY <1>1, <2>2, <2>4, RelayAssumption
  <2> QED BY <2>7, <2>8
<1>6. Allowance'
    BY <1>1 DEF RelayInv, Allowance
<1> QED BY <1>2, <1>3, <1>5, <1>6 DEF RelayInv

\* A relay that starts knows no address.
LEMMA EmptyRelay ==
    ASSUME now \in 0..MaxTime, buckets = NoBuckets, passed = [i \in Clients |-> <<>>]
    PROVE  RelayInv
BY EmptySeq DEF RelayInv, RelayTypeOK, RelayPast, BucketBound, Allowance, NoBuckets, Bucket

LEMMA StartKeeps == \A blob : RelayInv /\ RelayStarts(blob) => RelayInv'
<1> SUFFICES ASSUME NEW blob, RelayInv, RelayStarts(blob) PROVE RelayInv'
    OBVIOUS
<1>1. /\ now' \in 0..MaxTime
      /\ buckets' = NoBuckets /\ passed' = [i \in Clients |-> <<>>]
    BY RelayAssumption DEF RelayStarts, RelayInv, RelayTypeOK
<1> QED
  BY <1>1, EmptySeq DEF RelayInv, RelayTypeOK, RelayPast, BucketBound, Allowance, NoBuckets, Bucket

LEMMA RelayFrame == RelayInv /\ UNCHANGED relayVars => RelayInv'
BY DEF relayVars, RelayInv, RelayTypeOK, RelayPast, BucketBound, Allowance, Drawable, Refilled

-----------------------------------------------------------------------------
(* Calls and flights. *)

LEMMA PathStart == Init => RelayInv /\ PathInv
<1> SUFFICES ASSUME Init PROVE RelayInv /\ PathInv
    OBVIOUS
<1>1. RelayInv
    BY EmptyRelay, RelayAssumption DEF Init, RelayInit
<1>2. PathTypeOK
  <2>1. GatewayTypeOK /\ MirrorOk
    <3>1. GatewayTypeOK
        BY GatewayAssumption DEF Init, GatewayInit, GatewayTypeOK
    <3>2. 1 \in 1..MaxKeys
        BY GatewayAssumption
    <3>3. PICK domain \in {"bootstrap", "snapshot"} : mirror = [domain |-> domain, body |-> 1]
        BY DEF Init, RelayInit, Signed
    <3> QED BY <3>1, <3>2, <3>3 DEF MirrorOk
  <2>2. NoCall \in Call /\ NoFlight \in Flight
    <3>1. NoCall \in Call
        BY GatewayAssumption DEF NoCall, Call
    <3>2. <<>> \in SentPaths
        BY DEF SentPaths
    <3> QED BY <3>1, <3>2 DEF NoFlight, Flight
  <2> QED BY <2>1, <2>2, PathAssumption, EmptySeq DEF Init, PathTypeOK, HostKeys
<1>3. CallReady /\ FlightReady /\ HostStage /\ RepliesTrue /\ ServedOnce /\ AnswerPaid
      /\ ErrorIsOwn
  <2>1. /\ \A c \in Calls : call[c].pc = "idle"
        /\ \A f \in Flights : flight[f].at = "none" /\ flight[f].reply = None
      BY DEF Init, NoCall, NoFlight
  <2>2. \A i \in Clients : served[i] = <<>> /\ Len(served[i]) = 0
      BY EmptySeq DEF Init
  <2> QED BY <2>1, <2>2 DEF CallReady, FlightReady, HostStage, RepliesTrue, ServedOnce,
          AnswerPaid, ErrorIsOwn
<1> QED BY <1>1, <1>2, <1>3 DEF PathInv

\* Steps that change a call alone: what sealed calls ask for stays.
LEMMA CallStep ==
    ASSUME PathInv, UNCHANGED <<flight, spent, served, host_sk>>,
           GatewayTypeOK', MirrorOk', call' \in [Calls -> Call],
           \A d \in Calls : call'[d].pc # "idle" => call'[d].by \in Clients,
           \A d \in Calls : Sealed(d) =>
               /\ Sealed(d)' /\ call'[d].by = call[d].by /\ call'[d].host = call[d].host,
           \A d \in Calls : call'[d].pc = "ok" =>
               \/ call[d].pc = "ok" /\ call[d].answer = call'[d].answer
               \/ Sealed(d) /\ call'[d].answer = <<call[d].host, d>> /\ SpentBy(d),
           \A d \in Calls : call'[d].pc \in {"conflict", "server"} =>
               \/ call[d].pc = call'[d].pc
               \/ \E f \in Flights :
                     flight[f].of = d /\ flight[f].reply = [status |-> call'[d].pc]
    PROVE  PathInv'
<1>1. PathTypeOK' /\ CallReady'
    BY DEF PathInv, PathTypeOK, CallReady
<1>2. FlightReady'
    BY DEF PathInv, FlightReady
<1>3. ASSUME NEW f \in Flights, flight[f].at # "none" \/ flight[f].reply # None
      PROVE  /\ call'[flight[f].of].by = call[flight[f].of].by
             /\ call'[flight[f].of].host = call[flight[f].of].host
    BY <1>3 DEF PathInv, FlightReady
<1>4. HostStage'
    BY <1>3 DEF PathInv, HostStage, SpentBy
<1>5. RepliesTrue'
    BY <1>3 DEF PathInv, RepliesTrue, SpentBy
<1>6. ServedOnce'
    BY DEF PathInv, ServedOnce
<1>7. AnswerPaid'
  <2> SUFFICES ASSUME NEW d \in Calls, call'[d].pc = "ok"
               PROVE  call'[d].answer = <<call'[d].host, d>> /\ SpentBy(d)'
      BY DEF AnswerPaid
  <2>1. Sealed(d) /\ call'[d].answer = <<call[d].host, d>> /\ SpentBy(d)
      BY DEF Sealed, PathInv, AnswerPaid
  <2> QED BY <2>1 DEF SpentBy
<1>8. ErrorIsOwn'
  <2> SUFFICES ASSUME NEW d \in Calls, call'[d].pc \in {"conflict", "server"}
               PROVE  \E f \in Flights :
                         flight[f].of = d /\ flight[f].reply = [status |-> call'[d].pc]
      BY DEF ErrorIsOwn
  <2>1. CASE call[d].pc = call'[d].pc
    <3>1. PICK f \in Flights : flight[f].of = d /\ flight[f].reply = [status |-> call[d].pc]
        BY <2>1 DEF PathInv, ErrorIsOwn
    <3> QED BY <2>1, <3>1
  <2> QED BY <2>1
<1> QED BY <1>1, <1>2, <1>4, <1>5, <1>6, <1>7, <1>8 DEF PathInv

\* Before it is sealed a call changes as a whole.
LEMMA EarlyStep ==
    ASSUME PathInv, UNCHANGED <<flight, spent, served, host_sk>>, GatewayTypeOK', MirrorOk',
           NEW c \in Calls, ~Sealed(c), NEW r \in Call, call' = [call EXCEPT ![c] = r],
           r.by \in Clients, r.pc \notin {"ok", "conflict", "server"}
    PROVE  PathInv'
<1>1. /\ call' \in [Calls -> Call] /\ call'[c] = r
      /\ \A d \in Calls : d # c => call'[d] = call[d]
    BY DEF PathInv, PathTypeOK
<1>2. \A d \in Calls : Sealed(d) => d # c /\ Sealed(d)'
    BY <1>1 DEF Sealed
<1>3. \A d \in Calls : call'[d].pc # "idle" => call'[d].by \in Clients
    BY <1>1 DEF PathInv, CallReady
<1> QED BY <1>1, <1>2, <1>3, CallStep

\* What a client learns before it seals: the bootstrap, the keys, the snapshot.
LEMMA LearnStep ==
    ASSUME PathInv, NEW c \in Calls,
           \/ \E i \in Clients : FetchBootstrap(c, i)
           \/ \E pass \in BOOLEAN : KeyConfig(c, pass)
           \/ \E pass \in BOOLEAN, h \in Hosts : Snapshot(c, h, pass)
    PROVE  PathInv'
<1>1. call[c] \in Call /\ call \in [Calls -> Call] /\ GatewayTypeOK /\ MirrorOk
    BY DEF PathInv, PathTypeOK
<1>2. ASSUME NEW i \in Clients, FetchBootstrap(c, i) PROVE PathInv'
  <2> DEFINE r == [call[c] EXCEPT !.pc = "connected", !.by = i, !.kc = mirror.body]
  <2>1. mirror.body \in 0..MaxKeys
      BY <1>1, GatewayAssumption DEF MirrorOk
  <2>2. r \in Call /\ r.by \in Clients /\ r.pc = "connected"
      BY <1>1, <2>1 DEF Call
  <2>3. call' = [call EXCEPT ![c] = r]
      BY <1>1, <1>2 DEF FetchBootstrap
  <2>4. UNCHANGED <<flight, spent, served, host_sk>> /\ GatewayTypeOK' /\ MirrorOk' /\ ~Sealed(c)
      BY <1>1, <1>2 DEF FetchBootstrap, relayVars, gatewayVars, originVars, GatewayTypeOK,
         MirrorOk, Sealed
  <2> HIDE DEF r
  <2> QED BY <2>2, <2>3, <2>4, EarlyStep
<1>3. ASSUME NEW pass \in BOOLEAN, NEW path, NEW r \in Call, Get(c, path, pass, r),
             ~Sealed(c), call[c].pc # "idle", r.by = call[c].by, r.pc \notin {"ok", "conflict", "server"}
      PROVE  PathInv'
  <2>1. UNCHANGED <<flight, spent, served, host_sk>> /\ GatewayTypeOK' /\ MirrorOk'
      BY <1>1, <1>3 DEF Get, Allow, gatewayVars, originVars, GatewayTypeOK, MirrorOk
  <2>2. call[c].by \in Clients
      BY <1>3 DEF PathInv, CallReady
  <2>3. CASE call' = [call EXCEPT ![c] = r]
      BY <1>3, <2>1, <2>2, <2>3, EarlyStep
  <2>4. CASE call' = [call EXCEPT ![c].pc = "transport"]
    <3> DEFINE q == [call[c] EXCEPT !.pc = "transport"]
    <3>1. q \in Call /\ q.by = call[c].by /\ q.pc = "transport"
        BY <1>1 DEF Call, Outcomes
    <3>2. call' = [call EXCEPT ![c] = q]
        BY <2>4
    <3> HIDE DEF q
    <3> QED BY <1>3, <2>1, <2>2, <3>1, <3>2, EarlyStep
  <2> QED BY <1>3, <2>3, <2>4 DEF Get
<1>4. ASSUME NEW pass \in BOOLEAN, KeyConfig(c, pass) PROVE PathInv'
  <2> DEFINE r == [call[c] EXCEPT !.pc = "keyed"]
  <2>1. r \in Call /\ r.by = call[c].by /\ r.pc = "keyed"
      BY <1>1 DEF Call
  <2>2. Get(c, KeyConfigPath, pass, r) /\ ~Sealed(c) /\ call[c].pc # "idle"
      BY <1>4 DEF KeyConfig, Sealed
  <2> HIDE DEF r
  <2> QED BY <1>3, <2>1, <2>2
<1>5. ASSUME NEW pass \in BOOLEAN, NEW h \in Hosts, Snapshot(c, h, pass) PROVE PathInv'
  <2> DEFINE r == [call[c] EXCEPT !.pc = "exec", !.host = h, !.host_pk = Publish.body[h]]
  <2>1. Publish.body[h] \in HostKeys
      BY DEF Publish, Signed, PathInv, PathTypeOK
  <2>2. r \in Call /\ r.by = call[c].by /\ r.pc = "exec"
      BY <1>1, <2>1 DEF Call
  <2>3. Get(c, SnapshotPath, pass, r) /\ ~Sealed(c) /\ call[c].pc # "idle"
      BY <1>5 DEF Snapshot, Sealed
  <2> HIDE DEF r
  <2> QED BY <1>3, <2>2, <2>3
<1> QED BY <1>2, <1>4, <1>5

\* What becomes of a call that waits: it has its answer, or lost its connection.
LEMMA OutcomeStep ==
    ASSUME PathInv, NEW c \in Calls,
           ClientLoses(c) \/ \E f \in Flights : ClientReceives(c, f)
    PROVE  PathInv'
<1>1. call[c] \in Call /\ call \in [Calls -> Call] /\ GatewayTypeOK /\ MirrorOk
    BY DEF PathInv, PathTypeOK
<1>2. /\ call[c].pc = "wait" /\ Sealed(c) /\ call[c].by \in Clients
      /\ UNCHANGED <<flight, spent, served, host_sk>> /\ GatewayTypeOK' /\ MirrorOk'
    BY <1>1 DEF ClientLoses, ClientReceives, relayVars, gatewayVars, originVars, GatewayTypeOK,
       MirrorOk, Sealed, PathInv, CallReady
<1>3. ASSUME NEW pc \in Outcomes, NEW a \in (Hosts \X Calls) \cup {None},
             call' = [call EXCEPT ![c].pc = pc, ![c].answer = a],
             pc = "ok" => a = <<call[c].host, c>> /\ SpentBy(c),
             pc \in {"conflict", "server"} =>
                 \E f \in Flights : flight[f].of = c /\ flight[f].reply = [status |-> pc]
      PROVE  PathInv'
  <2>1. /\ call' \in [Calls -> Call]
        /\ call'[c].pc = pc /\ call'[c].answer = a
        /\ call'[c].by = call[c].by /\ call'[c].host = call[c].host
        /\ \A d \in Calls : d # c => call'[d] = call[d]
      BY <1>1, <1>3, ZenonT(60) DEF Call
  <2>2. \A d \in Calls : Sealed(d) => Sealed(d)'
      BY <2>1 DEF Sealed, Outcomes
  <2>3. \A d \in Calls : call'[d].pc # "idle" => call'[d].by \in Clients
      BY <1>2, <2>1 DEF PathInv, CallReady
  <2> QED BY <1>2, <1>3, <2>1, <2>2, <2>3, CallStep
<1>4. CASE ClientLoses(c)
  <2>1. call' = [call EXCEPT ![c].pc = "transport", ![c].answer = @]
      BY <1>1, <1>4 DEF ClientLoses, Call
  <2>2. call[c].answer \in (Hosts \X Calls) \cup {None} /\ "transport" \in Outcomes
      BY <1>1 DEF Call, Outcomes
  <2> QED BY <1>3, <2>1, <2>2
<1>5. ASSUME NEW f \in Flights, ClientReceives(c, f) PROVE PathInv'
  <2> DEFINE a == flight[f].reply
             d == flight[f].of
             pc == Outcome(c, d, a)
  <2>1. a \in Answer /\ a # None /\ d \in Calls
      BY <1>5 DEF ClientReceives, PathInv, PathTypeOK, Flight, FlightReady
  <2>2. /\ pc \in Outcomes
        /\ pc = "ok" => c = d /\ a.status = "ok"
        /\ pc \in {"conflict", "server"} => c = d /\ a = [status |-> pc]
      BY <2>1 DEF Outcome, Outcomes, Answer, OhttpOpens, OhttpSealChunk
  <2>3. pc = "ok" => /\ a.resp.answer = <<call[c].host, c>> /\ SpentBy(c)
                     /\ a.resp.answer \in Hosts \X Calls
      BY <2>1, <2>2 DEF PathInv, RepliesTrue, Answer
  <2>4. pc \in {"conflict", "server"} =>
            \E g \in Flights : flight[g].of = c /\ flight[g].reply = [status |-> pc]
      BY <2>1, <2>2
  <2>5. call' = [call EXCEPT ![c].pc = pc,
                             ![c].answer = IF pc = "ok" THEN a.resp.answer ELSE None]
      BY <1>5 DEF ClientReceives
  <2>6. (IF pc = "ok" THEN a.resp.answer ELSE None) \in (Hosts \X Calls) \cup {None}
      BY <2>3
  <2> HIDE DEF pc
  <2> QED BY <1>3, <2>2, <2>3, <2>4, <2>5, <2>6
<1> QED BY <1>4, <1>5

\* A relay that restarts drops the connections of the calls that wait.
LEMMA RelayRestartStep == PathInv /\ RelayRestart => PathInv'
<1> SUFFICES ASSUME PathInv, RelayRestart PROVE PathInv'
    OBVIOUS
<1>1. call \in [Calls -> Call] /\ GatewayTypeOK
    BY DEF PathInv, PathTypeOK
<1>2. UNCHANGED <<flight, spent, served, host_sk>> /\ GatewayTypeOK' /\ MirrorOk'
    BY <1>1 DEF RelayRestart, RelayStarts, Signed, gatewayVars, originVars, GatewayTypeOK, MirrorOk
<1>3. ASSUME NEW d \in Calls
      PROVE  /\ call'[d] \in Call /\ call'[d].by = call[d].by /\ call'[d].host = call[d].host
             /\ call'[d].answer = call[d].answer
             /\ IF call[d].pc = "wait" THEN call'[d].pc = "transport"
                                       ELSE call'[d].pc = call[d].pc
    BY <1>1 DEF RelayRestart, Call, Outcomes
<1>4. call' \in [Calls -> Call]
    BY <1>3 DEF RelayRestart
<1>5. \A d \in Calls : Sealed(d) => Sealed(d)'
    BY <1>3 DEF Sealed
<1>6. \A d \in Calls : call'[d].pc # "idle" => call'[d].by \in Clients
    BY <1>3 DEF PathInv, CallReady
<1> QED BY <1>2, <1>3, <1>4, <1>5, <1>6, CallStep

\* Steps that leave calls, flights and tokens alone.
LEMMA PathFrame ==
    ASSUME PathInv, UNCHANGED <<call, flight, spent, served>>, GatewayTypeOK', MirrorOk',
           host_sk' \in [Hosts -> HostKeys]
    PROVE  PathInv'
<1>1. PathTypeOK'
    BY DEF PathInv, PathTypeOK
<1>2. CallReady' /\ FlightReady' /\ ErrorIsOwn' /\ ServedOnce'
    BY DEF PathInv, CallReady, FlightReady, Sealed, ErrorIsOwn, ServedOnce
<1>3. HostStage' /\ RepliesTrue' /\ AnswerPaid'
    BY DEF PathInv, HostStage, RepliesTrue, AnswerPaid, SpentBy
<1> QED BY <1>1, <1>2, <1>3 DEF PathInv

\* The errors a call was told of are still there when no answer is taken back.
LEMMA ErrorsStay ==
    ASSUME ErrorIsOwn, UNCHANGED call,
           \A g \in Flights : flight[g].reply # None =>
               flight'[g].reply = flight[g].reply /\ flight'[g].of = flight[g].of
    PROVE  ErrorIsOwn'
<1> SUFFICES ASSUME NEW c \in Calls, call[c].pc \in {"conflict", "server"}
             PROVE  \E f \in Flights :
                       flight'[f].of = c /\ flight'[f].reply = [status |-> call[c].pc]
    BY DEF ErrorIsOwn
<1>1. PICK f \in Flights : flight[f].of = c /\ flight[f].reply = [status |-> call[c].pc]
    BY DEF ErrorIsOwn
<1>2. [status |-> call[c].pc] \in Answer
    BY DEF Answer
<1>3. flight[f].reply # None
    BY <1>1, <1>2, NoAnswer
<1> QED BY <1>1, <1>3

\* The jobs at hosts are as they were when none is new.
LEMMA JobsStay ==
    ASSUME HostStage, UNCHANGED <<call, spent, served>>,
           \A g \in Flights : flight'[g].at = "host" =>
               flight[g].at = "host" /\ flight'[g].of = flight[g].of
    PROVE  HostStage'
<1> SUFFICES ASSUME NEW f \in Flights, flight'[f].at = "host"
             PROVE  /\ SpentBy(flight[f].of) /\ call[flight[f].of].host \in Hosts
                    /\ served[call[flight[f].of].by] = <<>>
                    /\ \A g \in Flights :
                          flight'[g].at = "host"
                          /\ call[flight[g].of].by = call[flight[f].of].by => g = f
    BY DEF HostStage, SpentBy
<1> QED BY DEF HostStage

\* Steps that change flights alone: none gets to a host, and no answer is made up or
\* taken back.
LEMMA FlightStep ==
    ASSUME PathInv, UNCHANGED <<call, spent, served, host_sk>>, GatewayTypeOK', MirrorOk',
           flight' \in [Flights -> Flight],
           \A g \in Flights : flight'[g].at = "host" =>
               flight[g].at = "host" /\ flight'[g].of = flight[g].of,
           \A g \in Flights : flight'[g].at # "none" \/ flight'[g].reply # None =>
               /\ flight'[g].at # "none"
               /\ flight'[g].of \in Calls /\ Sealed(flight'[g].of)
               /\ g \in Calls => flight'[g].of = g,
           \A g \in Flights : flight'[g].reply # None =>
               \/ flight'[g].reply = flight[g].reply /\ flight'[g].of = flight[g].of
               \/ flight'[g].reply.status # "ok",
           \A g \in Flights : flight[g].reply # None =>
               flight'[g].reply = flight[g].reply /\ flight'[g].of = flight[g].of
    PROVE  PathInv'
<1>1. PathTypeOK'
    BY DEF PathInv, PathTypeOK
<1>2. CallReady' /\ AnswerPaid' /\ ServedOnce'
    BY DEF PathInv, CallReady, AnswerPaid, SpentBy, ServedOnce
<1>3. FlightReady'
    BY DEF FlightReady, Sealed
<1>4. HostStage'
    BY JobsStay DEF PathInv
<1>5. RepliesTrue'
  <2> SUFFICES ASSUME NEW f \in Flights, flight'[f].reply # None, flight'[f].reply.status = "ok"
               PROVE  /\ flight'[f].reply.resp.answer
                            = <<call[flight'[f].of].host, flight'[f].of>>
                      /\ SpentBy(flight'[f].of)
      BY DEF RepliesTrue, SpentBy
  <2>1. flight'[f].reply = flight[f].reply /\ flight'[f].of = flight[f].of
      OBVIOUS
  <2> QED BY <2>1 DEF PathInv, RepliesTrue
<1>6. ErrorIsOwn'
    BY ErrorsStay DEF PathInv
<1> QED BY <1>1, <1>2, <1>3, <1>4, <1>5, <1>6 DEF PathInv

\* What Answered does to a flight.
LEMMA AnsweredFacts ==
    ASSUME PathInv, NEW f \in Flights, NEW a \in Answer, Answered(f, a)
    PROVE  /\ flight' \in [Flights -> Flight]
           /\ flight'[f].of = flight[f].of /\ flight'[f].at = "done"
           /\ flight'[f].reply = IF flight[f].reply = None THEN a ELSE flight[f].reply
           /\ flight'[f].reply # None
           /\ \A g \in Flights : g # f => flight'[g] = flight[g]
<1>1. flight \in [Flights -> Flight] /\ flight[f] \in Flight /\ a # None
    BY NoAnswer DEF PathInv, PathTypeOK
<1> QED BY <1>1 DEF Answered, Flight

\* A flight under way ends with an answer that delivers nothing.
LEMMA AnsweredStep ==
    ASSUME PathInv, NEW f \in Flights, NEW a \in Answer, Answered(f, a), flight[f].at # "none",
           UNCHANGED <<atGateway, originVars>>,
           a.status # "ok"
    PROVE  PathInv'
<1>1. /\ flight' \in [Flights -> Flight]
      /\ flight'[f].of = flight[f].of /\ flight'[f].at = "done"
      /\ flight'[f].reply = IF flight[f].reply = None THEN a ELSE flight[f].reply
      /\ flight'[f].reply # None
      /\ \A g \in Flights : g # f => flight'[g] = flight[g]
    BY AnsweredFacts
<1>2. UNCHANGED <<call, spent, served, host_sk>> /\ GatewayTypeOK' /\ MirrorOk'
    BY DEF atGateway, originVars, relayVars, gatewayVars, PathInv, PathTypeOK, GatewayTypeOK,
       MirrorOk
<1>3. \A g \in Flights : flight'[g].at # "none" \/ flight'[g].reply # None =>
          /\ flight'[g].at # "none"
          /\ flight'[g].of \in Calls /\ Sealed(flight'[g].of)
          /\ g \in Calls => flight'[g].of = g
    BY <1>1 DEF PathInv, FlightReady
<1>4. \A g \in Flights : flight[g].reply # None =>
          flight'[g].reply = flight[g].reply /\ flight'[g].of = flight[g].of
    BY <1>1
<1>5. \A g \in Flights : flight'[g].at = "host" =>
          flight[g].at = "host" /\ flight'[g].of = flight[g].of
    BY <1>1
<1>6. \A g \in Flights : flight'[g].reply # None =>
          \/ flight'[g].reply = flight[g].reply /\ flight'[g].of = flight[g].of
          \/ flight'[g].reply.status # "ok"
    BY <1>1
<1> QED BY <1>1, <1>2, <1>3, <1>4, <1>5, <1>6, FlightStep

\* Sealing and sending: the call waits, and its capsule is on its way.
LEMMA SendStep ==
    ASSUME PathInv, NEW c \in Calls, NEW pass \in BOOLEAN,
           ExecSend(c, pass) \/ \E path \in OtherPaths : OtherSend(c, path, pass)
    PROVE  PathInv'
<1>1. call[c] \in Call /\ call \in [Calls -> Call] /\ flight \in [Flights -> Flight]
      /\ GatewayTypeOK /\ MirrorOk /\ c \in Flights
    BY DEF PathInv, PathTypeOK, Flights
<1>2. /\ UNCHANGED <<spent, served, host_sk>> /\ GatewayTypeOK' /\ MirrorOk'
      /\ ~Sealed(c) /\ call[c].pc # "idle"
    BY <1>1 DEF ExecSend, OtherSend, Allow, gatewayVars, originVars, GatewayTypeOK, MirrorOk, Sealed
<1>3. call[c].by \in Clients
    BY <1>2 DEF PathInv, CallReady
<1>4. PICK path \in {ExecPath} \cup OtherPaths :
          call' = [call EXCEPT ![c].pc = IF pass THEN "wait" ELSE "transport", ![c].path = path]
  <2>1. CASE ExecSend(c, pass)
    <3>1. call[c].path \in {ExecPath} \cup OtherPaths
        BY <1>1 DEF Call
    <3>2. call' = [call EXCEPT ![c].pc = IF pass THEN "wait" ELSE "transport",
                               ![c].path = call[c].path]
        BY <1>1, <2>1 DEF ExecSend, Call
    <3> QED BY <3>1, <3>2
  <2>2. CASE \E path \in OtherPaths : OtherSend(c, path, pass)
      BY <2>2 DEF OtherSend
  <2> QED BY <2>1, <2>2
<1> DEFINE r == [call[c] EXCEPT !.pc = IF pass THEN "wait" ELSE "transport", !.path = path]
           k == [NoFlight EXCEPT !.of = c, !.at = "gateway"]
<1>5. /\ r \in Call /\ r.by = call[c].by /\ r.pc = IF pass THEN "wait" ELSE "transport"
      /\ call' = [call EXCEPT ![c] = r]
    BY <1>1, <1>4, ZenonT(60) DEF Call, Outcomes
<1>6. flight' = [flight EXCEPT ![c] = IF pass THEN k ELSE @]
    BY DEF ExecSend, OtherSend
<1>7. k \in Flight /\ k.of = c /\ k.at = "gateway" /\ k.reply = None
    BY DEF NoFlight, Flight, SentPaths
<1> HIDE DEF r, k
<1>8. CASE ~pass
  <2>1. flight' = flight
      BY <1>1, <1>6, <1>8
  <2> QED BY <1>2, <1>3, <1>5, <1>8, <2>1, EarlyStep
<1>9. CASE pass
  <2>1. /\ flight' \in [Flights -> Flight] /\ flight'[c] = k
        /\ \A g \in Flights : g # c => flight'[g] = flight[g]
      BY <1>1, <1>6, <1>7, <1>9
  <2>2. /\ call' \in [Calls -> Call] /\ call'[c] = r /\ r.pc = "wait"
        /\ \A d \in Calls : d # c => call'[d] = call[d]
      BY <1>1, <1>5, <1>9
  <2>3. \A d \in Calls : Sealed(d) => d # c /\ Sealed(d)'
      BY <1>2, <2>2 DEF Sealed
  <2>4. Sealed(c)'
      BY <2>2 DEF Sealed
  <2>5. ASSUME NEW g \in Flights, g # c, flight[g].at # "none" \/ flight[g].reply # None
        PROVE  /\ flight'[g] = flight[g] /\ call'[flight[g].of] = call[flight[g].of]
               /\ flight[g].at # "none"
               /\ flight[g].of \in Calls /\ Sealed(flight[g].of)'
               /\ g \in Calls => flight[g].of = g
      BY <2>1, <2>2, <2>3, <2>5 DEF PathInv, FlightReady
  <2>6. PathTypeOK'
      BY <1>2, <2>1, <2>2 DEF PathInv, PathTypeOK
  <2>7. CallReady' /\ AnswerPaid' /\ ServedOnce'
      BY <1>2, <1>3, <1>5, <2>2 DEF PathInv, CallReady, AnswerPaid, SpentBy, ServedOnce
  <2>8. FlightReady'
    <3> SUFFICES ASSUME NEW g \in Flights, flight'[g].at # "none" \/ flight'[g].reply # None
                 PROVE  /\ flight'[g].at # "none"
                        /\ flight'[g].of \in Calls /\ Sealed(flight[g].of)'
                        /\ g \in Calls => flight'[g].of = g
        BY DEF FlightReady
    <3>1. CASE g = c
        BY <1>7, <2>1, <2>2, <3>1 DEF Sealed
    <3>2. CASE g # c
        BY <2>1, <2>5, <3>2 DEF Sealed
    <3> QED BY <3>1, <3>2
  <2>9. \A g \in Flights : flight'[g].at = "host" => g # c /\ flight[g].at = "host"
      BY <1>7, <2>1
  <2>10. HostStage'
      BY <1>2, <2>5, <2>9, SMTT(30) DEF PathInv, HostStage, SpentBy
  <2>11. \A g \in Flights : flight'[g].reply # None => g # c /\ flight[g].reply # None
      BY <1>7, <2>1
  <2>12. RepliesTrue'
      BY <1>2, <2>5, <2>11 DEF PathInv, RepliesTrue, SpentBy
  <2>13. ErrorIsOwn'
    <3> SUFFICES ASSUME NEW d \in Calls, call'[d].pc \in {"conflict", "server"}
                 PROVE  \E f \in Flights :
                           flight'[f].of = d /\ flight'[f].reply = [status |-> call'[d].pc]
        BY DEF ErrorIsOwn
    <3>1. d # c /\ call'[d] = call[d]
        BY <2>2
    <3>2. PICK f \in Flights : flight[f].of = d /\ flight[f].reply = [status |-> call[d].pc]
        BY <3>1 DEF PathInv, ErrorIsOwn
    <3>3. [status |-> call[d].pc] \in Answer
        BY <3>1 DEF Answer
    <3>4. flight[f].reply # None
        BY <3>2, <3>3, NoAnswer
    <3>5. f # c
        BY <1>2, <3>1, <3>2, <3>4 DEF PathInv, FlightReady
    <3> QED BY <2>1, <3>1, <3>2, <3>5
  <2> QED BY <2>6, <2>7, <2>8, <2>10, <2>12, <2>13 DEF PathInv
<1> QED BY <1>8, <1>9

\* What the capsule of a flight says.
LEMMA InnerFacts ==
    ASSUME NEW f \in Flights
    PROVE  /\ Inner(f).token = call[flight[f].of].by
           /\ Inner(f).host = call[flight[f].of].host
           /\ Inner(f).path = call[flight[f].of].path
           /\ Inner(f).sealed.reply_to = flight[f].of
           /\ Inner(f).sealed.prompt = flight[f].of
BY DEF Inner, Capsule, OhttpEncapsulate, E2eSeal

\* The answers that carry nothing but a status.
LEMMA FailureAnswer ==
    ASSUME NEW s \in {"relay", "conflict", "server"}
    PROVE  \E a \in Answer : a = [status |-> s] /\ a.status = s
<1>1. [status |-> s] \in Answer /\ [status |-> s].status = s
    BY DEF Answer
<1> QED BY <1>1

\* The gateway's part, and the answers of the broker and the host that spend and
\* deliver nothing.
LEMMA HopStep ==
    ASSUME PathInv, NEW f \in Flights,
           \/ \E c \in Calls : Redeliver(f, c)
           \/ GatewayForwards(f) \/ GatewayRefuses(f) \/ GatewayTimesOut(f)
           \/ OtherAnswers(f) \/ BrokerConflict(f) \/ BrokerNoHost(f)
           \/ BrokerRollsBack(f) \/ HostFails(f)
    PROVE  PathInv'
<1>1. flight \in [Flights -> Flight] /\ flight[f] \in Flight /\ GatewayTypeOK /\ MirrorOk
    BY DEF PathInv, PathTypeOK
<1>2. UNCHANGED <<call, spent, served, host_sk>> /\ GatewayTypeOK' /\ MirrorOk'
    BY <1>1 DEF Redeliver, GatewayForwards, GatewayRefuses, GatewayTimesOut, OtherAnswers,
       BrokerConflict, BrokerNoHost, BrokerRollsBack, HostFails, atGateway, originVars, relayVars, gatewayVars,
       GatewayTypeOK, MirrorOk
<1>3. ASSUME NEW k \in Flight, flight' = [flight EXCEPT ![f] = k],
             k.at = "host" => flight[f].at = "host" /\ k.of = flight[f].of,
             k.of \in Calls, Sealed(k.of), f \in Calls => k.of = f,
             k.reply \notin {None, RelayFailed} =>
                 k.reply = flight[f].reply /\ k.of = flight[f].of,
             k.at # "none",
             flight[f].reply # None => k.reply = flight[f].reply /\ k.of = flight[f].of
      PROVE  PathInv'
  <2>1. /\ flight' \in [Flights -> Flight] /\ flight'[f] = k
        /\ \A g \in Flights : g # f => flight'[g] = flight[g]
      BY <1>1, <1>3
  <2>2. \A g \in Flights : flight[g].reply # None =>
            flight'[g].reply = flight[g].reply /\ flight'[g].of = flight[g].of
      BY <1>3, <2>1
  <2>3. \A g \in Flights : flight'[g].at # "none" \/ flight'[g].reply # None =>
            /\ flight'[g].at # "none"
            /\ flight'[g].of \in Calls /\ Sealed(flight'[g].of)
            /\ g \in Calls => flight'[g].of = g
      BY <1>3, <2>1 DEF PathInv, FlightReady
  <2>4. \A g \in Flights : flight'[g].reply # None =>
            \/ flight'[g].reply = flight[g].reply /\ flight'[g].of = flight[g].of
            \/ flight'[g].reply.status # "ok"
      BY <1>3, <2>1 DEF RelayFailed
  <2>5. \A g \in Flights : flight'[g].at = "host" =>
            flight[g].at = "host" /\ flight'[g].of = flight[g].of
      BY <1>3, <2>1
  <2> QED BY <1>2, <2>1, <2>2, <2>3, <2>4, <2>5, FlightStep
<1>4. ASSUME flight[f].at # "none"
      PROVE  flight[f].of \in Calls /\ Sealed(flight[f].of) /\ (f \in Calls => flight[f].of = f)
    BY <1>4 DEF PathInv, FlightReady
<1>5. ASSUME NEW d \in Calls, Redeliver(f, d) PROVE PathInv'
  <2>1. PICK k \in Flight : /\ flight' = [flight EXCEPT ![f] = k]
                             /\ k.of = d /\ k.at = "gateway" /\ k.reply = None
    <3> DEFINE sent == [NoFlight EXCEPT !.of = d, !.at = "gateway"]
    <3>1. sent \in Flight /\ sent.of = d /\ sent.at = "gateway" /\ sent.reply = None
        BY DEF NoFlight, Flight, SentPaths
    <3>2. flight' = [flight EXCEPT ![f] = sent]
        BY <1>5 DEF Redeliver
    <3> HIDE DEF sent
    <3> QED BY <3>1, <3>2
  <2>2. flight[d].at # "none"
      BY <1>5 DEF Redeliver
  <2>3. Sealed(d) /\ f \notin Calls
    <3>1. d \in Flights
        BY DEF Flights
    <3> QED BY <1>5, <2>2, <3>1, PathAssumption DEF Redeliver, PathInv, FlightReady
  <2>4. Sealed(k.of) /\ k.of \in Calls /\ (f \in Calls => k.of = f)
      BY <2>1, <2>3
  <2>5. flight[f].reply = None
      BY <1>5 DEF Redeliver, PathInv, FlightReady
  <2> QED BY <1>3, <2>1, <2>4, <2>5
<1>6. CASE GatewayForwards(f)
  <2> DEFINE p == Normalized(Inner(f).path)
             k == [flight[f] EXCEPT !.sent = p, !.at = "origin"]
  <2>1. flight[f].of \in Calls /\ Sealed(flight[f].of) /\ (f \in Calls => flight[f].of = f)
      BY <1>4, <1>6 DEF GatewayForwards
  <2>2. p \in SentPaths
    <3>1. Inner(f).path \in {ExecPath} \cup OtherPaths
        BY <2>1, InnerFacts DEF PathInv, PathTypeOK, Call
    <3> QED BY <3>1 DEF SentPaths
  <2>3. flight' = [flight EXCEPT ![f].sent = p, ![f].at = "origin"]
      BY <1>6 DEF GatewayForwards
  <2> HIDE DEF p
  <2>4. k \in Flight /\ k.of = flight[f].of /\ k.at = "origin" /\ k.reply = flight[f].reply
      BY <1>1, <2>2 DEF Flight
  <2>5. flight' = [flight EXCEPT ![f] = k]
      BY <1>1, <2>3 DEF Flight
  <2> HIDE DEF k
  <2> QED BY <1>3, <2>1, <2>4, <2>5
<1>7. CASE GatewayTimesOut(f)
  <2> DEFINE k == [flight[f] EXCEPT !.reply = RelayFailed]
  <2>1. RelayFailed \in Answer
      BY DEF RelayFailed, Answer
  <2>2. /\ k \in Flight /\ k.of = flight[f].of /\ k.at = flight[f].at /\ k.reply = RelayFailed
        /\ flight' = [flight EXCEPT ![f] = k] /\ flight[f].at \in {"origin", "host"}
        /\ flight[f].reply = None
      BY <1>1, <1>7, <2>1 DEF GatewayTimesOut, Flight
  <2>3. flight[f].of \in Calls /\ Sealed(flight[f].of) /\ (f \in Calls => flight[f].of = f)
      BY <1>4, <2>2
  <2> HIDE DEF k
  <2> QED BY <1>3, <2>2, <2>3
<1>8. CASE GatewayRefuses(f)
  <2>1. RelayFailed \in Answer /\ RelayFailed.status = "relay"
      BY DEF RelayFailed, Answer
  <2> QED BY <1>8, <2>1, AnsweredStep DEF GatewayRefuses
<1>9. CASE OtherAnswers(f)
  <2>1. ServerError \in Answer /\ ServerError.status = "server"
      BY FailureAnswer DEF ServerError
  <2> QED BY <1>9, <2>1, AnsweredStep DEF OtherAnswers
<1>10. CASE BrokerConflict(f) \/ BrokerRollsBack(f)
  <2>1. Conflict \in Answer /\ Conflict.status = "conflict"
      BY FailureAnswer DEF Conflict
  <2> QED BY <1>10, <2>1, AnsweredStep DEF BrokerConflict, BrokerRollsBack, ForExec
<1>11. CASE BrokerNoHost(f) \/ HostFails(f)
  <2>1. ServerError \in Answer /\ ServerError.status = "server"
      BY FailureAnswer DEF ServerError
  <2> QED BY <1>11, <2>1, AnsweredStep DEF BrokerNoHost, HostFails, ForExec
<1> QED BY <1>5, <1>6, <1>7, <1>8, <1>9, <1>10, <1>11

\* The spend: the token bought nothing before, and no other flight has it at a host.
LEMMA SpendStep ==
    ASSUME PathInv, NEW f \in Flights, BrokerSpends(f)
    PROVE  PathInv'
<1>1. flight \in [Flights -> Flight] /\ flight[f] \in Flight /\ GatewayTypeOK /\ MirrorOk
      /\ spent \in [Clients -> Spend \cup {None}]
    BY DEF PathInv, PathTypeOK
<1>2. UNCHANGED <<call, served, host_sk>> /\ GatewayTypeOK' /\ MirrorOk'
    BY <1>1 DEF BrokerSpends, atGateway, relayVars, gatewayVars, GatewayTypeOK, MirrorOk
<1>3. PICK c \in Calls : flight[f].of = c /\ Sealed(c) /\ (f \in Calls => f = c)
    BY DEF BrokerSpends, ForExec, PathInv, FlightReady
<1>4. PICK i \in Clients : call[c].by = i
    BY <1>3 DEF Sealed, PathInv, CallReady
<1>5. PICK h \in Hosts : call[c].host = h
    BY <1>3, InnerFacts DEF BrokerSpends, HostKnown
<1>6. PICK r \in Spend : r = [call |-> c, host |-> h] /\ r # None
  <2>1. [call |-> c, host |-> h] \in Spend
      BY DEF Spend
  <2> QED BY <2>1, NoSpend
<1>7. /\ spent[i] = None /\ spent' = [spent EXCEPT ![i] = r]
      /\ flight' = [flight EXCEPT ![f].at = "host"]
    BY <1>3, <1>4, <1>5, <1>6, InnerFacts DEF BrokerSpends, Moves
<1>8. /\ flight' \in [Flights -> Flight]
      /\ flight'[f].of = c /\ flight'[f].at = "host" /\ flight'[f].reply = flight[f].reply
      /\ \A g \in Flights : g # f => flight'[g] = flight[g]
    BY <1>1, <1>3, <1>7 DEF Flight
<1>9. /\ spent' \in [Clients -> Spend \cup {None}] /\ spent'[i] = r
      /\ \A j \in Clients : spent[j] # None => j # i /\ spent'[j] = spent[j]
    BY <1>1, <1>7
<1>10. \A d \in Calls : Sealed(d) => call[d].by \in Clients
    BY DEF Sealed, PathInv, CallReady
<1>11. PathTypeOK'
    BY <1>2, <1>8, <1>9 DEF PathInv, PathTypeOK
<1>12. CallReady'
    BY <1>2 DEF PathInv, CallReady
<1>13. \A g \in Flights : flight'[g].of = flight[g].of /\ flight'[g].reply = flight[g].reply
    BY <1>3, <1>8
<1>14. FlightReady'
    BY <1>2, <1>3, <1>8, <1>13 DEF PathInv, FlightReady, Sealed
<1>15. ServedOnce'
    BY <1>2, <1>9 DEF PathInv, ServedOnce
<1>16. \A d \in Calls : Sealed(d) /\ spent[call[d].by] # None =>
          spent'[call[d].by] = spent[call[d].by] /\ call[d].by # i
    BY <1>9, <1>10
<1>17. AnswerPaid'
  <2>1. \A d \in Calls : call[d].pc = "ok" => Sealed(d)
      BY DEF Sealed
  <2> QED BY <1>2, <1>16, <2>1 DEF PathInv, AnswerPaid, SpentBy
<1>22. ErrorIsOwn'
    BY <1>2, <1>13, ErrorsStay DEF PathInv
<1>18. RepliesTrue'
  <2> SUFFICES ASSUME NEW g \in Flights, flight[g].reply # None, flight[g].reply.status = "ok"
               PROVE  /\ flight[g].reply.resp.answer
                            = <<call[flight[g].of].host, flight[g].of>>
                      /\ spent'[call[flight[g].of].by] # None
                      /\ spent'[call[flight[g].of].by]
                            = [call |-> flight[g].of, host |-> call[flight[g].of].host]
      BY <1>2, <1>13 DEF RepliesTrue, SpentBy
  <2>1. flight[g].of \in Calls /\ Sealed(flight[g].of)
      BY DEF PathInv, FlightReady
  <2> QED BY <1>16, <2>1 DEF PathInv, RepliesTrue, SpentBy
<1>19. ASSUME NEW g \in Flights, flight[g].at = "host"
       PROVE  /\ call[flight[g].of].by # i
              /\ spent'[call[flight[g].of].by] = spent[call[flight[g].of].by]
  <2>1. flight[g].of \in Calls /\ Sealed(flight[g].of) /\ spent[call[flight[g].of].by] # None
      BY <1>19 DEF PathInv, FlightReady, HostStage, SpentBy
  <2> QED BY <1>16, <2>1
<1>20. served[i] = <<>>
    BY <1>7 DEF PathInv, ServedOnce
<1>21. HostStage'
  <2> SUFFICES ASSUME NEW g \in Flights, flight'[g].at = "host"
               PROVE  /\ spent'[call[flight[g].of].by] # None
                      /\ spent'[call[flight[g].of].by]
                            = [call |-> flight[g].of, host |-> call[flight[g].of].host]
                      /\ call[flight[g].of].host \in Hosts
                      /\ served[call[flight[g].of].by] = <<>>
                      /\ \A e \in Flights :
                            flight'[e].at = "host" /\ call[flight[e].of].by = call[flight[g].of].by
                               => e = g
      BY <1>2, <1>13 DEF HostStage, SpentBy
  <2>1. CASE g = f
      BY <1>3, <1>4, <1>5, <1>6, <1>8, <1>9, <1>19, <1>20, <2>1
  <2>2. CASE g # f
    <3>1. flight[g].at = "host"
        BY <1>8, <2>2
    <3>2. call[flight[f].of].by = i
        BY <1>3, <1>4
    <3> QED BY <1>8, <1>19, <2>2, <3>1, <3>2, SMTT(30) DEF PathInv, HostStage, SpentBy
  <2> QED BY <2>1, <2>2
<1> QED BY <1>11, <1>12, <1>14, <1>15, <1>17, <1>18, <1>21, <1>22 DEF PathInv

\* The upstream answers: once, and for the call the token was spent on.
LEMMA ServeStep ==
    ASSUME PathInv, NEW f \in Flights, NEW lost \in BOOLEAN, HostServes(f, lost)
    PROVE  PathInv'
<1>1. flight \in [Flights -> Flight] /\ flight[f] \in Flight /\ GatewayTypeOK /\ MirrorOk
      /\ served \in [Clients -> Seq(Calls)]
    BY DEF PathInv, PathTypeOK
<1>2. UNCHANGED <<call, spent, host_sk>> /\ GatewayTypeOK' /\ MirrorOk'
    BY <1>1 DEF HostServes, atGateway, relayVars, gatewayVars, GatewayTypeOK, MirrorOk
<1>3. PICK c \in Calls : flight[f].of = c /\ Sealed(c) /\ (f \in Calls => f = c)
    BY DEF HostServes, PathInv, FlightReady
<1>4. PICK i \in Clients : call[c].by = i
    BY <1>3 DEF Sealed, PathInv, CallReady
<1>5. PICK h \in Hosts : /\ call[c].host = h /\ SpentBy(c) /\ served[i] = <<>>
                         /\ \A g \in Flights :
                               flight[g].at = "host" /\ call[flight[g].of].by = i => g = f
  <2>1. flight[f].at = "host"
      BY DEF HostServes
  <2> QED BY <1>3, <1>4, <2>1 DEF PathInv, HostStage
<1>6. served' = [served EXCEPT ![i] = <<c>>]
  <2>1. served' = [served EXCEPT ![Inner(f).token] = Append(@, flight[f].of)]
      BY DEF HostServes
  <2>2. Inner(f).token = i
      BY <1>3, <1>4, InnerFacts
  <2>3. Append(served[i], flight[f].of) = <<c>>
      BY <1>3, <1>5
  <2> QED BY <1>1, <2>1, <2>2, <2>3
<1>7. /\ served' \in [Clients -> Seq(Calls)] /\ served'[i] = <<c>>
      /\ Len(<<c>>) = 1 /\ <<c>>[1] = c
      /\ \A j \in Clients : j # i => served'[j] = served[j]
    BY <1>1, <1>6
<1>8. PICK a \in Answer : /\ Answered(f, a)
                          /\ a.status = "ok" => a.resp.answer = <<h, c>>
  <2>1. CASE lost
    <3>1. ServerError \in Answer /\ ServerError.status = "server"
        BY FailureAnswer DEF ServerError
    <3> QED BY <2>1, <3>1 DEF HostServes
  <2>2. CASE ~lost
    <3> DEFINE resp == [to |-> c, answer |-> <<h, c>>, last |-> TRUE]
               ok == [status |-> "ok", resp |-> resp]
    <3>1. Answered(f, ok)
        BY <1>3, <1>5, <2>2, InnerFacts DEF HostServes, ResponseSeal
    <3>2. resp \in [to : Calls, answer : Hosts \X Calls, last : BOOLEAN] /\ resp.answer = <<h, c>>
        OBVIOUS
    <3> HIDE DEF resp
    <3>3. ok \in Answer /\ ok.status = "ok" /\ ok.resp = resp
        BY <3>2 DEF Answer
    <3> HIDE DEF ok
    <3> QED BY <3>1, <3>2, <3>3
  <2> QED BY <2>1, <2>2
<1>9. /\ flight' \in [Flights -> Flight]
      /\ flight'[f].of = flight[f].of /\ flight'[f].at = "done"
      /\ flight'[f].reply = IF flight[f].reply = None THEN a ELSE flight[f].reply
      /\ flight'[f].reply # None
      /\ \A g \in Flights : g # f => flight'[g] = flight[g]
    BY <1>8, AnsweredFacts
<1>10. PathTypeOK'
    BY <1>2, <1>7, <1>9 DEF PathInv, PathTypeOK
<1>11. CallReady' /\ AnswerPaid' /\ ErrorIsOwn'
  <2>1. CallReady' /\ AnswerPaid'
      BY <1>2 DEF PathInv, CallReady, AnswerPaid, SpentBy
  <2> QED BY <1>2, <1>9, <2>1, ErrorsStay DEF PathInv
<1>12. FlightReady'
    BY <1>2, <1>3, <1>9 DEF PathInv, FlightReady, Sealed
<1>13. HostStage'
  <2> SUFFICES ASSUME NEW g \in Flights, flight'[g].at = "host"
               PROVE  /\ SpentBy(flight[g].of) /\ call[flight[g].of].host \in Hosts
                      /\ served'[call[flight[g].of].by] = <<>>
                      /\ \A e \in Flights :
                            flight'[e].at = "host" /\ call[flight'[e].of].by = call[flight[g].of].by
                               => e = g
      BY <1>2, <1>9 DEF HostStage, SpentBy
  <2>1. g # f /\ flight[g].at = "host" /\ flight[g].of \in Calls /\ Sealed(flight[g].of)
      BY <1>9 DEF PathInv, FlightReady
  <2>2. call[flight[g].of].by \in Clients /\ call[flight[g].of].by # i
      BY <1>5, <2>1 DEF PathInv, CallReady, Sealed
  <2>3. \A e \in Flights : flight'[e].at = "host" =>
            flight[e].at = "host" /\ flight'[e].of = flight[e].of
      BY <1>9
  <2> QED BY <1>7, <2>1, <2>2, <2>3 DEF PathInv, HostStage
<1>14. RepliesTrue'
  <2> SUFFICES ASSUME NEW g \in Flights, flight'[g].reply # None,
                      flight'[g].reply.status = "ok"
               PROVE  /\ flight'[g].reply.resp.answer
                            = <<call[flight[g].of].host, flight[g].of>>
                      /\ SpentBy(flight[g].of)
      BY <1>2, <1>9 DEF RepliesTrue, SpentBy
  <2>1. CASE flight'[g].reply = flight[g].reply
      BY <2>1 DEF PathInv, RepliesTrue
  <2>2. CASE g = f /\ flight'[g].reply = a
      BY <1>3, <1>5, <1>8, <2>2
  <2> QED BY <1>9, <2>1, <2>2
<1>15. ServedOnce'
  <2>1. spent[i] # None /\ spent[i].call = c
      BY <1>4, <1>5 DEF SpentBy
  <2>2. ASSUME NEW j \in Clients
        PROVE  /\ Len(served'[j]) <= 1
               /\ served'[j] # <<>> => spent[j] # None /\ served'[j][1] = spent[j].call
    <3>1. CASE j = i
      <4>1. Len(served'[i]) = 1 /\ served'[i][1] = c
          BY <1>7
      <4> QED BY <2>1, <3>1, <4>1
    <3>2. CASE j # i
        BY <1>7, <3>2 DEF PathInv, ServedOnce
    <3> QED BY <3>1, <3>2
  <2> QED BY <1>2, <2>2 DEF ServedOnce
<1> QED BY <1>10, <1>11, <1>12, <1>13, <1>14, <1>15 DEF PathInv

\* A gateway that restarts: what was under way there is answered for.
LEMMA GatewayRestartStep == PathInv /\ GatewayRestart => PathInv'
<1> SUFFICES ASSUME PathInv, GatewayRestart PROVE PathInv'
    OBVIOUS
<1>1. flight \in [Flights -> Flight] /\ GatewayTypeOK /\ MirrorOk
    BY DEF PathInv, PathTypeOK
<1>2. UNCHANGED <<call, spent, served, host_sk>> /\ MirrorOk'
    BY <1>1 DEF GatewayRestart, Tick, originVars, MirrorOk
<1>3. GatewayTypeOK'
  <2>1. /\ secret \in 1..MaxKeys /\ key_file \in 0..MaxKeys /\ made \in 1..MaxKeys
        /\ MaxKeys \in Nat \ {0}
      BY <1>1, GatewayAssumption DEF GatewayTypeOK
  <2>2. GatewayStarts
      BY DEF GatewayRestart
  <2>3. CASE key_file # 0
      BY <2>1, <2>2, <2>3 DEF GatewayStarts, GatewayTypeOK
  <2>4. CASE key_file = 0
      BY <2>1, <2>2, <2>4 DEF GatewayStarts, GatewayTypeOK
  <2> QED BY <2>3, <2>4
<1>4. RelayFailed \in Answer /\ RelayFailed.status = "relay" /\ RelayFailed # None
    BY NoAnswer DEF RelayFailed, Answer
<1>5. ASSUME NEW g \in Flights
      PROVE  /\ flight'[g] \in Flight /\ flight'[g].of = flight[g].of
             /\ \/ flight'[g] = flight[g]
                \/ /\ flight[g].at \in {"gateway", "origin", "host"}
                   /\ flight[g].reply = None /\ flight'[g].reply = RelayFailed
                   /\ flight'[g].at = IF flight[g].at = "gateway" THEN "done" ELSE flight[g].at
  <2>1. flight[g] \in Flight
      BY <1>1
  <2>2. CASE flight[g].at \in {"none", "done"} \/ flight[g].reply # None
    <3>1. flight'[g] = flight[g]
        BY <2>2 DEF GatewayRestart
    <3> QED BY <2>1, <3>1
  <2>3. CASE ~(flight[g].at \in {"none", "done"} \/ flight[g].reply # None)
    <3>1. flight'[g] = [flight[g] EXCEPT !.reply = RelayFailed,
                                         !.at = IF @ = "gateway" THEN "done" ELSE @]
        BY <2>3 DEF GatewayRestart
    <3> QED BY <1>4, <2>1, <2>3, <3>1 DEF Flight
  <2> QED BY <2>2, <2>3
<1>6. flight' \in [Flights -> Flight]
    BY <1>5 DEF GatewayRestart
<1>7. \A g \in Flights : flight[g].reply # None =>
          flight'[g].reply = flight[g].reply /\ flight'[g].of = flight[g].of
    BY <1>5
<1>8. \A g \in Flights : flight'[g].at # "none" \/ flight'[g].reply # None =>
          /\ flight'[g].at # "none"
          /\ flight'[g].of \in Calls /\ Sealed(flight'[g].of)
          /\ g \in Calls => flight'[g].of = g
  <2> SUFFICES ASSUME NEW g \in Flights, flight'[g].at # "none" \/ flight'[g].reply # None
               PROVE  (flight[g].at # "none" \/ flight[g].reply # None) /\ flight'[g].at # "none"
      BY <1>5 DEF PathInv, FlightReady
  <2> QED BY <1>5 DEF PathInv, FlightReady
<1>9. \A g \in Flights : flight'[g].at = "host" =>
          flight[g].at = "host" /\ flight'[g].of = flight[g].of
    BY <1>5
<1>10. \A g \in Flights : flight'[g].reply # None =>
          \/ flight'[g].reply = flight[g].reply /\ flight'[g].of = flight[g].of
          \/ flight'[g].reply.status # "ok"
    BY <1>4, <1>5
<1> QED BY <1>2, <1>3, <1>6, <1>7, <1>8, <1>9, <1>10, FlightStep

\* Every step keeps the invariant of calls, flights and tokens,
LEMMA PathStep == PathInv /\ [Next]_vars => PathInv'
<1> SUFFICES ASSUME PathInv, [Next]_vars PROVE PathInv'
    OBVIOUS
<1>1. GatewayTypeOK /\ MirrorOk /\ host_sk \in [Hosts -> HostKeys]
    BY DEF PathInv, PathTypeOK
<1>2. CASE UNCHANGED vars \/ (Tick /\ UNCHANGED <<gatewayVars, pathVars>>)
  <2>1. /\ UNCHANGED <<call, flight, spent, served>> /\ GatewayTypeOK' /\ MirrorOk'
        /\ host_sk' \in [Hosts -> HostKeys]
      BY <1>1, <1>2 DEF vars, relayVars, gatewayVars, pathVars, Tick, GatewayTypeOK, MirrorOk
  <2> QED BY <2>1, PathFrame
<1>3. ASSUME NEW h \in Hosts, HostRekeys(h) PROVE PathInv'
  <2>1. host_sk' \in [Hosts -> HostKeys]
    <3>1. host_sk[h] + 1 \in HostKeys
        BY <1>1, <1>3, PathAssumption DEF HostRekeys, HostKeys
    <3> QED BY <1>1, <1>3, <3>1 DEF HostRekeys
  <2>2. UNCHANGED <<call, flight, spent, served>> /\ GatewayTypeOK' /\ MirrorOk'
      BY <1>1, <1>3 DEF HostRekeys, Tick, gatewayVars, GatewayTypeOK, MirrorOk
  <2> QED BY <2>1, <2>2, PathFrame
<1>4. ASSUME NEW c \in Calls, NEW pass \in BOOLEAN,
             \/ KeyConfig(c, pass) \/ (\E h \in Hosts : Snapshot(c, h, pass))
             \/ ExecSend(c, pass) \/ (\E path \in OtherPaths : OtherSend(c, path, pass))
      PROVE  PathInv'
    BY <1>4, LearnStep, SendStep
<1>5. ASSUME NEW c \in Calls, NEW i \in Clients, FetchBootstrap(c, i) PROVE PathInv'
    BY <1>5, LearnStep
<1>6. ASSUME NEW c \in Calls, ClientLoses(c) \/ \E f \in Flights : ClientReceives(c, f)
      PROVE  PathInv'
    BY <1>6, OutcomeStep
<1>7. ASSUME NEW f \in Flights,
             \/ \E c \in Calls : Redeliver(f, c)
             \/ GatewayForwards(f) \/ GatewayRefuses(f) \/ GatewayTimesOut(f)
             \/ OtherAnswers(f) \/ BrokerConflict(f) \/ BrokerNoHost(f)
           \/ BrokerRollsBack(f) \/ HostFails(f)
      PROVE  PathInv'
    BY <1>7, HopStep
<1>8. ASSUME NEW f \in Flights, BrokerSpends(f) PROVE PathInv'
    BY <1>8, SpendStep
<1>9. ASSUME NEW f \in Flights, HostServes(f, TRUE) \/ HostServes(f, FALSE) PROVE PathInv'
    BY <1>9, ServeStep
<1>10. CASE GatewayRestart
    BY <1>10, GatewayRestartStep
<1>11. CASE RelayRestart
    BY <1>11, RelayRestartStep
<1> QED BY <1>2, <1>3, <1>4, <1>5, <1>6, <1>7, <1>8, <1>9, <1>10, <1>11 DEF Next

\* and that of the limiter, whichever call the request is for.
LEMMA RelayStep == RelayInv /\ PathInv /\ [Next]_vars => RelayInv'
<1> SUFFICES ASSUME RelayInv, PathInv, [Next]_vars PROVE RelayInv'
    OBVIOUS
<1>1. CASE Tick
    BY <1>1, TickKeeps
<1>2. CASE \E blob : RelayStarts(blob)
    BY <1>2, StartKeeps
<1>3. CASE UNCHANGED relayVars
    BY <1>3, RelayFrame
<1>4. ASSUME NEW c \in Calls, NEW pass \in BOOLEAN, call[c].pc # "idle", Allow(call[c].by, pass)
      PROVE  RelayInv'
  <2>1. PICK i \in Clients : i = call[c].by
      BY <1>4 DEF PathInv, CallReady
  <2> QED BY <1>4, <2>1, AllowKeeps
<1>5. ASSUME NEW c \in Calls, NEW pass \in BOOLEAN,
             \/ KeyConfig(c, pass) \/ (\E h \in Hosts : Snapshot(c, h, pass))
             \/ ExecSend(c, pass) \/ (\E path \in OtherPaths : OtherSend(c, path, pass))
      PROVE  RelayInv'
  <2>1. call[c].pc # "idle" /\ Allow(call[c].by, pass)
      BY <1>5 DEF KeyConfig, Snapshot, ExecSend, OtherSend, Get
  <2> QED BY <1>4, <2>1
<1>6. ASSUME NEW c \in Calls,
             \/ ClientLoses(c) \/ (\E i \in Clients : FetchBootstrap(c, i))
             \/ (\E f \in Flights : ClientReceives(c, f) \/ Redeliver(f, c))
      PROVE  UNCHANGED relayVars
    BY <1>6 DEF ClientLoses, FetchBootstrap, ClientReceives, Redeliver
<1>7. ASSUME NEW f \in Flights,
             \/ GatewayForwards(f) \/ GatewayRefuses(f) \/ GatewayTimesOut(f)
             \/ OtherAnswers(f) \/ BrokerSpends(f) \/ BrokerConflict(f) \/ BrokerNoHost(f)
             \/ BrokerRollsBack(f)
             \/ HostServes(f, TRUE) \/ HostServes(f, FALSE) \/ HostFails(f)
      PROVE  UNCHANGED relayVars
    BY <1>7 DEF GatewayForwards, GatewayRefuses, GatewayTimesOut, OtherAnswers, BrokerSpends,
       BrokerConflict, BrokerNoHost, BrokerRollsBack, HostServes, HostFails, atGateway
<1>8. ASSUME GatewayRestart \/ \E h \in Hosts : HostRekeys(h) PROVE Tick
    BY <1>8 DEF GatewayRestart, HostRekeys
<1>9. CASE RelayRestart
    BY <1>2, <1>9 DEF RelayRestart
<1>10. CASE UNCHANGED vars
    BY <1>3, <1>10 DEF vars
<1> QED BY <1>1, <1>3, <1>5, <1>6, <1>7, <1>8, <1>9, <1>10 DEF Next

LEMMA PathInvariant == Spec => [](RelayInv /\ PathInv)
<1>1. RelayInv /\ PathInv /\ [Next]_vars => (RelayInv /\ PathInv)'
    BY PathStep, RelayStep
<1> QED BY <1>1, PathStart, PTL DEF Spec

-----------------------------------------------------------------------------
(* The path that is checked is the path that is sent. *)

Before == {pair \in Nat \X Nat : pair[1] < pair[2]}

\* Induction, for want of a rule the provers can apply: a set of numbers that is not
\* empty has a least one.
LEMMA Least ==
    ASSUME NEW T, T \subseteq Nat, T # {}
    PROVE  \E m \in T : \A k \in T : m <= k
<1>1. IsWellFoundedOn(Before, Nat)
    BY NatLessThanWellFounded DEF OpToRel, Before
<1>2. PICK m \in T : \A k \in T : ~ (<<k, m>> \in Before)
    BY <1>1, WFMin
<1>3. ASSUME NEW k \in T PROVE m <= k
  <2>1. m \in Nat /\ k \in Nat
      OBVIOUS
  <2>2. <<k, m>> \in Nat \X Nat /\ <<k, m>>[1] = k /\ <<k, m>>[2] = m
      BY <2>1
  <2>3. ~(k < m)
      BY <2>2, <1>2 DEF Before
  <2> QED BY <2>1, <2>3
<1> QED BY <1>3

\* The parser leaves a path of plain segments as it is, however long: what it has
\* read of it is the path up to there.
LEMMA PlainPath ==
    ASSUME NEW path, path \in Seq(Range(path)), Range(path) \cap (Rewritten \cup Dots) = {}
    PROVE  Normalized(path) = path
<1> DEFINE n == Len(path)
           Reads(g) == g = [i \in 0..n |-> IF i = 0 THEN <<>> ELSE Resolved(g[i - 1], path[i])]
           whole == [i \in 0..n |-> SubSeq(path, 1, i)]
           upTo == CHOOSE g : Reads(g)
<1>0. n \in Nat /\ DOMAIN path = 1..n
    OBVIOUS
<1>1. ASSUME NEW i \in 1..n, NEW acc PROVE Resolved(acc, path[i]) = Append(acc, path[i])
  <2>1. path[i] \in Range(path)
      BY <1>0 DEF Range
  <2>2. path[i] \notin {"%2e%2e", "", ".", ".."}
      BY <2>1 DEF Rewritten, Dots
  <2> QED BY <2>2 DEF Resolved
<1>2. \A i \in 1..n : Append(SubSeq(path, 1, i - 1), path[i]) = SubSeq(path, 1, i)
    BY <1>0
<1>3. SubSeq(path, 1, 0) = <<>> /\ SubSeq(path, 1, n) = path
    OBVIOUS
<1>4. Reads(whole)
  <2>1. \A i \in 0..n : whole[i] = IF i = 0 THEN <<>> ELSE Resolved(whole[i - 1], path[i])
    <3>1. ASSUME NEW i \in 1..n PROVE whole[i] = Resolved(whole[i - 1], path[i])
      <4>1. i \in 0..n /\ i - 1 \in 0..n
          BY <1>0
      <4> QED BY <4>1, <1>1, <1>2
    <3>2. whole[0] = <<>>
        BY <1>0, <1>3
    <3>3. \A i \in 0..n : i = 0 \/ i \in 1..n
        BY <1>0
    <3> HIDE DEF whole
    <3> QED BY <3>1, <3>2, <3>3
  <2> QED BY <2>1
<1>5. Reads(upTo)
    BY <1>4, Zenon
<1>6. Normalized(path) = upTo[n]
    BY DEF Normalized
<1> HIDE DEF upTo
<1>7. \A i \in 0..n : upTo[i] = SubSeq(path, 1, i)
  <2> DEFINE Off == {i \in 0..n : upTo[i] # SubSeq(path, 1, i)}
  <2>1. SUFFICES ASSUME Off # {} PROVE FALSE
      OBVIOUS
  <2>2. PICK m \in Off : \A k \in Off : m <= k
    <3>1. Off \subseteq Nat
        BY <1>0
    <3> HIDE DEF Off
    <3> QED BY <3>1, <2>1, Least
  <2>3. m # 0
      BY <1>0, <1>3, <1>5
  <2>4. m \in 1..n /\ m - 1 \in 0..n /\ m - 1 \notin Off
      BY <1>0, <2>2, <2>3
  <2>5. upTo[m] = Resolved(upTo[m - 1], path[m])
      BY <1>5, <2>4, <2>3
  <2>6. upTo[m - 1] = SubSeq(path, 1, m - 1)
      BY <2>4
  <2> QED BY <2>2, <2>4, <2>5, <2>6, <1>1, <1>2
<1> QED BY <1>0, <1>3, <1>6, <1>7

LEMMA AllowedIsPlain ==
    ASSUME NEW path, path \in Seq(Range(path)), Forwardable(path)
    PROVE  /\ Normalized(path) = path
           /\ \E prefix \in allowed_prefixes : IsPrefix(prefix.segs, path)
<1>1. Normalized(path) = path
    BY PlainPath DEF Forwardable, PathAllowed
<1>2. PICK prefix \in allowed_prefixes : Covers(prefix, path)
    BY DEF Forwardable, PathAllowed
<1> QED BY <1>1, <1>2 DEF Covers, IsStrictPrefix

\* What a flight sent on is what the parser made of the path of its call, which
\* passed the check and does not change any more.
SentReady ==
    \A f \in Flights : flight[f].sent # <<>> =>
        /\ flight[f].of \in Calls /\ Sealed(flight[f].of)
        /\ Forwardable(call[flight[f].of].path)
        /\ flight[f].sent = Normalized(call[flight[f].of].path)

\* What a call asks for is final once its request is sealed.
LEMMA SealedIsFinal ==
    ASSUME PathInv, [Next]_vars, NEW c \in Calls, Sealed(c)
    PROVE  Sealed(c)' /\ call'[c].path = call[c].path
<1>1. call \in [Calls -> Call] /\ flight \in [Flights -> Flight]
    BY DEF PathInv, PathTypeOK
<1>2. CASE UNCHANGED call
    BY <1>2 DEF Sealed
<1>3. ASSUME NEW d \in Calls, ~Sealed(d), NEW r, call' = [call EXCEPT ![d] = r]
      PROVE  UNCHANGED call[c]
    BY <1>1, <1>3
<1>4. UNCHANGED call[c] => Sealed(c)' /\ call'[c].path = call[c].path
    BY DEF Sealed
<1>5. ASSUME NEW d \in Calls, \E i \in Clients : FetchBootstrap(d, i)
      PROVE  UNCHANGED call[c]
    BY <1>1, <1>5 DEF FetchBootstrap, Sealed
<1>6. ASSUME NEW d \in Calls, NEW pass \in BOOLEAN,
             KeyConfig(d, pass) \/ \E h \in Hosts : Snapshot(d, h, pass)
      PROVE  UNCHANGED call[c]
    BY <1>1, <1>6 DEF KeyConfig, Snapshot, Get, Sealed
<1>7. ASSUME NEW d \in Calls, NEW pass \in BOOLEAN,
             ExecSend(d, pass) \/ \E path \in OtherPaths : OtherSend(d, path, pass)
      PROVE  UNCHANGED call[c]
    BY <1>1, <1>7 DEF ExecSend, OtherSend, Sealed
<1>8. ASSUME NEW d \in Calls, NEW f \in Flights, ClientReceives(d, f)
      PROVE  Sealed(c)' /\ call'[c].path = call[c].path
  <2> DEFINE outcome == Outcome(d, flight[f].of, flight[f].reply)
  <2>1. flight[f].reply \in Answer
      BY <1>1, <1>8 DEF ClientReceives, Flight
  <2>2. flight[f].reply.status \in {"relay", "conflict", "server", "ok"}
      BY <2>1 DEF Answer
  <2>3. outcome \in Outcomes
      BY <2>2 DEF Outcome, Outcomes
  <2> HIDE DEF outcome
  <2>4. \E a : call' = [call EXCEPT ![d].pc = outcome, ![d].answer = a]
      BY <1>8 DEF ClientReceives, outcome
  <2> QED BY <1>1, <2>3, <2>4 DEF Sealed, Outcomes, Call
<1>9. ASSUME NEW d \in Calls, ClientLoses(d)
      PROVE  Sealed(c)' /\ call'[c].path = call[c].path
    BY <1>1, <1>9 DEF ClientLoses, Sealed, Call
<1>10. CASE RelayRestart
    BY <1>1, <1>10 DEF RelayRestart, Sealed, Call
<1>11. ASSUME NEW f \in Flights,
              \/ \E d \in Calls : Redeliver(f, d)
              \/ GatewayForwards(f) \/ GatewayRefuses(f) \/ GatewayTimesOut(f)
              \/ OtherAnswers(f) \/ BrokerSpends(f) \/ BrokerConflict(f) \/ BrokerNoHost(f)
             \/ BrokerRollsBack(f)
              \/ HostServes(f, TRUE) \/ HostServes(f, FALSE) \/ HostFails(f)
       PROVE  UNCHANGED call
    BY <1>11 DEF Redeliver, GatewayForwards, GatewayRefuses, GatewayTimesOut, OtherAnswers,
       BrokerSpends, BrokerConflict, BrokerNoHost, BrokerRollsBack, HostServes, HostFails, atGateway
<1>12. CASE \/ UNCHANGED vars \/ GatewayRestart \/ (\E h \in Hosts : HostRekeys(h))
            \/ Tick /\ UNCHANGED <<gatewayVars, pathVars>>
    BY <1>2, <1>12 DEF vars, pathVars, GatewayRestart, HostRekeys
<1> QED BY <1>2, <1>4, <1>5, <1>6, <1>7, <1>8, <1>9, <1>10, <1>11, <1>12 DEF Next

\* Only the gateway sends a flight on; everybody else leaves its path alone, or starts
\* it anew.
LEMMA SentByGateway ==
    ASSUME PathInv, [Next]_vars, NEW f \in Flights,
           ~GatewayForwards(f)
    PROVE  \/ flight'[f].sent = <<>>
           \/ flight'[f].sent = flight[f].sent /\ flight'[f].of = flight[f].of
<1>1. flight \in [Flights -> Flight] /\ Calls \subseteq Flights
    BY DEF PathInv, PathTypeOK, Flights
<1>2. CASE UNCHANGED flight
    BY <1>2
<1>3. ASSUME NEW d \in Calls, NEW pass \in BOOLEAN,
             \/ ExecSend(d, pass) \/ (\E path \in OtherPaths : OtherSend(d, path, pass))
      PROVE  \/ flight'[f].sent = <<>>
             \/ flight'[f].sent = flight[f].sent /\ flight'[f].of = flight[f].of
    BY <1>1, <1>3, ZenonT(60) DEF ExecSend, OtherSend, NoFlight
<1>4. ASSUME NEW d \in Calls, NEW g \in Flights, Redeliver(g, d)
      PROVE  \/ flight'[f].sent = <<>>
             \/ flight'[f].sent = flight[f].sent /\ flight'[f].of = flight[f].of
    BY <1>1, <1>4 DEF Redeliver, NoFlight
<1>5. ASSUME NEW g \in Flights, GatewayForwards(g)
      PROVE  UNCHANGED flight[f]
    BY <1>1, <1>5 DEF GatewayForwards
<1>6. ASSUME NEW g \in Flights, NEW at, NEW reply,
             flight' = [flight EXCEPT ![g].at = at, ![g].reply = reply]
      PROVE  flight'[f].sent = flight[f].sent /\ flight'[f].of = flight[f].of
    BY <1>1, <1>6 DEF Flight
<1>7. ASSUME NEW g \in Flights, (\E at : Moves(g, at)) \/ (\E answer : Answered(g, answer))
      PROVE  flight'[f].sent = flight[f].sent /\ flight'[f].of = flight[f].of
    BY <1>1, <1>7 DEF Moves, Answered, Flight
<1>8. ASSUME NEW g \in Flights,
             \/ GatewayRefuses(g) \/ GatewayTimesOut(g)
             \/ OtherAnswers(g) \/ BrokerSpends(g) \/ BrokerConflict(g) \/ BrokerNoHost(g)
             \/ BrokerRollsBack(g)
             \/ HostServes(g, TRUE) \/ HostServes(g, FALSE) \/ HostFails(g)
      PROVE  flight'[f].sent = flight[f].sent /\ flight'[f].of = flight[f].of
  <2>1. CASE GatewayTimesOut(g)
      BY <1>1, <2>1 DEF GatewayTimesOut, Flight
  <2> QED BY <1>7, <1>8, <2>1 DEF GatewayRefuses, OtherAnswers, BrokerSpends, BrokerConflict,
         BrokerNoHost, BrokerRollsBack, HostServes, HostFails
<1>9. CASE GatewayRestart
    BY <1>1, <1>9 DEF GatewayRestart, Flight
<1>10. ASSUME NEW d \in Calls,
              \/ ClientLoses(d) \/ (\E i \in Clients : FetchBootstrap(d, i))
              \/ (\E g \in Flights : ClientReceives(d, g))
              \/ \E pass \in BOOLEAN :
                    KeyConfig(d, pass) \/ \E h \in Hosts : Snapshot(d, h, pass)
       PROVE  UNCHANGED flight
    BY <1>10 DEF ClientLoses, FetchBootstrap, ClientReceives, KeyConfig, Snapshot, Get
<1>11. CASE \/ UNCHANGED vars \/ RelayRestart \/ (\E h \in Hosts : HostRekeys(h))
            \/ Tick /\ UNCHANGED <<gatewayVars, pathVars>>
    BY <1>2, <1>11 DEF vars, pathVars, RelayRestart, HostRekeys
<1> QED BY <1>2, <1>3, <1>4, <1>5, <1>8, <1>9, <1>10, <1>11 DEF Next

LEMMA SentStep == PathInv /\ SentReady /\ [Next]_vars => SentReady'
<1> SUFFICES ASSUME PathInv, SentReady, [Next]_vars, NEW f \in Flights, flight'[f].sent # <<>>
             PROVE  \E c \in Calls :
                       /\ flight'[f].of = c /\ Sealed(c)'
                       /\ Forwardable(call'[c].path)
                       /\ flight'[f].sent = Normalized(call'[c].path)
    BY DEF SentReady, Sealed
<1>1. \E c \in Calls :
         /\ flight'[f].of = c /\ Sealed(c)
         /\ Forwardable(call[c].path)
         /\ flight'[f].sent = Normalized(call[c].path)
  <2>1. CASE GatewayForwards(f)
    <3>1. flight \in [Flights -> Flight]
        BY DEF PathInv, PathTypeOK
    <3>2. flight[f].of \in Calls /\ Sealed(flight[f].of)
        BY <2>1 DEF GatewayForwards, PathInv, FlightReady
    <3>3. flight'[f].of = flight[f].of /\ flight'[f].sent = Normalized(Inner(f).path)
        BY <2>1, <3>1 DEF GatewayForwards, Flight
    <3>4. Forwardable(Inner(f).path) /\ Inner(f).path = call[flight[f].of].path
        BY <2>1, InnerFacts DEF GatewayForwards
    <3> QED BY <3>2, <3>3, <3>4
  <2>2. CASE ~GatewayForwards(f)
      BY <2>2, SentByGateway DEF SentReady
  <2> QED BY <2>1, <2>2
<1> QED BY <1>1, SealedIsFinal

-----------------------------------------------------------------------------
(* The theorems. *)

\* Every reachable state is well typed: calls, flights, the relay's buckets and the
\* gateway's keys.
THEOREM PathTyped == Spec => []TypeOK
<1>1. RelayInv /\ PathInv => TypeOK
    BY DEF RelayInv, PathInv, PathTypeOK, TypeOK
<1> QED BY <1>1, PathInvariant, PTL

\* A call that ends well holds its own host's answer to its own prompt, for a token
\* it spent there itself, and a call told of an error of the origin was told what its
\* own capsule was answered, however capsules are repeated and answers mixed up
\* (exec_with_host, round_trip, exec).  A 409 does not tell whether the token is
\* spent, and neither does the theorem.
THEOREM AnswersAreOwn == Spec => []AnswerIsOwn
<1>1. PathInv => AnswerIsOwn
    BY DEF PathInv, AnswerPaid, ErrorIsOwn, SpentBy, AnswerIsOwn
<1> QED BY <1>1, PathInvariant, PTL

\* However often a token is tried, repeated or retried, one upstream run at most is
\* made for it, for the call that spent it (exec, serve_sealed).
THEOREM TokensServeOnce == Spec => []ServedOnce
<1>1. PathInv => ServedOnce
    BY DEF PathInv
<1> QED BY <1>1, PathInvariant, PTL

\* The limiter holds for every capacity, rate, number of addresses and limit of
\* buckets: an address draws no more than its capacity and what was refilled in
\* any stretch of time (allow, and the eviction of idle buckets).
THEOREM LimiterHolds == Spec => []Allowance
<1>1. RelayInv => Allowance
    BY DEF RelayInv
<1> QED BY <1>1, PathInvariant, PTL

\* Whatever the gateway asks of the origin is the path that was checked, at or below a
\* listed prefix: no path, however long and however written, is read one way by the
\* check and another way by the URL parser (path_allowed, process).
THEOREM PathsAreSentAsChecked == Spec => []SentAsChecked
<1>1. Init => SentReady
    BY DEF Init, SentReady, NoFlight
<1>2. ASSUME PathInv, SentReady PROVE SentAsChecked
  <2>1. ASSUME NEW f \in Flights, flight[f].sent # <<>>
        PROVE  /\ flight[f].sent = Inner(f).path
               /\ \E prefix \in allowed_prefixes : IsPrefix(prefix.segs, flight[f].sent)
    <3>1. call[flight[f].of].path \in Seq(Range(call[flight[f].of].path))
      <4>1. ExecPath \in Seq(Range(ExecPath))
        <5>1. Range(ExecPath) = {"v1", "exec"}
            BY DEF ExecPath, Range
        <5>2. ExecPath \in Seq({"v1", "exec"})
            BY DEF ExecPath
        <5> QED BY <5>1, <5>2
      <4>2. call[flight[f].of] \in Call
          BY <1>2, <2>1 DEF PathInv, PathTypeOK, SentReady
      <4> QED BY <4>1, <4>2, PathAssumption DEF Call
    <3> QED BY <1>2, <2>1, <3>1, AllowedIsPlain, InnerFacts DEF SentReady
  <2> QED BY <2>1 DEF SentAsChecked
<1> QED BY <1>1, <1>2, SentStep, PathInvariant, PTL DEF Spec
=============================================================================
