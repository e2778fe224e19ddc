------------------------------- MODULE Relay --------------------------------
(***************************************************************************)
(* The relay (crates/lluma-relay): a token bucket per source address, and  *)
(* the signed bootstrap it mirrors.  It holds nothing else; a restart      *)
(* forgets the buckets.  Time is counted in seconds and a bucket holds     *)
(* whole tokens: the relay's fractions only move the instants at which a   *)
(* token becomes available.                                                *)
(***************************************************************************)
EXTENDS Naturals, Sequences, FiniteSets

CONSTANTS None,
          Clients,        \* source addresses
          capacity,       \* per_ip.capacity
          refill_per_sec, \* per_ip.refill_per_sec
          EvictAbove,     \* buckets kept before idle ones are forgotten (100_000)
          MaxTime         \* bound on the clock

ASSUME RelayAssumption ==
    /\ capacity \in Nat \ {0}
    /\ refill_per_sec \in Nat
    /\ EvictAbove \in Nat
    /\ MaxTime \in Nat

VARIABLES
    now,      \* Instant::now()
    buckets,  \* address -> Bucket, or None
    mirror,   \* bootstrap_blob: a signed document, or None
    passed    \* history: when requests of an address were let through

relayVars == <<now, buckets, mirror, passed>>

Bucket == [tokens : 0..capacity, last : 0..MaxTime]

ASSUME NoBucket == None \notin Bucket

RelayTypeOK ==
    /\ now \in 0..MaxTime
    /\ buckets \in [Clients -> Bucket \cup {None}]
    /\ passed \in [Clients -> Seq(0..MaxTime)]

NoBuckets == [i \in Clients |-> None]

RelayInit(blob) ==
    /\ now = 0
    /\ buckets = NoBuckets
    /\ mirror = blob
    /\ passed = [i \in Clients |-> <<>>]

\* Mutant of Refilled: no upper limit.
RefilledUncapped(b) == b.tokens + (now - b.last) * refill_per_sec

\* What a bucket holds by now.
Refilled(b) ==
    LET level == b.tokens + (now - b.last) * refill_per_sec
    IN IF level > capacity THEN capacity ELSE level

\* Mutant of Evicted: a busy bucket is forgotten as well.
EvictedAll(bs) ==
    IF Cardinality({i \in Clients : bs[i] # None}) > EvictAbove THEN NoBuckets ELSE bs

\* The buckets kept: once there are too many, full ones are forgotten.
Evicted(bs) ==
    IF Cardinality({i \in Clients : bs[i] # None}) > EvictAbove
    THEN [i \in Clients |->
            IF bs[i] # None /\ Refilled(bs[i]) = capacity THEN None ELSE bs[i]]
    ELSE bs

\* The tokens allow finds for a request of i.
Level(i) == LET b == Evicted(buckets)[i] IN IF b = None THEN capacity ELSE Refilled(b)

\* allow: whether the request passes, and the bucket it leaves.
Allow(i, pass) ==
    /\ pass <=> Level(i) >= 1
    /\ buckets' = [Evicted(buckets) EXCEPT ![i] =
                      [tokens |-> IF pass THEN Level(i) - 1 ELSE Level(i), last |-> now]]
    /\ passed' = [passed EXCEPT ![i] = IF pass THEN Append(@, now) ELSE @]
    /\ UNCHANGED <<now, mirror>>

Tick ==
    /\ now < MaxTime
    /\ now' = now + 1
    /\ UNCHANGED <<buckets, mirror, passed>>

\* The relay starts again, with the bootstrap file as it is by then.
RelayStarts(blob) ==
    /\ now < MaxTime
    /\ now' = now + 1
    /\ buckets' = NoBuckets
    /\ mirror' = blob
    /\ passed' = [i \in Clients |-> <<>>]

-----------------------------------------------------------------------------
\* In every stretch of time an address gets at most its capacity and what was
\* refilled meanwhile, however requests, other addresses and the eviction of idle
\* buckets interleave (allow: "forgetting a fully-refilled (idle) bucket is safe").
Allowance ==
    \A i \in Clients :
        \A m \in DOMAIN passed[i], n \in DOMAIN passed[i] :
            m <= n => n - m + 1 <= capacity + refill_per_sec * (passed[i][n] - passed[i][m])
=============================================================================
