------------------------------ MODULE Registry ------------------------------
(***************************************************************************)
(* The host registry (crates/lluma-broker/src/registry.rs) and the host    *)
(* process that keeps itself admitted: the daemon (crates/lluma-host       *)
(* main.rs, register.rs), with a new identity each time it is started, or  *)
(* the desktop app (src-tauri/src/host.rs), which keeps its identity.      *)
(*                                                                         *)
(* A heartbeat carries the host's wall-clock seconds as its counter.  Once *)
(* signed it may reach the broker late, twice, out of order or never.  A   *)
(* broker handler's write is one store transaction, so one step; rows are  *)
(* never deleted, so heartbeat's read-only prefilter finds what its        *)
(* transaction finds.  Requests with a bad signature, proof of work or     *)
(* address are answered with nothing changed and are not enumerated.  Both *)
(* processes read one clock, which does not run backwards.                 *)
(***************************************************************************)
EXTENDS Integers, Sequences

CONSTANTS Hosts,
          Desktops,              \* the hosts run by the desktop app
          heartbeat_interval_s,  \* cfg.heartbeat_interval_s of the broker
          admission_m,           \* cfg.admission_m
          host_interval_s,       \* LLUMA_HEARTBEAT_INTERVAL_S of the hosts
          U32Max,                \* u32::MAX, where admit_progress saturates
          SweepScheduled,        \* whether anything ever calls evict_stale
          MaxNow                 \* bound on the clock

ASSUME RegistryAssumption ==
    /\ Desktops \subseteq Hosts
    /\ heartbeat_interval_s \in Nat
    /\ admission_m \in Nat \ {0}
    /\ host_interval_s \in Nat
    /\ U32Max \in Nat
    /\ admission_m <= U32Max
    /\ SweepScheduled \in BOOLEAN
    /\ MaxNow \in Nat

VARIABLES
    row,        \* HOSTS: host -> HostRow
    now,        \* the clock, in seconds
    loop,       \* host process: "off", "ready", "wait" or "reregister"
    beat,       \* host process: the counter of its last heartbeat
    next_beat,  \* host process: when its sleep ends
    fails,      \* host process: consecutive failed heartbeats
    sent,       \* network: counters signed by each host, deliverable for ever
    \* history, read by the properties only
    accepted,   \* the counters the broker accepted of each host, in order
    base,       \* when the row's current admission count began
    since       \* how many heartbeats had been accepted by then

hostVars == <<loop, beat, next_beat, fails, sent>>
vars == <<row, now, hostVars, accepted, base, since>>

HostStatus == {"absent", "pending", "active"}
HostRow == [status : HostStatus, hb_counter : Nat, last_hb : Nat,
            admit_progress : 0..U32Max]
HostLoop == {"off", "ready", "wait", "reregister"}

TypeOK ==
    /\ row \in [Hosts -> HostRow]
    /\ now \in Nat
    /\ loop \in [Hosts -> HostLoop]
    /\ beat \in [Hosts -> Nat]
    /\ next_beat \in [Hosts -> Nat]
    /\ fails \in [Hosts -> Nat]
    /\ sent \in [Hosts -> SUBSET Nat]
    /\ accepted \in [Hosts -> Seq(Nat)]
    /\ base \in [Hosts -> Nat]
    /\ since \in [Hosts -> Nat]

\* A host that was never registered has no row; its other fields mean nothing.
NoRow == [status |-> "absent", hb_counter |-> 0, last_hb |-> 0, admit_progress |-> 0]

Init ==
    /\ row = [h \in Hosts |-> NoRow]
    /\ now = 0
    /\ loop = [h \in Hosts |-> "off"]
    /\ beat = [h \in Hosts |-> 0]
    /\ next_beat = [h \in Hosts |-> 0]
    /\ fails = [h \in Hosts |-> 0]
    /\ sent = [h \in Hosts |-> {}]
    /\ accepted = [h \in Hosts |-> <<>>]
    /\ base = [h \in Hosts |-> 0]
    /\ since = [h \in Hosts |-> 0]

-----------------------------------------------------------------------------
\* Mutant of Registered: a refresh starts the host over.
RegisteredAnew(r) ==
    [status |-> "pending", hb_counter |-> 0, last_hb |-> now, admit_progress |-> 0]

\* The row register writes: a new host is pending; a known one keeps its status,
\* counter and progress (only its address, models and key are refreshed).
Registered(r) ==
    IF r.status = "absent"
    THEN [status |-> "pending", hb_counter |-> 0, last_hb |-> now, admit_progress |-> 0]
    ELSE r

\* register's transaction.
Register(h) ==
    /\ row' = [row EXCEPT ![h] = Registered(@)]
    /\ base' = [base EXCEPT ![h] = IF row[h].status = "absent" THEN now ELSE @]

\* u64::saturating_sub on times
Elapsed(t) == IF now > t THEN now - t ELSE 0

\* Mutant of Advanced: an addition past u32::MAX.
AdvancedUnchecked(p) == p + 1

\* u32::saturating_add of one
Advanced(p) == IF p < U32Max THEN p + 1 ELSE p

\* Slow admission: a heartbeat counts when an interval passed since the last one.
Progress(r) ==
    IF Elapsed(r.last_hb) >= heartbeat_interval_s
    THEN Advanced(r.admit_progress) ELSE r.admit_progress

\* The row an accepted heartbeat writes.
Beaten(r, c) ==
    [status |-> IF /\ Elapsed(r.last_hb) >= heartbeat_interval_s
                   /\ Progress(r) >= admission_m
                THEN "active" ELSE r.status,
     hb_counter |-> c,
     last_hb |-> now,
     admit_progress |-> Progress(r)]

\* The monotonic-counter check; heartbeat answers Replay when it fails.
FreshCounter(r, c) == c > r.hb_counter

\* heartbeat, when it accepts a signed counter the network delivers.
Heartbeat(h, c) ==
    /\ row[h].status # "absent"
    /\ FreshCounter(row[h], c)
    /\ row' = [row EXCEPT ![h] = Beaten(@, c)]
    /\ accepted' = [accepted EXCEPT ![h] = Append(@, c)]
    /\ UNCHANGED <<now, hostVars, base, since>>

\* evict_stale's condition on one row.
IsStale(r) == Elapsed(r.last_hb) > 3 * heartbeat_interval_s

Evictable(r) ==
    /\ r.status # "absent"
    /\ IsStale(r)
    /\ r.status = "active" \/ r.admit_progress > 0

\* Mutant of EvictStale: the progress made is kept.
EvictStaleKeepsProgress ==
    /\ SweepScheduled
    /\ row' = [h \in Hosts |->
                  IF Evictable(row[h])
                  THEN [status |-> "pending", hb_counter |-> row[h].hb_counter,
                        last_hb |-> row[h].last_hb, admit_progress |-> row[h].admit_progress]
                  ELSE row[h]]
    /\ base' = [h \in Hosts |-> IF Evictable(row[h]) THEN row[h].last_hb ELSE base[h]]
    /\ since' = [h \in Hosts |->
                    IF Evictable(row[h]) THEN Len(accepted[h]) ELSE since[h]]
    /\ UNCHANGED <<now, hostVars, accepted>>

\* evict_stale: every evictable row goes back to pending, in one transaction.
EvictStale ==
    /\ SweepScheduled
    /\ row' = [h \in Hosts |->
                  IF Evictable(row[h])
                  THEN [status |-> "pending", hb_counter |-> row[h].hb_counter,
                        last_hb |-> row[h].last_hb, admit_progress |-> 0]
                  ELSE row[h]]
    /\ base' = [h \in Hosts |-> IF Evictable(row[h]) THEN row[h].last_hb ELSE base[h]]
    /\ since' = [h \in Hosts |->
                    IF Evictable(row[h]) THEN Len(accepted[h]) ELSE since[h]]
    /\ UNCHANGED <<now, hostVars, accepted>>

-----------------------------------------------------------------------------
\* The host starts and registers; only the desktop app does so a second time
\* under the same identity.  If the answer is lost it gives up.
HostStart(h, answered) ==
    /\ loop[h] = "off"
    /\ h \in Desktops \/ row[h].status = "absent"
    /\ Register(h)
    /\ loop' = [loop EXCEPT ![h] = IF answered THEN "ready" ELSE "off"]
    /\ next_beat' = [next_beat EXCEPT ![h] = now]
    /\ fails' = [fails EXCEPT ![h] = 0]
    /\ UNCHANGED <<now, beat, sent, accepted, since>>

\* The loop signs a heartbeat with the clock as its counter and waits.
HostBeat(h) ==
    /\ loop[h] = "ready"
    /\ now >= next_beat[h]
    /\ loop' = [loop EXCEPT ![h] = "wait"]
    /\ beat' = [beat EXCEPT ![h] = now]
    /\ sent' = [sent EXCEPT ![h] = @ \cup {now}]
    /\ UNCHANGED <<row, now, next_beat, fails, accepted, base, since>>

Sleep(h) ==
    /\ loop' = [loop EXCEPT ![h] = "ready"]
    /\ next_beat' = [next_beat EXCEPT ![h] = now + host_interval_s]

\* The answer to an accepted heartbeat comes back.
HostBeatOk(h) ==
    /\ loop[h] = "wait"
    /\ \E k \in 1..Len(accepted[h]) : accepted[h][k] = beat[h]
    /\ fails' = [fails EXCEPT ![h] = 0]
    /\ Sleep(h)
    /\ UNCHANGED <<row, now, beat, sent, accepted, base, since>>

\* It was refused, or it or its answer was lost; from the third time in a row the
\* host registers again.
HostBeatFailed(h) ==
    /\ loop[h] = "wait"
    /\ fails' = [fails EXCEPT ![h] = @ + 1]
    /\ \/ /\ fails[h] + 1 >= 3
          /\ loop' = [loop EXCEPT ![h] = "reregister"]
          /\ UNCHANGED next_beat
       \/ fails[h] + 1 < 3 /\ Sleep(h)
    /\ UNCHANGED <<row, now, beat, sent, accepted, base, since>>

\* The outcome of registering again is ignored; the daemon counts from zero
\* again, the desktop app goes on counting.
HostReregister(h, delivered) ==
    /\ loop[h] = "reregister"
    /\ \/ delivered /\ Register(h)
       \/ ~delivered /\ UNCHANGED <<row, base>>
    /\ fails' = [fails EXCEPT ![h] = IF h \in Desktops THEN @ ELSE 0]
    /\ Sleep(h)
    /\ UNCHANGED <<now, beat, sent, accepted, since>>

\* The host's process dies, or its user stops hosting.
HostStop(h) ==
    /\ loop[h] # "off"
    /\ loop' = [loop EXCEPT ![h] = "off"]
    /\ UNCHANGED <<row, now, beat, next_beat, fails, sent, accepted, base, since>>

Tick ==
    /\ now < MaxNow
    /\ now' = now + 1
    /\ UNCHANGED <<row, hostVars, accepted, base, since>>

Next ==
    \/ \E h \in Hosts : \E c \in sent[h] : Heartbeat(h, c)
    \/ EvictStale
    \/ \E h \in Hosts, b \in BOOLEAN : HostStart(h, b) \/ HostReregister(h, b)
    \/ \E h \in Hosts :
          HostBeat(h) \/ HostBeatOk(h) \/ HostBeatFailed(h) \/ HostStop(h)
    \/ Tick

Spec == Init /\ [][Next]_vars

\* The clock runs, and a sweep, were one scheduled, would run again and again; as
\* the program is, SweepScheduled is FALSE and only the clock is left.
FairSpec == Spec /\ WF_vars(Tick) /\ WF_vars(EvictStale)

-----------------------------------------------------------------------------
\* Slow admission: a host is ACTIVE only after admission_m accepted heartbeats
\* spread over as many intervals, counted from its registration or, once
\* evicted, from its last heartbeat before; no burst, replay, late delivery or
\* re-registration shortens it (heartbeat, register).
SlowAdmission ==
    \A h \in Hosts : row[h].status = "active" =>
        /\ row[h].last_hb - base[h] >= admission_m * heartbeat_interval_s
        /\ Len(accepted[h]) - since[h] >= admission_m

\* The broker accepts a host's counters in increasing order, so none of them
\* twice, whatever the network repeats or reorders and however often the host
\* registers again (heartbeat's replay check).
AcceptedInOrder ==
    \A h \in Hosts : \A j, k \in 1..Len(accepted[h]) :
        j < k => accepted[h][j] < accepted[h][k]

\* "eviction after 3 missed": a host that is ACTIVE and stale is heard from again
\* or stops being ACTIVE.
StaleDemoted ==
    \A h \in Hosts :
        row[h].status = "active" /\ IsStale(row[h])
            ~> row[h].status # "active" \/ ~IsStale(row[h])

\* The table the other handlers rely on, seen in the status column.
HT == INSTANCE HostTable WITH hosts <- [h \in Hosts |-> row[h].status]

\* What Broker sees of the registry: every step but evict_stale is a step of its
\* host table, so no heartbeat, registration or repeated registration removes or
\* demotes a host; and evict_stale demotes the active hosts that are stale, all of
\* them and no other (register, heartbeat, evict_stale).
Lifecycle ==
    /\ HT!Init
    /\ [][\/ HT!Next
          \/ EvictStale /\ HT!Demote({h \in Hosts :
                 row[h].status = "active" /\ IsStale(row[h])})
         ]_[h \in Hosts |-> row[h].status]

\* What SlowAdmission and AcceptedInOrder rest on, for a row r, its accepted
\* counters acc and the time b and count s at which its admission began, at time
\* t: every counted heartbeat is one interval further from b, and the row's
\* counter is an upper bound of the accepted ones.
RowInv(r, acc, b, s, t) ==
    /\ r.last_hb <= t
    /\ r.status = "absent" => r = NoRow /\ acc = <<>>
    /\ r.status # "absent" =>
          r.last_hb - b >= r.admit_progress * heartbeat_interval_s
    /\ r.status = "active" => r.admit_progress >= admission_m
    /\ r.admit_progress + s <= Len(acc)
    /\ \A k \in 1..Len(acc) : acc[k] <= r.hb_counter
    /\ \A j, k \in 1..Len(acc) : j < k => acc[j] < acc[k]

AdmissionInv == \A h \in Hosts : RowInv(row[h], accepted[h], base[h], since[h], now)
=============================================================================
