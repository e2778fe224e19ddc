--------------------------- MODULE RegistryProofs ---------------------------
(***************************************************************************)
(* Theorems about Registry, for any hosts, intervals and admission counts. *)
(***************************************************************************)
EXTENDS Registry, SequenceTheorems, TLAPS

\* The rows the handlers write are rows.
LEMMA BeatenType ==
    ASSUME NEW r \in HostRow, NEW c \in Nat, now \in Nat
    PROVE  /\ Progress(r) \in 0..U32Max
           /\ Beaten(r, c) \in HostRow
<1>1. r.admit_progress \in 0..U32Max /\ r.status \in HostStatus
    BY DEF HostRow
<1>2. Progress(r) \in 0..U32Max
    BY <1>1, RegistryAssumption DEF Progress, Advanced
<1> DEFINE s == IF Elapsed(r.last_hb) >= heartbeat_interval_s /\ Progress(r) >= admission_m
                THEN "active" ELSE r.status
<1>3. s \in HostStatus
    BY <1>1 DEF HostStatus
<1>4. Beaten(r, c) = [status |-> s, hb_counter |-> c, last_hb |-> now,
                      admit_progress |-> Progress(r)]
    BY DEF Beaten
<1> HIDE DEF s
<1> QED BY <1>2, <1>3, <1>4 DEF HostRow

LEMMA RegisteredType ==
    ASSUME NEW r \in HostRow, now \in Nat
    PROVE  Registered(r) \in HostRow
BY RegistryAssumption DEF Registered, HostRow, HostStatus

LEMMA InitType == Init => TypeOK
BY RegistryAssumption DEF Init, TypeOK, NoRow, HostRow, HostStatus, HostLoop

\* register's transaction keeps the tables' types.
LEMMA RegisterType ==
    ASSUME TypeOK, NEW h \in Hosts, Register(h)
    PROVE  row' \in [Hosts -> HostRow] /\ base' \in [Hosts -> Nat]
<1>1. Registered(row[h]) \in HostRow
    BY RegisteredType DEF TypeOK
<1>2. row' \in [Hosts -> HostRow]
    BY <1>1 DEF Register, TypeOK
<1> QED BY <1>2 DEF Register, TypeOK

LEMMA NextType == TypeOK /\ [Next]_vars => TypeOK'
<1> SUFFICES ASSUME TypeOK, [Next]_vars PROVE TypeOK'
    OBVIOUS
<1>1. ASSUME NEW h \in Hosts, NEW c \in sent[h], Heartbeat(h, c) PROVE TypeOK'
  <2>1. c \in Nat
      BY DEF TypeOK
  <2>2. Beaten(row[h], c) \in HostRow
      BY <2>1, BeatenType DEF TypeOK
  <2>3. row' \in [Hosts -> HostRow]
      BY <1>1, <2>2 DEF Heartbeat, TypeOK
  <2>4. accepted' \in [Hosts -> Seq(Nat)]
      BY <1>1, <2>1 DEF Heartbeat, TypeOK
  <2> QED BY <1>1, <2>3, <2>4 DEF Heartbeat, TypeOK, hostVars
<1>2. CASE EvictStale
  <2>1. row' \in [Hosts -> HostRow]
    <3>1. ASSUME NEW h \in Hosts
          PROVE  [status |-> "pending", hb_counter |-> row[h].hb_counter,
                  last_hb |-> row[h].last_hb, admit_progress |-> 0] \in HostRow
        BY RegistryAssumption DEF TypeOK, HostRow, HostStatus
    <3> QED BY <1>2, <3>1 DEF EvictStale, TypeOK
  <2>2. base' \in [Hosts -> Nat]
      BY <1>2 DEF EvictStale, TypeOK, HostRow
  <2> QED BY <1>2, <2>1, <2>2 DEF EvictStale, TypeOK, hostVars
<1>3. ASSUME NEW h \in Hosts, NEW b \in BOOLEAN, HostStart(h, b) PROVE TypeOK'
  <2>1. row' \in [Hosts -> HostRow] /\ base' \in [Hosts -> Nat]
      BY <1>3, RegisterType DEF HostStart
  <2>2. (IF b THEN "ready" ELSE "off") \in HostLoop
      BY DEF HostLoop
  <2> DEFINE l == IF b THEN "ready" ELSE "off"
  <2>3. loop' = [loop EXCEPT ![h] = l]
      BY <1>3 DEF HostStart
  <2> HIDE DEF l
  <2>4. loop' \in [Hosts -> HostLoop]
      BY <2>2, <2>3 DEF TypeOK, l
  <2>5. next_beat' \in [Hosts -> Nat] /\ fails' \in [Hosts -> Nat]
        /\ UNCHANGED <<now, beat, sent, accepted, since>>
      BY <1>3 DEF HostStart, TypeOK
  <2> QED BY <2>1, <2>4, <2>5 DEF TypeOK
<1>4. ASSUME NEW h \in Hosts, NEW b \in BOOLEAN, HostReregister(h, b) PROVE TypeOK'
  <2>1. row' \in [Hosts -> HostRow] /\ base' \in [Hosts -> Nat]
    <3>1. Register(h) \/ UNCHANGED <<row, base>>
        BY <1>4, Zenon DEF HostReregister
    <3> QED BY <3>1, RegisterType DEF TypeOK
  <2>2. /\ fails' = [fails EXCEPT ![h] = IF h \in Desktops THEN @ ELSE 0] /\ Sleep(h)
        /\ UNCHANGED <<now, beat, sent, accepted, since>>
      BY <1>4 DEF HostReregister
  <2> QED BY <2>1, <2>2, RegistryAssumption DEF Sleep, TypeOK, HostLoop
<1>5. ASSUME NEW h \in Hosts, HostBeat(h) PROVE TypeOK'
  BY <1>5 DEF HostBeat, TypeOK, HostLoop
<1>6. ASSUME NEW h \in Hosts, HostBeatOk(h) PROVE TypeOK'
  BY <1>6, RegistryAssumption, SMTT(30) DEF HostBeatOk, Sleep, TypeOK, HostLoop
<1>7. ASSUME NEW h \in Hosts, HostBeatFailed(h) PROVE TypeOK'
  <2>1. loop' \in [Hosts -> HostLoop] /\ next_beat' \in [Hosts -> Nat]
    <3>1. CASE Sleep(h)
        BY <3>1, RegistryAssumption DEF Sleep, TypeOK, HostLoop
    <3>2. CASE loop' = [loop EXCEPT ![h] = "reregister"] /\ UNCHANGED next_beat
        BY <3>2 DEF TypeOK, HostLoop
    <3> QED BY <1>7, <3>1, <3>2 DEF HostBeatFailed
  <2>2. fails' \in [Hosts -> Nat] /\ UNCHANGED <<row, now, beat, sent, accepted, base, since>>
      BY <1>7 DEF HostBeatFailed, TypeOK
  <2> QED BY <2>1, <2>2 DEF TypeOK
<1>8. ASSUME NEW h \in Hosts, HostStop(h) PROVE TypeOK'
  BY <1>8 DEF HostStop, TypeOK, HostLoop
<1>9. CASE Tick
  BY <1>9 DEF Tick, TypeOK, hostVars
<1>10. CASE UNCHANGED vars
  BY <1>10 DEF vars, hostVars, TypeOK
<1> QED
  BY <1>1, <1>2, <1>3, <1>4, <1>5, <1>6, <1>7, <1>8, <1>9, <1>10 DEF Next

\* Type correctness of the registry; admit_progress stays a u32.
THEOREM TypeCorrect == Spec => []TypeOK
BY InitType, NextType, PTL DEF Spec

-----------------------------------------------------------------------------
\* Counting on or skipping: multiplication by one more.
LEMMA OneMore ==
    ASSUME NEW p \in Nat, NEW i \in Nat
    PROVE  /\ p * i \in Nat
           /\ (p + 1) * i = p * i + i
OBVIOUS

LEMMA Monotone ==
    ASSUME NEW p \in Nat, NEW m \in Nat, NEW i \in Nat, p >= m
    PROVE  p * i >= m * i
<1>1. (p - m) \in Nat /\ p = m + (p - m)
    OBVIOUS
<1>2. (p - m) * i \in Nat
    BY <1>1
<1>3. p * i = m * i + (p - m) * i
    BY <1>1
<1>4. m * i \in Nat
    OBVIOUS
<1> QED BY <1>2, <1>3, <1>4

\* An accepted heartbeat.
LEMMA BeatenInv ==
    ASSUME NEW r \in HostRow, NEW c \in Nat, NEW acc \in Seq(Nat), NEW b \in Nat,
           NEW s \in Nat, now \in Nat, r.status # "absent", FreshCounter(r, c), RowInv(r, acc, b, s, now)
    PROVE  RowInv(Beaten(r, c), Append(acc, c), b, s, now)
<1> DEFINE n == Beaten(r, c)
           a == Append(acc, c)
           i == heartbeat_interval_s
<1>1. /\ r.hb_counter \in Nat /\ r.last_hb \in Nat /\ r.admit_progress \in Nat
      /\ r.status \in HostStatus /\ i \in Nat /\ r.admit_progress <= U32Max /\ U32Max \in Nat
      /\ admission_m \in Nat
    BY RegistryAssumption DEF HostRow
<1>2. n.hb_counter = c /\ n.last_hb = now /\ n.admit_progress = Progress(r)
    BY DEF Beaten
<1>3. /\ a \in Seq(Nat) /\ Len(a) = Len(acc) + 1 /\ Len(acc) \in Nat /\ a[Len(acc) + 1] = c
      /\ \A k \in 1..Len(acc) : a[k] = acc[k] /\ acc[k] \in Nat
    OBVIOUS
<1>4. Progress(r) \in Nat /\ Progress(r) <= r.admit_progress + 1
    BY <1>1 DEF Progress, Advanced
<1>5. now - b >= Progress(r) * i
  <2>1. r.last_hb - b >= r.admit_progress * i /\ r.last_hb <= now
      BY DEF RowInv
  <2>2. /\ r.admit_progress * i \in Nat
        /\ (r.admit_progress + 1) * i = r.admit_progress * i + i
      BY <1>1, OneMore
  <2>3. CASE Progress(r) = r.admit_progress
    <3> DEFINE x == r.admit_progress * i
    <3>1. x \in Nat /\ r.last_hb - b >= x /\ Progress(r) * i = x
        BY <2>1, <2>2, <2>3
    <3> HIDE DEF x, i
    <3>2. now - b >= x
        BY <1>1, <2>1, <3>1
    <3> QED BY <3>1, <3>2
  <2>4. CASE Progress(r) = r.admit_progress + 1 /\ Elapsed(r.last_hb) >= i
    <3>1. now - r.last_hb >= i
        BY <1>1, <2>1, <2>4 DEF Elapsed
    <3>2. Progress(r) * i = r.admit_progress * i + i
        BY <2>2, <2>4
    <3> DEFINE x == r.admit_progress * i
    <3>3. x \in Nat /\ r.last_hb - b >= x /\ Progress(r) * i = x + i
        BY <2>1, <2>2, <3>2
    <3> HIDE DEF x, i
    <3>4. now - b >= x + i
        BY <1>1, <3>1, <3>3
    <3> QED BY <3>3, <3>4
  <2> QED BY <2>3, <2>4 DEF Progress, Advanced
<1>6. n.status = "active" => Progress(r) >= admission_m
  <2>1. n.status = "active" => Progress(r) >= admission_m \/ r.status = "active"
      BY DEF Beaten
  <2>2. r.status = "active" => Progress(r) >= admission_m
      BY <1>1 DEF RowInv, Progress, Advanced
  <2> QED BY <2>1, <2>2
<1>7. n.status # "absent"
    BY DEF Beaten
<1>8. Progress(r) + s <= Len(a)
    BY <1>1, <1>3, <1>4 DEF RowInv
<1>9. \A k \in 1..Len(acc) : acc[k] < c
    BY <1>1, <1>3, SMTT(30) DEF RowInv, FreshCounter
<1>10. \A k \in 1..Len(a) : a[k] <= c
    BY <1>3, <1>9
<1>11. \A j, k \in 1..Len(a) : j < k => a[j] < a[k]
  <2> SUFFICES ASSUME NEW j \in 1..Len(a), NEW k \in 1..Len(a), j < k
               PROVE  a[j] < a[k]
      OBVIOUS
  <2>1. CASE k = Len(acc) + 1
      BY <1>3, <1>9, <2>1
  <2>2. CASE k # Len(acc) + 1
    <3>1. j \in 1..Len(acc) /\ k \in 1..Len(acc)
        BY <1>3, <2>2
    <3>2. acc[j] < acc[k]
        BY <3>1 DEF RowInv
    <3>3. a[j] = acc[j] /\ a[k] = acc[k]
        BY <1>3, <3>1
    <3> QED BY <3>2, <3>3
  <2> QED BY <2>1, <2>2
<1> HIDE DEF n, a, i
<1> QED
  <2>1. RowInv(n, a, b, s, now)
      BY <1>1, <1>2, <1>5, <1>6, <1>7, <1>8, <1>10, <1>11, SMTT(30) DEF RowInv, i
  <2> QED BY <2>1 DEF n, a

\* A registration, new or repeated.
LEMMA RegisteredInv ==
    ASSUME NEW r \in HostRow, NEW acc \in Seq(Nat), NEW b \in Nat,
           NEW s \in Nat, now \in Nat,
           RowInv(r, acc, b, s, now)
    PROVE  RowInv(Registered(r), acc, IF r.status = "absent" THEN now ELSE b, s, now)
<1>1. CASE r.status = "absent"
  <2>1. acc = <<>> /\ s = 0
    <3>1. acc = <<>> /\ r = NoRow /\ r.admit_progress + s <= Len(acc)
        BY <1>1 DEF RowInv
    <3> QED BY <3>1 DEF NoRow
  <2>2. 0 * heartbeat_interval_s = 0
      BY RegistryAssumption
  <2> QED BY <1>1, <2>1, <2>2, RegistryAssumption DEF RowInv, Registered
<1>2. CASE r.status # "absent"
  BY <1>2 DEF RowInv, Registered
<1> QED BY <1>1, <1>2

\* An eviction.
LEMMA EvictedInv ==
    ASSUME NEW r \in HostRow, NEW acc \in Seq(Nat), NEW b \in Nat,
           NEW s \in Nat, now \in Nat,
           RowInv(r, acc, b, s, now)
    PROVE  RowInv([status |-> "pending", hb_counter |-> r.hb_counter,
                   last_hb |-> r.last_hb, admit_progress |-> 0], acc, r.last_hb, Len(acc), now)
<1>1. 0 * heartbeat_interval_s = 0 /\ r.last_hb \in Nat /\ Len(acc) \in Nat
    BY RegistryAssumption DEF HostRow
<1> QED BY <1>1 DEF RowInv

\* Every step keeps the invariant.
LEMMA AdmissionNext == TypeOK /\ AdmissionInv /\ [Next]_vars => AdmissionInv'
<1> SUFFICES ASSUME TypeOK, AdmissionInv, [Next]_vars, NEW g \in Hosts
             PROVE  RowInv(row'[g], accepted'[g], base'[g], since'[g], now')
    BY DEF AdmissionInv
<1> DEFINE Goal == RowInv(row'[g], accepted'[g], base'[g], since'[g], now')
<1>1. /\ row[g] \in HostRow /\ accepted[g] \in Seq(Nat) /\ base[g] \in Nat
      /\ since[g] \in Nat /\ now \in Nat
      /\ RowInv(row[g], accepted[g], base[g], since[g], now)
    BY DEF TypeOK, AdmissionInv
<1>2. CASE UNCHANGED <<row, accepted, base, since, now>>
    BY <1>1, <1>2
<1>3. ASSUME NEW h \in Hosts, NEW c \in sent[h], Heartbeat(h, c) PROVE Goal
  <2>0. c \in Nat
      BY DEF TypeOK
  <2>1. CASE h = g
    <3>1. /\ row'[g] = Beaten(row[g], c) /\ accepted'[g] = Append(accepted[g], c)
          /\ base'[g] = base[g]
          /\ since' = since /\ now' = now
        BY <1>3, <2>1 DEF Heartbeat, TypeOK
    <3>2. row[g].status # "absent" /\ FreshCounter(row[g], c)
        BY <1>3, <2>1 DEF Heartbeat
    <3>3. RowInv(Beaten(row[g], c), Append(accepted[g], c), base[g], since[g], now)
        BY <1>1, <2>0, <3>2, BeatenInv
    <3> QED BY <3>1, <3>3
  <2>2. CASE h # g
    <3>1. row'[g] = row[g] /\ accepted'[g] = accepted[g] /\ base'[g] = base[g]
          /\ since' = since /\ now' = now
        BY <1>3, <2>2 DEF Heartbeat, TypeOK
    <3> QED BY <1>1, <3>1
  <2> QED BY <2>1, <2>2
<1>4. ASSUME NEW h \in Hosts, Register(h), UNCHANGED <<accepted, since, now>> PROVE Goal
  <2>1. CASE h = g
    <3>1. /\ row'[g] = Registered(row[g])
          /\ base'[g] = IF row[g].status = "absent" THEN now ELSE base[g]
        BY <1>4, <2>1 DEF Register, TypeOK
    <3>2. RowInv(Registered(row[g]), accepted[g],
                 IF row[g].status = "absent" THEN now ELSE base[g], since[g], now)
        BY <1>1, RegisteredInv
    <3> QED BY <1>4, <3>1, <3>2
  <2>2. CASE h # g
    <3>1. row'[g] = row[g] /\ base'[g] = base[g]
        BY <1>4, <2>2 DEF Register, TypeOK
    <3> QED BY <1>1, <1>4, <3>1
  <2> QED BY <2>1, <2>2
<1>5. CASE EvictStale
  <2> DEFINE e == [status |-> "pending", hb_counter |-> row[g].hb_counter,
                   last_hb |-> row[g].last_hb, admit_progress |-> 0]
  <2>1. RowInv(e, accepted[g], row[g].last_hb, Len(accepted[g]), now)
      BY <1>1, EvictedInv
  <2>2. /\ row'[g] = IF Evictable(row[g]) THEN e ELSE row[g]
        /\ base'[g] = IF Evictable(row[g]) THEN row[g].last_hb ELSE base[g]
        /\ since'[g] = IF Evictable(row[g]) THEN Len(accepted[g]) ELSE since[g]
        /\ accepted' = accepted /\ now' = now
      BY <1>5 DEF EvictStale
  <2> HIDE DEF e
  <2>3. CASE Evictable(row[g])
      BY <2>1, <2>2, <2>3
  <2>4. CASE ~Evictable(row[g])
      BY <1>1, <2>2, <2>4
  <2> QED BY <2>3, <2>4
<1>6. CASE Tick
  <2>1. UNCHANGED <<row, accepted, base, since>> /\ now' = now + 1 /\ row[g].last_hb \in Nat
      BY <1>1, <1>6 DEF Tick, HostRow
  <2> QED BY <1>1, <2>1 DEF RowInv
<1>7. ASSUME NEW h \in Hosts, NEW b \in BOOLEAN, HostStart(h, b) PROVE Goal
  BY <1>4, <1>7 DEF HostStart
<1>8. ASSUME NEW h \in Hosts, NEW b \in BOOLEAN, HostReregister(h, b) PROVE Goal
  BY <1>2, <1>4, <1>8 DEF HostReregister
<1> QED
  BY <1>2, <1>3, <1>5, <1>6, <1>7, <1>8
  DEF Next, HostBeat, HostBeatOk, HostBeatFailed, HostStop, vars

LEMMA AdmissionInit == Init => AdmissionInv
<1> SUFFICES ASSUME Init, NEW h \in Hosts
             PROVE  RowInv(row[h], accepted[h], base[h], since[h], now)
    BY DEF AdmissionInv
<1>1. row[h] = NoRow /\ accepted[h] = <<>> /\ now = 0 /\ since[h] = 0
    BY DEF Init
<1>2. Len(<<>>) = 0
    OBVIOUS
<1> QED BY <1>1, <1>2 DEF RowInv, NoRow

LEMMA AdmissionAlways == Spec => [](TypeOK /\ AdmissionInv)
BY AdmissionInit, AdmissionNext, TypeCorrect, PTL DEF Spec

\* A host is ACTIVE only after admission_m accepted heartbeats over as many
\* intervals, for any network, any host behaviour and any number of evictions.
THEOREM AdmissionIsSlow == Spec => []SlowAdmission
<1>1. TypeOK /\ AdmissionInv => SlowAdmission
  <2> SUFFICES ASSUME TypeOK, AdmissionInv, NEW h \in Hosts, row[h].status = "active"
               PROVE  /\ row[h].last_hb - base[h] >= admission_m * heartbeat_interval_s
                      /\ Len(accepted[h]) - since[h] >= admission_m
      BY DEF SlowAdmission
  <2>1. /\ row[h].admit_progress \in Nat /\ admission_m \in Nat
        /\ heartbeat_interval_s \in Nat /\ Len(accepted[h]) \in Nat
        /\ row[h].last_hb \in Nat /\ base[h] \in Nat /\ since[h] \in Nat
      BY RegistryAssumption DEF TypeOK, HostRow
  <2>2. /\ row[h].admit_progress >= admission_m
        /\ row[h].last_hb - base[h] >= row[h].admit_progress * heartbeat_interval_s
        /\ row[h].admit_progress + since[h] <= Len(accepted[h])
      BY DEF AdmissionInv, RowInv
  <2>3. row[h].admit_progress * heartbeat_interval_s >= admission_m * heartbeat_interval_s
      BY <2>1, <2>2, Monotone
  <2>4. /\ row[h].admit_progress * heartbeat_interval_s \in Nat
        /\ admission_m * heartbeat_interval_s \in Nat
      BY <2>1
  <2> QED BY <2>1, <2>2, <2>3, <2>4, SMTT(30)
<1> QED BY <1>1, AdmissionAlways, PTL

\* The broker accepts a host's heartbeat counters in increasing order.
THEOREM CountersAcceptedInOrder == Spec => []AcceptedInOrder
<1>1. AdmissionInv => AcceptedInOrder
    BY DEF AdmissionInv, RowInv, AcceptedInOrder
<1> QED BY <1>1, AdmissionAlways, PTL

-----------------------------------------------------------------------------
\* The status column of HOSTS, which is all the rest of the origin reads.
Statuses == [h \in Hosts |-> row[h].status]

\* A step that changes one host's status from absent to pending or from pending to
\* active is a step of the abstract table.
LEMMA StatusStep ==
    ASSUME TypeOK, NEW h \in Hosts, row' \in [Hosts -> HostRow],
           \A g \in Hosts : g # h => row'[g] = row[g],
           \/ row'[h].status = row[h].status
           \/ row[h].status = "absent" /\ row'[h].status = "pending"
           \/ row[h].status = "pending" /\ row'[h].status = "active"
    PROVE  [HT!Next]_Statuses
<1>1. \A g \in Hosts : g # h => row'[g].status = row[g].status
    OBVIOUS
<1>2. Statuses' = [Statuses EXCEPT ![h] = row'[h].status]
    BY <1>1 DEF Statuses
<1>3. Statuses[h] = row[h].status
    BY DEF Statuses
<1>4. CASE row'[h].status = row[h].status
    BY <1>2, <1>3, <1>4 DEF Statuses
<1>5. CASE row[h].status = "absent" /\ row'[h].status = "pending"
  <2>1. HT!Register(h)
      BY <1>2, <1>3, <1>5 DEF HT!Register, Statuses
  <2> QED BY <2>1 DEF HT!Next
<1>6. CASE row[h].status = "pending" /\ row'[h].status = "active"
  <2>1. HT!Admit(h)
      BY <1>2, <1>3, <1>6 DEF HT!Admit, Statuses
  <2> QED BY <2>1 DEF HT!Next
<1> QED BY <1>4, <1>5, <1>6

\* The hosts a sweep demotes.
Swept == {h \in Hosts : row[h].status = "active" /\ IsStale(row[h])}

\* A sweep demotes the active rows among those it resets, and leaves the other
\* statuses alone.
LEMMA SweepStep ==
    ASSUME TypeOK, EvictStale
    PROVE  HT!Demote(Swept)
<1>1. \A h \in Hosts : row'[h].status = IF Evictable(row[h]) THEN "pending" ELSE row[h].status
    BY DEF EvictStale
<1>2. \A h \in Hosts : row[h].status \in HostStatus
    BY DEF TypeOK, HostRow
<1>3. \A h \in Hosts : Evictable(row[h]) => row[h].status = "pending" \/ h \in Swept
    BY <1>2 DEF Evictable, HostStatus, Swept
<1>4. \A h \in Swept : Evictable(row[h])
    BY DEF Evictable, Swept
<1>5. \A h \in Hosts : row'[h].status = IF h \in Swept THEN "pending" ELSE row[h].status
    BY <1>1, <1>3, <1>4
<1> QED BY <1>5 DEF HT!Demote

\* Every other step is a step of the abstract table.
LEMMA LifecycleNext ==
    ASSUME TypeOK, TypeOK', [Next]_vars
    PROVE  EvictStale \/ [HT!Next]_Statuses
<1>1. row' \in [Hosts -> HostRow]
    BY DEF TypeOK
<1>2. CASE UNCHANGED row
    BY <1>2 DEF Statuses
<1>3. ASSUME NEW h \in Hosts, NEW c \in sent[h], Heartbeat(h, c) PROVE [HT!Next]_Statuses
  <2>1. \A g \in Hosts : g # h => row'[g] = row[g]
      BY <1>3 DEF Heartbeat, TypeOK
  <2>2. row'[h] = Beaten(row[h], c) /\ row[h].status # "absent" /\ row[h].status \in HostStatus
      BY <1>3 DEF Heartbeat, TypeOK, HostRow
  <2>3. row'[h].status = "active" \/ row'[h].status = row[h].status
      BY <2>2 DEF Beaten
  <2> QED BY <1>1, <2>1, <2>2, <2>3, StatusStep DEF HostStatus
<1>4. ASSUME NEW h \in Hosts, Register(h) PROVE [HT!Next]_Statuses
  <2>1. \A g \in Hosts : g # h => row'[g] = row[g]
      BY <1>4 DEF Register, TypeOK
  <2>2. row'[h] = Registered(row[h])
      BY <1>4 DEF Register, TypeOK
  <2>3. \/ row'[h].status = row[h].status
        \/ row[h].status = "absent" /\ row'[h].status = "pending"
      BY <2>2 DEF Registered
  <2> QED BY <1>1, <2>1, <2>3, StatusStep
<1>5. ASSUME NEW h \in Hosts, NEW b \in BOOLEAN, HostStart(h, b) \/ HostReregister(h, b)
      PROVE  Register(h) \/ UNCHANGED row
  BY <1>5 DEF HostStart, HostReregister
<1>6. \/ UNCHANGED row
      \/ EvictStale
      \/ \E h \in Hosts : Register(h)
      \/ \E h \in Hosts : \E c \in sent[h] : Heartbeat(h, c)
  BY <1>5 DEF Next, HostBeat, HostBeatOk, HostBeatFailed, HostStop, Tick, vars
<1> QED BY <1>2, <1>3, <1>4, <1>6

\* The registry implements the host table the broker's other handlers assume, but
\* for what evict_stale does, which demotes the stale hosts and no other; and as
\* deployed, with nothing calling evict_stale, it implements that table outright.
THEOREM RegistryImplementsHostTable ==
    /\ Spec => Lifecycle
    /\ ~SweepScheduled => (Spec => HT!Spec)
<1>1. Init => HT!Init
    BY DEF Init, HT!Init, NoRow
<1>2. TypeOK /\ TypeOK' /\ [Next]_vars => [HT!Next \/ (EvictStale /\ HT!Demote(Swept))]_Statuses
    BY LifecycleNext, SweepStep
<1>3. Spec => Lifecycle
    BY <1>1, <1>2, TypeCorrect, PTL DEF Spec, Lifecycle, Statuses, Swept
<1>4. ASSUME ~SweepScheduled PROVE Spec => HT!Spec
  <2>1. TypeOK /\ TypeOK' /\ [Next]_vars => [HT!Next]_Statuses
      BY <1>4, LifecycleNext DEF EvictStale
  <2> QED BY <1>1, <2>1, TypeCorrect, PTL DEF Spec, HT!Spec, Statuses
<1> QED BY <1>3, <1>4
=============================================================================
