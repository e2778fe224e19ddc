--------------------------- MODULE AccountProofs ---------------------------
(***************************************************************************)
(* Theorems about the origin's books, for every value of the constants: a  *)
(* request is debited once, ledger, receipts, trials and counters say the  *)
(* same, and no value is minted.                                           *)
(***************************************************************************)
EXTENDS SpendProofs, WellFoundedInduction

\* A task that was not debited yet, or was refused the debit.
Undebited == {"idle", "debit", "give_up"}

\* A debit that was not given up: it took the credits and lost no refund.
DebitStands(i) == i \in charged /\ ~RefundLost(i)

\* No two debits that stand are of one request id and one process lifetime.
StandsOnce ==
    \A i, j \in IssueTasks :
        /\ DebitStands(i) /\ DebitStands(j)
        /\ issue[i].run = issue[j].run
        /\ KeyOf(i) = KeyOf(j)
        => i = j

\* A debit of this process lifetime that stands belongs to a running task or left
\* a stored response behind.
DebitInv ==
    /\ ReservationOwned
    /\ \A i \in IssueTasks :
          /\ issue[i].run <= incarnation
          /\ InFlight(i) => issue[i].run = incarnation
          /\ issue[i].pc = "lost" => issue[i].run < incarnation
          /\ issue[i].pc = "issued" /\ issue[i].run = incarnation =>
                idem[KeyOf(i)].st = "done"
          /\ DebitStands(i) => InFlight(i) \/ issue[i].pc \in {"issued", "lost"}
    /\ StandsOnce

\* DebitInv, and that the tasks before the debit are not charged (without it a task
\* that gives its reservation back could still count as debited) and that only a
\* failing ledger loses a refund.
ChargeInv ==
    /\ DebitInv
    /\ \A i \in IssueTasks : issue[i].pc \in Undebited => i \notin charged
    /\ \A i \in IssueTasks : RefundLost(i) => "grant" \in Faulty

-----------------------------------------------------------------------------
(* One request, one debit. *)

\* A task moves on with its request, and nothing else of it changes.
Moves(i, p) ==
    /\ issue'[i].pc = p
    /\ \A j \in IssueTasks : j # i => issue'[j] = issue[j]
    /\ \A j \in IssueTasks : /\ issue'[j].acct = issue[j].acct /\ issue'[j].rid = issue[j].rid
                             /\ issue'[j].batch = issue[j].batch /\ issue'[j].run = issue[j].run

LEMMA MovesOn ==
    ASSUME TypeOK, NEW i \in IssueTasks, NEW p, issue' = [issue EXCEPT ![i].pc = p]
    PROVE  Moves(i, p)
BY DEF TypeOK, IssuerTypeOK, IssueTask, Moves

LEMMA PendingSlot ==
    ASSUME ChargeInv, NEW i \in IssueTasks, InFlight(i)
    PROVE  idem[KeyOf(i)].st = "pending"
<1>1. idem[KeyOf(i)] = [st |-> "pending", batch |-> issue[i].batch]
    BY DEF ChargeInv, DebitInv, ReservationOwned
<1> QED BY <1>1

\* Steps of a task that keeps its reservation and is charged as before, or now.
LEMMA KeepsReservation ==
    ASSUME TypeOK, ChargeInv, NEW i \in IssueTasks, NEW p \in IssueRunning,
           InFlight(i), Moves(i, p), UNCHANGED <<idem, incarnation>>,
           \/ charged' = charged /\ (p \in Undebited => issue[i].pc \in Undebited)
              /\ (issue[i].pc = "give_back" => p = "give_back")
              /\ (p = "give_back" => "grant" \in Faulty)
           \/ charged' = charged \cup {i} /\ p = "bump"
           \/ charged' = charged \ {i}
    PROVE  ChargeInv'
<1>1. \A j \in IssueTasks : KeyOf(j)' = KeyOf(j) /\ (InFlight(j)' <=> InFlight(j))
    BY DEF Moves, KeyOf, InFlight
<1>2. ReservationOwned'
    BY <1>1 DEF ChargeInv, DebitInv, ReservationOwned, Moves, Key
<1>3. \A j \in IssueTasks : issue'[j].pc \in Undebited => j \notin charged'
    BY DEF ChargeInv, Moves, Undebited
<1>4. \A j \in IssueTasks : DebitStands(j)' => DebitStands(j) \/ (j = i /\ InFlight(i))
    BY DEF DebitStands, RefundLost, Moves
<1>5. \A j \in IssueTasks :
          /\ issue'[j].run <= incarnation' /\ (InFlight(j)' => issue'[j].run = incarnation')
          /\ issue'[j].pc = "lost" => issue'[j].run < incarnation'
          /\ issue'[j].pc = "issued" /\ issue'[j].run = incarnation' => idem'[KeyOf(j)'].st = "done"
          /\ DebitStands(j)' => InFlight(j)' \/ issue'[j].pc \in {"issued", "lost"}
  <2> TAKE j \in IssueTasks
  <2>1. CASE j = i
      BY <1>1, <2>1 DEF ChargeInv, DebitInv, Moves, IssueRunning
  <2>2. CASE j # i
      BY <1>1, <1>4, <2>2 DEF ChargeInv, DebitInv, Moves
  <2> QED BY <2>1, <2>2
<1>6. StandsOnce'
  <2> SUFFICES ASSUME NEW j \in IssueTasks, NEW k \in IssueTasks, DebitStands(j)', DebitStands(k)',
                      issue'[j].run = issue'[k].run, KeyOf(j)' = KeyOf(k)'
               PROVE  j = k
      BY DEF StandsOnce
  <2>1. issue[j].run = issue[k].run /\ KeyOf(j) = KeyOf(k)
      BY <1>1 DEF Moves
  <2>2. CASE DebitStands(j) /\ DebitStands(k)
      BY <2>1, <2>2 DEF ChargeInv, DebitInv, StandsOnce
  <2>3. ASSUME NEW m \in IssueTasks, DebitStands(m), issue[m].run = issue[i].run, KeyOf(m) = KeyOf(i)
        PROVE  m = i
    <3>1. issue[i].run = incarnation /\ incarnation \in Nat
        BY DEF ChargeInv, DebitInv, TypeOK, IssuerTypeOK
    <3>3. idem[KeyOf(m)].st # "done"
        BY <2>3, PendingSlot
    <3>4. issue[m].run = incarnation
        BY <2>3, <3>1
    <3>5. issue[m].pc # "lost" /\ issue[m].pc # "issued"
        BY <3>1, <3>3, <3>4 DEF ChargeInv, DebitInv
    <3>6. InFlight(m)
        BY <2>3, <3>5 DEF ChargeInv, DebitInv
    <3> QED BY <2>3, <3>6 DEF ChargeInv, DebitInv, ReservationOwned
  <2> QED BY <1>4, <2>1, <2>2, <2>3
<1>7. \A j \in IssueTasks : RefundLost(j)' => "grant" \in Faulty
    BY DEF ChargeInv, RefundLost, Moves, IssueRunning
<1> QED BY <1>2, <1>3, <1>5, <1>6, <1>7 DEF ChargeInv, DebitInv

\* A task that ends frees its slot, or leaves the response there.
LEMMA EndsReservation ==
    ASSUME TypeOK, ChargeInv, NEW i \in IssueTasks, NEW p \in IssueReply, NEW e,
           InFlight(i), Moves(i, p), UNCHANGED <<incarnation, charged>>,
           idem' = [idem EXCEPT ![KeyOf(i)] = e], e.st # "pending", p # "idle",
           p = "issued" <=> e.st = "done",
           p = "issued" => issue[i].pc = "sign",
           p \in {"issued", "internal"} \/ issue[i].pc = "give_up",
           p = "internal" => issue[i].pc = "give_back"
    PROVE  ChargeInv'
<1>1. KeyOf(i) \in Key /\ idem \in [Key -> Entry] /\ IssueReply \cap IssueRunning = {}
      /\ "lost" \notin IssueReply /\ IssueReply \cap Undebited = {}
  <2>1. issue[i].pc # "idle"
      BY DEF InFlight, IssueRunning
  <2> QED BY <2>1, TaskFacts DEF TypeOK, IssuerTypeOK, IssueReply, IssueRunning, Undebited
<1>2. \A j \in IssueTasks : KeyOf(j)' = KeyOf(j) /\ (InFlight(j)' <=> InFlight(j) /\ j # i)
    BY <1>1 DEF Moves, KeyOf, InFlight
<1>3. /\ \A k \in Key : idem[k].st = "pending" => \E j \in IssueTasks : InFlight(j) /\ KeyOf(j) = k
      /\ \A j \in IssueTasks : InFlight(j) => idem[KeyOf(j)] = [st |-> "pending", batch |-> issue[j].batch]
      /\ \A j \in IssueTasks : InFlight(j) /\ KeyOf(j) = KeyOf(i) => j = i
      /\ \A j, k \in IssueTasks : InFlight(j) /\ InFlight(k) /\ KeyOf(j) = KeyOf(k) => j = k
    BY DEF ChargeInv, DebitInv, ReservationOwned
<1>4. \A k \in Key : k # KeyOf(i) => idem'[k] = idem[k]
    BY <1>1
<1>5. idem'[KeyOf(i)] = e
    BY <1>1
<1>6. ReservationOwned'
  <2>1. ASSUME NEW k \in Key, idem'[k].st = "pending"
        PROVE  \E j \in IssueTasks : InFlight(j)' /\ KeyOf(j)' = k
    <3>1. k # KeyOf(i)
        BY <1>5, <2>1
    <3>2. PICK j \in IssueTasks : InFlight(j) /\ KeyOf(j) = k
        BY <1>3, <1>4, <2>1, <3>1
    <3> QED BY <1>2, <3>1, <3>2
  <2>2. ASSUME NEW j \in IssueTasks, InFlight(j)'
        PROVE  idem'[KeyOf(j)'] = [st |-> "pending", batch |-> issue'[j].batch]
    <3>1. InFlight(j) /\ j # i /\ KeyOf(j) # KeyOf(i) /\ KeyOf(j)' = KeyOf(j)
        BY <1>2, <1>3, <2>2
    <3>2. KeyOf(j) \in Key
      <4>1. issue[j].pc # "idle"
          BY <3>1 DEF InFlight, IssueRunning
      <4> QED BY <4>1, TaskFacts
    <3> QED BY <1>3, <1>4, <3>1, <3>2 DEF Moves
  <2>3. ASSUME NEW j \in IssueTasks, NEW k \in IssueTasks, InFlight(j)', InFlight(k)', KeyOf(j)' = KeyOf(k)'
        PROVE  j = k
      BY <1>2, <1>3, <2>3
  <2> QED BY <2>1, <2>2, <2>3 DEF ReservationOwned
<1>7. \A j \in IssueTasks : issue'[j].pc \in Undebited => j \notin charged'
    BY <1>1 DEF ChargeInv, Moves
<1>8. \A j \in IssueTasks : DebitStands(j)' => DebitStands(j) /\ (j = i => p = "issued")
  <2> SUFFICES ASSUME NEW j \in IssueTasks, DebitStands(j)'
               PROVE  DebitStands(j) /\ (j = i => p = "issued")
      OBVIOUS
  <2>1. CASE j # i
      BY <2>1 DEF DebitStands, RefundLost, Moves
  <2>2. CASE j = i
    <3>1. i \in charged /\ p # "internal"
        BY <2>2 DEF DebitStands, RefundLost, Moves
    <3>2. issue[i].pc # "give_up"
        BY <3>1 DEF ChargeInv, Undebited
    <3>3. p = "issued" /\ e.st = "done"
        BY <3>1, <3>2
    <3>4. DebitStands(i)
        BY <3>1, <3>3 DEF DebitStands, RefundLost
    <3> QED BY <2>2, <3>3, <3>4
  <2> QED BY <2>1, <2>2
<1>9. \A j \in IssueTasks :
          /\ issue'[j].run <= incarnation' /\ (InFlight(j)' => issue'[j].run = incarnation')
          /\ issue'[j].pc = "lost" => issue'[j].run < incarnation'
          /\ issue'[j].pc = "issued" /\ issue'[j].run = incarnation' => idem'[KeyOf(j)'].st = "done"
          /\ DebitStands(j)' => InFlight(j)' \/ issue'[j].pc \in {"issued", "lost"}
  <2> SUFFICES ASSUME NEW j \in IssueTasks
               PROVE  /\ issue'[j].run <= incarnation' /\ (InFlight(j)' => issue'[j].run = incarnation')
                      /\ issue'[j].pc = "lost" => issue'[j].run < incarnation'
                      /\ issue'[j].pc = "issued" /\ issue'[j].run = incarnation'
                            => idem'[KeyOf(j)'].st = "done"
                      /\ DebitStands(j)' => InFlight(j)' \/ issue'[j].pc \in {"issued", "lost"}
      OBVIOUS
  <2>1. CASE j = i
      BY <1>1, <1>2, <1>5, <1>8, <2>1 DEF ChargeInv, DebitInv, Moves
  <2>2. CASE j # i
    <3>1. issue'[j] = issue[j] /\ KeyOf(j)' = KeyOf(j) /\ (InFlight(j)' <=> InFlight(j))
        BY <1>2, <2>2 DEF Moves
    <3>2. ASSUME issue[j].pc = "issued", issue[j].run = incarnation PROVE idem'[KeyOf(j)].st = "done"
      <4>1. KeyOf(j) \in Key
          BY <3>2, TaskFacts
      <4>2. idem[KeyOf(j)].st = "done"
          BY <3>2 DEF ChargeInv, DebitInv
      <4>3. KeyOf(j) # KeyOf(i)
          BY <4>2, PendingSlot
      <4> QED BY <1>4, <4>1, <4>2, <4>3
    <3> QED BY <1>8, <3>1, <3>2 DEF ChargeInv, DebitInv
  <2> QED BY <2>1, <2>2
<1>10. StandsOnce'
    BY <1>2, <1>8 DEF ChargeInv, DebitInv, StandsOnce, Moves
<1>11. \A j \in IssueTasks : RefundLost(j)' => "grant" \in Faulty
    BY <1>1 DEF ChargeInv, RefundLost, Moves, IssueRunning
<1> QED BY <1>6, <1>7, <1>9, <1>10, <1>11 DEF ChargeInv, DebitInv

\* A task begins: its slot is free and becomes its reservation, or it ends at once.
LEMMA BeginsReservation ==
    ASSUME TypeOK, ChargeInv, NEW i \in IssueTasks, NEW a \in Accounts, NEW r \in ReqIds,
           NEW b \in Batches, IssueBegin(i, a, r, b)
    PROVE  ChargeInv'
<1> DEFINE k == <<a, r>>
           p == BeginOutcome(idem[k], b)
           new == [pc |-> p, acct |-> a, rid |-> r, batch |-> b, run |-> incarnation]
<1>1. /\ k \in Key /\ idem \in [Key -> Entry] /\ issue \in [IssueTasks -> IssueTask]
      /\ incarnation \in Nat
    BY DEF Key, TypeOK, IssuerTypeOK
<1>2. /\ issue[i].pc = "idle" /\ issue' = [issue EXCEPT ![i] = new]
      /\ idem' = [idem EXCEPT ![k] = BeginEntry(idem[k], b)] /\ UNCHANGED <<incarnation, charged>>
    BY DEF IssueBegin
<1>3. /\ issue'[i].pc = p /\ issue'[i].batch = b /\ issue'[i].run = incarnation
      /\ <<issue'[i].acct, issue'[i].rid>> = k
      /\ \A j \in IssueTasks : j # i => issue'[j] = issue[j]
    BY <1>1, <1>2
<1>4. /\ idem[k].st = "free" => p = "debit" /\ BeginEntry(idem[k], b) = [st |-> "pending", batch |-> b]
      /\ idem[k].st # "free" => p \in {"concurrent", "replay", "conflict"} /\ BeginEntry(idem[k], b) = idem[k]
    BY <1>1 DEF BeginOutcome, BeginEntry, Entry
<1>5. /\ idem'[k] = BeginEntry(idem[k], b) /\ \A q \in Key : q # k => idem'[q] = idem[q]
    BY <1>1, <1>2
<1> HIDE DEF p, k, new
<1>6. /\ KeyOf(i)' = k /\ \A j \in IssueTasks : j # i => KeyOf(j)' = KeyOf(j)
      /\ \A j \in IssueTasks : j # i => (InFlight(j)' <=> InFlight(j))
      /\ InFlight(i)' <=> idem[k].st = "free"
      /\ ~InFlight(i) /\ i \notin charged
  <2>1. ~InFlight(i) /\ i \notin charged
      BY <1>2 DEF InFlight, IssueRunning, ChargeInv, Undebited
  <2>2. InFlight(i)' <=> idem[k].st = "free"
      BY <1>3, <1>4 DEF InFlight, IssueRunning
  <2> QED BY <1>3, <2>1, <2>2 DEF KeyOf, InFlight
<1>7. /\ \A q \in Key : idem[q].st = "pending" => \E j \in IssueTasks : InFlight(j) /\ KeyOf(j) = q
      /\ \A j \in IssueTasks : InFlight(j) => idem[KeyOf(j)] = [st |-> "pending", batch |-> issue[j].batch]
      /\ \A j, m \in IssueTasks : InFlight(j) /\ InFlight(m) /\ KeyOf(j) = KeyOf(m) => j = m
    BY DEF ChargeInv, DebitInv, ReservationOwned
<1>8. \A j \in IssueTasks : InFlight(j) => KeyOf(j) \in Key /\ j # i
  <2>1. \A j \in IssueTasks : InFlight(j) => issue[j].pc # "idle"
      BY DEF InFlight, IssueRunning
  <2> QED BY <1>6, <2>1, TaskFacts
<1>9. idem[k].st = "free" => \A j \in IssueTasks : InFlight(j) => KeyOf(j) # k
    BY PendingSlot
<1>10. ReservationOwned'
  <2>1. ASSUME NEW q \in Key, idem'[q].st = "pending"
        PROVE  \E j \in IssueTasks : InFlight(j)' /\ KeyOf(j)' = q
    <3>1. CASE idem[q].st = "pending"
      <4>1. PICK j \in IssueTasks : InFlight(j) /\ KeyOf(j) = q
          BY <1>7, <3>1
      <4> QED BY <1>6, <1>8, <4>1
    <3>2. CASE idem[q].st # "pending"
      <4>1. q = k /\ idem[k].st = "free"
          BY <1>4, <1>5, <2>1, <3>2
      <4> QED BY <1>6, <4>1
    <3> QED BY <3>1, <3>2
  <2>2. ASSUME NEW j \in IssueTasks, InFlight(j)'
        PROVE  idem'[KeyOf(j)'] = [st |-> "pending", batch |-> issue'[j].batch]
    <3>1. CASE j = i
        BY <1>3, <1>4, <1>5, <1>6, <2>2, <3>1
    <3>2. CASE j # i
      <4>1. /\ InFlight(j) /\ KeyOf(j) \in Key /\ KeyOf(j)' = KeyOf(j) /\ issue'[j] = issue[j]
            /\ idem[KeyOf(j)] = [st |-> "pending", batch |-> issue[j].batch]
          BY <1>3, <1>6, <1>7, <1>8, <2>2, <3>2
      <4>2. idem'[KeyOf(j)] = idem[KeyOf(j)]
          BY <1>4, <1>5, <1>9, <4>1
      <4> QED BY <4>1, <4>2
    <3> QED BY <3>1, <3>2
  <2>3. ASSUME NEW j \in IssueTasks, NEW m \in IssueTasks, InFlight(j)', InFlight(m)', KeyOf(j)' = KeyOf(m)'
        PROVE  j = m
      BY <1>6, <1>7, <1>9, <2>3
  <2> QED BY <2>1, <2>2, <2>3 DEF ReservationOwned
<1>11. \A j \in IssueTasks : DebitStands(j)' => DebitStands(j) /\ j # i
    BY <1>2, <1>3, <1>6 DEF DebitStands, RefundLost
<1>12. \A j \in IssueTasks : issue'[j].pc \in Undebited => j \notin charged'
    BY <1>2, <1>3, <1>6 DEF ChargeInv
<1>13. \A j \in IssueTasks :
          /\ issue'[j].run <= incarnation' /\ (InFlight(j)' => issue'[j].run = incarnation')
          /\ issue'[j].pc = "lost" => issue'[j].run < incarnation'
          /\ issue'[j].pc = "issued" /\ issue'[j].run = incarnation' => idem'[KeyOf(j)'].st = "done"
          /\ DebitStands(j)' => InFlight(j)' \/ issue'[j].pc \in {"issued", "lost"}
  <2> SUFFICES ASSUME NEW j \in IssueTasks
               PROVE  /\ issue'[j].run <= incarnation' /\ (InFlight(j)' => issue'[j].run = incarnation')
                      /\ issue'[j].pc = "lost" => issue'[j].run < incarnation'
                      /\ issue'[j].pc = "issued" /\ issue'[j].run = incarnation'
                            => idem'[KeyOf(j)'].st = "done"
                      /\ DebitStands(j)' => InFlight(j)' \/ issue'[j].pc \in {"issued", "lost"}
      OBVIOUS
  <2>1. CASE j = i
      BY <1>1, <1>2, <1>3, <1>4, <1>11, <2>1
  <2>2. CASE j # i
    <3>1. ASSUME issue[j].pc = "issued", issue[j].run = incarnation PROVE idem'[KeyOf(j)].st = "done"
      <4>1. KeyOf(j) \in Key
          BY <3>1, TaskFacts
      <4>2. idem[KeyOf(j)].st = "done"
          BY <3>1 DEF ChargeInv, DebitInv
      <4> QED BY <1>4, <1>5, <4>1, <4>2
    <3> QED BY <1>2, <1>3, <1>6, <1>11, <2>2, <3>1 DEF ChargeInv, DebitInv
  <2> QED BY <2>1, <2>2
<1>14. StandsOnce'
  <2> SUFFICES ASSUME NEW j \in IssueTasks, NEW m \in IssueTasks, DebitStands(j)', DebitStands(m)',
                      issue'[j].run = issue'[m].run, KeyOf(j)' = KeyOf(m)'
               PROVE  j = m
      BY DEF StandsOnce
  <2>1. /\ DebitStands(j) /\ DebitStands(m) /\ issue[j].run = issue[m].run /\ KeyOf(j) = KeyOf(m)
      BY <1>3, <1>6, <1>11
  <2> QED BY <2>1 DEF ChargeInv, DebitInv, StandsOnce
<1>15. \A j \in IssueTasks : RefundLost(j)' => "grant" \in Faulty
    BY <1>2, <1>3, <1>6 DEF ChargeInv, RefundLost
<1> QED BY <1>10, <1>12, <1>13, <1>14, <1>15 DEF ChargeInv, DebitInv

\* The restart forgets every slot, and the requests in progress with them.
LEMMA CrashReservations ==
    ASSUME TypeOK, ChargeInv, Crash
    PROVE  ChargeInv'
<1>1. /\ issue \in [IssueTasks -> IssueTask] /\ incarnation \in Nat
      /\ idem' = [k \in Key |-> Free] /\ incarnation' = incarnation + 1 /\ UNCHANGED charged
      /\ issue' = [i \in IssueTasks |->
                      IF InFlight(i) THEN [issue[i] EXCEPT !.pc = "lost"] ELSE issue[i]]
    BY DEF TypeOK, IssuerTypeOK, Crash, IssuerCrash
<1>2. \A i \in IssueTasks :
          /\ KeyOf(i)' = KeyOf(i) /\ issue'[i].run = issue[i].run /\ issue[i].run \in Nat
          /\ issue'[i].pc = IF InFlight(i) THEN "lost" ELSE issue[i].pc
    BY <1>1 DEF KeyOf, IssueTask
<1>3. \A i \in IssueTasks : ~InFlight(i)'
    BY <1>2 DEF InFlight, IssueRunning
<1>4. \A k \in Key : idem'[k].st = "free"
    BY <1>1 DEF Free
<1>5. ReservationOwned'
    BY <1>3, <1>4 DEF ReservationOwned
<1>6. \A i \in IssueTasks : DebitStands(i)' => DebitStands(i) \/ (InFlight(i) /\ i \in charged)
    BY <1>1, <1>2 DEF DebitStands, RefundLost
<1>7. \A i \in IssueTasks :
          /\ issue'[i].run <= incarnation' /\ issue'[i].run # incarnation'
          /\ issue'[i].pc = "lost" => issue'[i].run < incarnation'
    BY <1>1, <1>2 DEF ChargeInv, DebitInv
<1>8. \A i \in IssueTasks : DebitStands(i)' => issue'[i].pc \in {"issued", "lost"}
    BY <1>2, <1>6 DEF ChargeInv, DebitInv
<1>9. \A i \in IssueTasks : issue'[i].pc \in Undebited => i \notin charged'
    BY <1>1, <1>2 DEF ChargeInv, Undebited
<1>10. StandsOnce'
  <2> SUFFICES ASSUME NEW i \in IssueTasks, NEW j \in IssueTasks, DebitStands(i)', DebitStands(j)',
                      issue'[i].run = issue'[j].run, KeyOf(i)' = KeyOf(j)'
               PROVE  i = j
      BY DEF StandsOnce
  <2>1. issue[i].run = issue[j].run /\ KeyOf(i) = KeyOf(j)
      BY <1>2
  <2>2. CASE DebitStands(i) /\ DebitStands(j)
      BY <2>1, <2>2 DEF ChargeInv, DebitInv, StandsOnce
  <2>3. ASSUME NEW m \in IssueTasks, NEW n \in IssueTasks, InFlight(m), KeyOf(n) = KeyOf(m),
               issue[n].run = issue[m].run, DebitStands(n) \/ InFlight(n)
        PROVE  n = m
    <3>1. issue[m].run = incarnation /\ issue[n].run = incarnation
        BY <2>3 DEF ChargeInv, DebitInv
    <3>2. idem[KeyOf(n)].st # "done"
        BY <2>3, PendingSlot
    <3>3. issue[n].pc # "lost" /\ issue[n].pc # "issued"
        BY <1>1, <3>1, <3>2 DEF ChargeInv, DebitInv
    <3>4. InFlight(n)
        BY <2>3, <3>3 DEF ChargeInv, DebitInv
    <3> QED BY <2>3, <3>4 DEF ChargeInv, DebitInv, ReservationOwned
  <2> QED BY <1>6, <2>1, <2>2, <2>3
<1>11. \A i \in IssueTasks : RefundLost(i)' => "grant" \in Faulty
    BY <1>1, <1>2 DEF ChargeInv, RefundLost
<1> QED BY <1>3, <1>5, <1>7, <1>8, <1>9, <1>10, <1>11 DEF ChargeInv, DebitInv

LEMMA ChargeStart == Init => ChargeInv
<1> SUFFICES ASSUME Init PROVE ChargeInv
    OBVIOUS
<1>1. /\ \A i \in IssueTasks : issue[i].pc = "idle" /\ issue[i].run = 0
      /\ incarnation = 0 /\ charged = {} /\ \A k \in Key : idem[k].st = "free"
    BY DEF Init, IssuerInit, Free
<1>2. \A i \in IssueTasks : ~InFlight(i) /\ ~DebitStands(i) /\ ~RefundLost(i)
    BY <1>1 DEF InFlight, IssueRunning, DebitStands, RefundLost
<1> QED BY <1>1, <1>2 DEF ChargeInv, DebitInv, ReservationOwned, StandsOnce

LEMMA ChargeStep == TypeOK /\ ChargeInv /\ [Next]_vars => ChargeInv'
<1> SUFFICES ASSUME TypeOK, ChargeInv, [Next]_vars PROVE ChargeInv'
    OBVIOUS
<1>1. ASSUME UNCHANGED <<idem, issue, incarnation, charged>> PROVE ChargeInv'
    BY <1>1 DEF ChargeInv, DebitInv, ReservationOwned, StandsOnce, DebitStands, RefundLost, InFlight, KeyOf
<1>2. ASSUME NEW i \in IssueTasks, IssueStep(i) PROVE ChargeInv'
  <2>1. ASSUME NEW p \in IssueRunning, InFlight(i), issue' = [issue EXCEPT ![i].pc = p],
               UNCHANGED <<idem, incarnation>>,
               \/ charged' = charged /\ (p \in Undebited => issue[i].pc \in Undebited)
                  /\ (issue[i].pc = "give_back" => p = "give_back")
                  /\ (p = "give_back" => "grant" \in Faulty)
               \/ charged' = charged \cup {i} /\ p = "bump"
               \/ charged' = charged \ {i}
        PROVE  ChargeInv'
    <3>1. Moves(i, p)
        BY <2>1, MovesOn
    <3> QED BY <2>1, <3>1, KeepsReservation
  <2>2. issue[i].pc \in IssueRunning => InFlight(i)
      BY DEF InFlight
  <2>3. CASE IssueDebit(i)
      BY <2>1, <2>2, <2>3 DEF IssueDebit, IssueRunning
  <2>4. CASE IssueDebitRefused(i)
      BY <2>1, <2>2, <2>4 DEF IssueDebitRefused, IssueRunning, Undebited
  <2>5. CASE IssueBump(i) \/ IssueBumpFault(i)
      BY <2>1, <2>2, <2>5 DEF IssueBump, IssueBumpFault, IssueRunning, Undebited
  <2>6. CASE IssueSignFail(i)
      BY <2>1, <2>2, <2>6 DEF IssueSignFail, IssueRunning, Undebited
  <2>7. CASE IssueRefund(i) \/ IssueRefundDropped(i)
      BY <2>1, <2>2, <2>7 DEF IssueRefund, IssueRefundDropped, IssueRunning, Undebited
  <2>8. CASE IssueSign(i)
    <3>1. PICK e : e = [st |-> "done", batch |-> issue[i].batch]
        OBVIOUS
    <3>2. /\ issue[i].pc = "sign" /\ idem' = [idem EXCEPT ![KeyOf(i)] = e] /\ e.st = "done"
          /\ issue' = [issue EXCEPT ![i].pc = "issued"] /\ UNCHANGED <<incarnation, charged>>
        BY <2>8, <3>1 DEF IssueSign
    <3>3. InFlight(i) /\ "issued" \in IssueReply
        BY <3>2 DEF InFlight, IssueRunning, IssueReply
    <3>4. Moves(i, "issued")
        BY <3>2, MovesOn
    <3> QED BY <3>2, <3>3, <3>4, EndsReservation
  <2>9. CASE IssueRelease(i)
    <3>1. PICK p : p = IF issue[i].pc = "give_up" THEN "insufficient" ELSE "internal"
        OBVIOUS
    <3>2. PICK e : e = Free
        OBVIOUS
    <3>3. /\ issue[i].pc \in {"give_up", "give_back"} /\ idem' = [idem EXCEPT ![KeyOf(i)] = e]
          /\ issue' = [issue EXCEPT ![i].pc = p] /\ UNCHANGED <<incarnation, charged>>
        BY <2>9, <3>1, <3>2 DEF IssueRelease
    <3>4. /\ InFlight(i) /\ p \in IssueReply /\ e.st = "free" /\ p # "issued" /\ p # "idle"
          /\ p = "internal" \/ issue[i].pc = "give_up"
          /\ p = "internal" => issue[i].pc = "give_back"
        BY <3>1, <3>2, <3>3 DEF InFlight, IssueRunning, IssueReply, Free
    <3>5. Moves(i, p)
        BY <3>3, MovesOn
    <3> QED BY <3>3, <3>4, <3>5, EndsReservation
  <2> QED BY <1>2, <2>3, <2>4, <2>5, <2>6, <2>7, <2>8, <2>9 DEF IssueStep
<1>3. CASE IssuerNext
    BY <1>1, <1>2, <1>3, BeginsReservation DEF IssuerNext, Redeem, AdminGrant, issuerVars
<1> QED BY <1>1, <1>3, CrashReservations DEF Next, vars, issuerVars

LEMMA ChargeInvariant == Spec => []ChargeInv
BY ChargeStart, ChargeStep, TypeCorrect, PTL DEF Spec

\* Every reservation of the idempotency cache has the one running task that made it,
\* for any number of requests, repeats, failures and restarts (issue, idem.rs).
THEOREM ReservationsHaveOwners == Spec => []ReservationOwned
<1>1. ChargeInv => ReservationOwned
    BY DEF ChargeInv, DebitInv
<1> QED BY <1>1, ChargeInvariant, PTL

\* One request id debits its account at most once between two restarts, however its
\* repeats interleave, but for a repeat after a refund the ledger lost; and at most
\* once without exception where the ledger's grants do not fail (issue, steps 8 to
\* 10).
THEOREM RequestDebitedOnce ==
    /\ Spec => []DebitedOnce
    /\ "grant" \notin Faulty =>
          (Spec => [](\A i, j \in charged :
                         issue[i].run = issue[j].run /\ KeyOf(i) = KeyOf(j) => i = j))
<1>1. TypeOK /\ ChargeInv => DebitedOnce
  <2> SUFFICES ASSUME TypeOK, ChargeInv, NEW i \in charged, NEW j \in charged,
                      issue[i].run = issue[j].run, KeyOf(i) = KeyOf(j), i # j
               PROVE  "grant" \in Faulty /\ (RefundLost(i) \/ RefundLost(j))
      BY DEF DebitedOnce
  <2>1. i \in IssueTasks /\ j \in IssueTasks
      BY DEF TypeOK, IssuerTypeOK
  <2>2. RefundLost(i) \/ RefundLost(j)
      BY <2>1 DEF ChargeInv, DebitInv, StandsOnce, DebitStands
  <2> QED BY <2>1, <2>2 DEF ChargeInv
<1>2. ASSUME "grant" \notin Faulty
      PROVE  DebitedOnce => \A i, j \in charged :
                               issue[i].run = issue[j].run /\ KeyOf(i) = KeyOf(j) => i = j
    BY <1>2 DEF DebitedOnce
<1>3. Spec => []DebitedOnce
    BY <1>1, ChargeInvariant, TypeCorrect, PTL
<1>4. ASSUME "grant" \notin Faulty
      PROVE  Spec => [](\A i, j \in charged :
                           issue[i].run = issue[j].run /\ KeyOf(i) = KeyOf(j) => i = j)
    BY <1>2, <1>3, <1>4, PTL
<1> QED BY <1>3, <1>4

-----------------------------------------------------------------------------
(* The books. *)

\* The steps that write the store, or what its history records.
LEMMA BookSteps ==
    ASSUME [Next]_vars
    PROVE  \/ UNCHANGED <<storeVars, granted, refunded>>
           \/ \E i \in IssueTasks : IssueDebit(i) \/ IssueBump(i) \/ IssueRefund(i)
           \/ \E t \in Tokens : Redeem(t)
           \/ \E a \in Accounts, n \in GrantAmounts : AdminGrant(a, n)
           \/ /\ UNCHANGED <<granted, refunded, released>>
              /\ \/ \E x \in ExecTasks : ExecSpend(x)
                 \/ \E h \in Hosts, t \in Tokens : ReceiptIngest(h, t)
                 \/ \E a \in Accounts : GrantTrial(a)
                 \/ \E h \in Hosts : HostRegister(h) \/ HostAdmit(h)
<1>1. CASE IssuerNext
    BY <1>1 DEF IssuerNext, IssueBegin, IssueStep, IssueDebitRefused, IssueBumpFault, IssueSign,
       IssueSignFail, IssueRefundDropped, IssueRelease
<1>2. CASE BrokerNext(released) /\ UNCHANGED issuerVars
    BY <1>2 DEF BrokerNext, ExecRoute, ExecNoHost, ExecStep, ExecDoubleSpend, ExecRefused,
       ExecForward, NewDay, issuerVars
<1> QED BY <1>1, <1>2 DEF Next, Crash, IssuerCrash, vars, issuerVars

\* One more member, counted.
LEMMA OneMore ==
    ASSUME NEW U, IsFiniteSet(U), NEW S \in SUBSET U, NEW T, NEW t \in U, t \notin S, T = S \cup {t}
    PROVE  Cardinality(S) \in Nat /\ Cardinality(T) = Cardinality(S) + 1
<1>1. IsFiniteSet(S)
    BY FS_Subset
<1> QED BY <1>1, FS_AddElement, FS_CardinalityType

\* What an account earned, by cause.
Trialled(a) == IF trial_accts[a] = None THEN 0 ELSE trial_grant
Receipts(a) == {t \in Tokens : receipts[t] = a}
Due(a) == granted[a] + refunded[a] + Trialled(a) + Cardinality(Receipts(a))

LEMMA DueType ==
    ASSUME TypeOK, NEW a \in Accounts
    PROVE  /\ granted[a] \in Nat /\ refunded[a] \in Nat /\ Trialled(a) \in Nat
           /\ Cardinality(Receipts(a)) \in Nat /\ Due(a) \in Nat
           /\ ledger[a] \in LedgerRow /\ ledger[a].earned \in Nat /\ U64Max \in Nat
<1>1. Cardinality(Receipts(a)) \in Nat
    BY BatchSize DEF Receipts
<1>2. granted[a] \in Nat /\ refunded[a] \in Nat /\ Trialled(a) \in Nat
    BY BrokerAssumption, StoreAssumption DEF TypeOK, IssuerTypeOK, Trialled
<1>3. ledger[a] \in LedgerRow /\ ledger[a].earned \in Nat /\ U64Max \in Nat
    BY StoreAssumption DEF TypeOK, StoreTypeOK, LedgerRow, U64
<1> QED BY <1>1, <1>2, <1>3 DEF Due

\* A credit that has a cause keeps the account's books, and no other account's change.
LEMMA EarnedCredit ==
    ASSUME TypeOK, EarnedAccounted, NEW a \in Accounts, NEW n \in Nat,
           ledger' = [ledger EXCEPT ![a] = Credit(ledger[a], n)],
           Due(a)' = Due(a) + n, \A b \in Accounts : b # a => Due(b)' = Due(b)
    PROVE  EarnedAccounted'
<1> SUFFICES ASSUME NEW b \in Accounts, ledger'[b].earned < U64Max
             PROVE  ledger'[b].earned = Due(b)'
    BY DEF EarnedAccounted, Due, Trialled, Receipts
<1>1. ledger \in [Accounts -> LedgerRow] /\ (ledger[b].earned < U64Max => ledger[b].earned = Due(b))
    BY DEF TypeOK, StoreTypeOK, EarnedAccounted, Due, Trialled, Receipts
<1>2. CASE b # a
    BY <1>1, <1>2
<1>3. CASE b = a
  <2>1. ledger'[a].earned = SatAdd(ledger[a].earned, n)
      BY <1>1 DEF Credit, LedgerRow
  <2>2. ledger[a].earned \in Nat /\ U64Max \in Nat
      BY DueType
  <2>3. ledger'[a].earned = ledger[a].earned + n /\ ledger[a].earned < U64Max
      BY <1>3, <2>1, <2>2 DEF SatAdd
  <2> QED BY <1>1, <1>3, <2>3
<1> QED BY <1>2, <1>3

LEMMA EarnedFrame ==
    ASSUME TypeOK, EarnedAccounted, UNCHANGED <<granted, refunded, trial_accts, receipts>>,
           \A b \in Accounts : ledger'[b].earned = ledger[b].earned
    PROVE  EarnedAccounted'
BY DEF EarnedAccounted

LEMMA EarnedStep == TypeOK /\ EarnedAccounted /\ [Next]_vars => EarnedAccounted'
<1> SUFFICES ASSUME TypeOK, EarnedAccounted, [Next]_vars PROVE EarnedAccounted'
    OBVIOUS
<1>1. /\ ledger \in [Accounts -> LedgerRow] /\ receipts \in [Tokens -> Hosts \cup {None}]
      /\ granted \in [Accounts -> Nat] /\ refunded \in [Accounts -> Nat]
      /\ trial_accts \in [Accounts -> Days \cup {None}] /\ day \in Days
    BY DEF TypeOK, StoreTypeOK, IssuerTypeOK, BrokerTypeOK
<1>2. \A a \in Accounts : /\ granted[a] \in Nat /\ refunded[a] \in Nat /\ Trialled(a) \in Nat
                          /\ Cardinality(Receipts(a)) \in Nat
    BY DueType
<1>3. ASSUME NEW i \in IssueTasks, IssueDebit(i) PROVE EarnedAccounted'
  <2>1. PICK a \in Accounts : a = issue[i].acct
      BY <1>3, TaskFacts DEF IssueDebit
  <2>2. \A b \in Accounts : ledger'[b].earned = ledger[b].earned
      BY <1>1, <1>3, <2>1 DEF IssueDebit, Debit, LedgerRow
  <2> QED BY <1>3, <2>2, EarnedFrame DEF IssueDebit
<1>4. ASSUME NEW i \in IssueTasks, IssueRefund(i) PROVE EarnedAccounted'
  <2>1. PICK a \in Accounts, n \in Nat : a = issue[i].acct /\ n = Amount(i)
      BY <1>4, TaskFacts DEF IssueRefund
  <2>2. /\ ledger' = [ledger EXCEPT ![a] = Credit(ledger[a], n)]
        /\ refunded' = [refunded EXCEPT ![a] = @ + n] /\ UNCHANGED <<granted, trial_accts, receipts>>
      BY <1>4, <2>1 DEF IssueRefund
  <2>3. Due(a)' = Due(a) + n /\ \A b \in Accounts : b # a => Due(b)' = Due(b)
      BY <1>1, <1>2, <2>2 DEF Due, Trialled, Receipts
  <2> QED BY <2>2, <2>3, EarnedCredit
<1>5. ASSUME NEW a \in Accounts, NEW n \in GrantAmounts, AdminGrant(a, n) PROVE EarnedAccounted'
  <2>1. n \in Nat
      BY IssuerAssumption, StoreAssumption
  <2>2. /\ ledger' = [ledger EXCEPT ![a] = Credit(ledger[a], n)]
        /\ granted' = [granted EXCEPT ![a] = @ + n] /\ UNCHANGED <<refunded, trial_accts, receipts>>
      BY <1>5 DEF AdminGrant
  <2>3. Due(a)' = Due(a) + n /\ \A b \in Accounts : b # a => Due(b)' = Due(b)
      BY <1>1, <1>2, <2>1, <2>2 DEF Due, Trialled, Receipts
  <2> QED BY <2>1, <2>2, <2>3, EarnedCredit
<1>6. ASSUME NEW h \in Hosts, NEW t \in Tokens, ReceiptIngest(h, t), UNCHANGED <<granted, refunded>>
      PROVE  EarnedAccounted'
  <2>1. h \in Accounts /\ None \notin Accounts
      BY StoreAssumption
  <2>2. /\ receipts[t] = None /\ receipts' = [receipts EXCEPT ![t] = h]
        /\ ledger' = [ledger EXCEPT ![h] = Credit(ledger[h], 1)] /\ UNCHANGED trial_accts
      BY <1>6 DEF ReceiptIngest, ReceiptAccepted
  <2>3. Receipts(h)' = Receipts(h) \cup {t} /\ t \notin Receipts(h)
      BY <1>1, <2>1, <2>2 DEF Receipts
  <2>4. Cardinality(Receipts(h)') = Cardinality(Receipts(h)) + 1
    <3>1. Receipts(h) \in SUBSET Tokens
        BY DEF Receipts
    <3> QED BY <2>3, <3>1, OneMore, StoreAssumption
  <2>5. \A b \in Accounts : b # h => Receipts(b)' = Receipts(b)
      BY <1>1, <2>1, <2>2 DEF Receipts
  <2>6. Due(h)' = Due(h) + 1
      BY <1>2, <1>6, <2>1, <2>2, <2>4 DEF Due, Trialled
  <2>7. \A b \in Accounts : b # h => Due(b)' = Due(b)
      BY <1>6, <2>2, <2>5 DEF Due, Trialled
  <2> QED BY <2>1, <2>2, <2>6, <2>7, EarnedCredit
<1>7. ASSUME NEW a \in Accounts, GrantTrial(a), UNCHANGED <<granted, refunded>>
      PROVE  EarnedAccounted'
  <2>1. trial_grant \in Nat
      BY BrokerAssumption, StoreAssumption
  <2>2. /\ trial_accts[a] = None /\ trial_accts' = [trial_accts EXCEPT ![a] = day]
        /\ ledger' = [ledger EXCEPT ![a] = Credit(ledger[a], trial_grant)] /\ UNCHANGED receipts
      BY <1>7 DEF GrantTrial
  <2>3. Trialled(a) = 0 /\ Trialled(a)' = trial_grant
      BY <1>1, <2>2, BrokerAssumption DEF Trialled
  <2>4. \A b \in Accounts : b # a => Trialled(b)' = Trialled(b)
      BY <1>1, <2>2 DEF Trialled
  <2>5. \A b \in Accounts : Receipts(b)' = Receipts(b)
      BY <2>2 DEF Receipts
  <2>6. Due(a)' = Due(a) + trial_grant
      BY <1>2, <1>7, <2>1, <2>3, <2>5 DEF Due
  <2>7. \A b \in Accounts : b # a => Due(b)' = Due(b)
      BY <1>7, <2>4, <2>5 DEF Due
  <2> QED BY <2>1, <2>2, <2>6, <2>7, EarnedCredit
<1>8. ASSUME UNCHANGED <<ledger, granted, refunded, trial_accts, receipts>> PROVE EarnedAccounted'
    BY <1>8, EarnedFrame
<1>9. CASE UNCHANGED <<storeVars, granted, refunded>>
    BY <1>8, <1>9 DEF storeVars
<1>10. ASSUME NEW i \in IssueTasks, IssueBump(i) PROVE EarnedAccounted'
    BY <1>8, <1>10 DEF IssueBump
<1>11. ASSUME NEW t \in Tokens, Redeem(t) PROVE EarnedAccounted'
    BY <1>8, <1>11 DEF Redeem, issuerVars
<1>12. ASSUME NEW x \in ExecTasks, ExecSpend(x), UNCHANGED <<granted, refunded>> PROVE EarnedAccounted'
    BY <1>8, <1>12 DEF ExecSpend
<1>13. ASSUME NEW h \in Hosts, HostRegister(h) \/ HostAdmit(h), UNCHANGED <<granted, refunded>>
       PROVE  EarnedAccounted'
    BY <1>8, <1>13 DEF HostRegister, HostAdmit
<1> QED BY <1>3, <1>4, <1>5, <1>6, <1>7, <1>9, <1>10, <1>11, <1>12, <1>13, BookSteps

\* Whatever an account earned has a cause on record: a grant, a refund, its trial or a
\* receipt (the writers of LedgerRow.earned).
THEOREM EarningsHaveCauses == Spec => []EarnedAccounted
<1>1. Init => EarnedAccounted
  <2> SUFFICES ASSUME Init PROVE EarnedAccounted
      OBVIOUS
  <2>1. \A a \in Accounts : {t \in Tokens : receipts[t] = a} = {}
      BY StoreAssumption DEF Init, StoreInit
  <2>2. \A a \in Accounts : /\ ledger[a].earned = 0 /\ granted[a] = 0 /\ refunded[a] = 0
                            /\ trial_accts[a] = None
      BY DEF Init, StoreInit, IssuerInit
  <2>3. Cardinality({}) = 0
      BY FS_EmptySet
  <2> QED BY <2>1, <2>2, <2>3, SMTT(30) DEF EarnedAccounted
<1> QED BY <1>1, EarnedStep, TypeCorrect, PTL DEF Spec

LEMMA SpentInvariant == Spec => []SpentCounted
<1>1. Init => SpentCounted
    BY TripInit DEF TripInv
<1> QED BY <1>1, SpentNext, TypeCorrect, PTL DEF Spec

\* The redeemed counter is the number of bindings, and where /v1/redeem cannot be
\* reached every burned token is bound.
Redeemed ==
    /\ counters.redeemed < U64Max => counters.redeemed = Cardinality(Bound)
    /\ ~RedeemExposed => Bound = spent_set

LEMMA RedeemedFrame ==
    ASSUME Redeemed, UNCHANGED <<spend_host, spent_set>>, counters'.redeemed = counters.redeemed
    PROVE  Redeemed'
BY DEF Redeemed, Bound

\* What the spend transaction changes.
LEMMA SpendFacts ==
    ASSUME TypeOK, SpentCounted, NEW x \in ExecTasks, ExecSpend(x)
    PROVE  /\ Bound' = Bound \cup {exec[x].tok} /\ spent_set' = spent_set \cup {exec[x].tok}
           /\ exec[x].tok \in Tokens /\ exec[x].tok \notin Bound /\ spend_host[exec[x].tok] = None
           /\ \A t \in Tokens : t # exec[x].tok => spend_host'[t] = spend_host[t]
           /\ counters'.redeemed = SatAdd(counters.redeemed, 1)
           /\ counters'.issued = counters.issued /\ counters'.trial_granted = counters.trial_granted
<1>1. exec[x].tok \in Tokens /\ exec[x].host \in Hosts /\ exec[x].host # None
    BY StoreAssumption DEF ExecSpend, TypeOK, BrokerTypeOK
<1>2. Bound' = Bound \cup {exec[x].tok} /\ exec[x].tok \notin Bound
    BY <1>1 DEF ExecSpend, SpentCounted, Bound, TypeOK, StoreTypeOK
<1>3. /\ counters'.redeemed = SatAdd(counters.redeemed, 1)
      /\ counters'.issued = counters.issued /\ counters'.trial_granted = counters.trial_granted
    BY DEF ExecSpend, NoteRedeem, TypeOK, StoreTypeOK, CounterRow
<1>4. \A t \in Tokens : t # exec[x].tok => spend_host'[t] = spend_host[t]
    BY <1>1 DEF ExecSpend, TypeOK, StoreTypeOK
<1> QED BY <1>1, <1>2, <1>3, <1>4 DEF ExecSpend, Bound

\* The other transactions on the counters leave redeemed alone.
LEMMA CounterFacts ==
    ASSUME TypeOK
    PROVE  /\ \A i \in IssueTasks : IssueBump(i) =>
                 /\ counters'.redeemed = counters.redeemed
                 /\ counters'.trial_granted = counters.trial_granted
                 /\ counters'.issued = SatAdd(counters.issued, Amount(i))
           /\ \A a \in Accounts : GrantTrial(a) =>
                 /\ counters'.redeemed = counters.redeemed /\ counters'.issued = counters.issued
                 /\ counters'.trial_granted = SatAdd(counters.trial_granted, trial_grant)
BY DEF IssueBump, BumpIssued, GrantTrial, TypeOK, StoreTypeOK, CounterRow

LEMMA RedeemedStep == TypeOK /\ SpentCounted /\ Redeemed /\ [Next]_vars => Redeemed'
<1> SUFFICES ASSUME TypeOK, SpentCounted, Redeemed, [Next]_vars PROVE Redeemed'
    OBVIOUS
<1>1. ASSUME NEW x \in ExecTasks, ExecSpend(x) PROVE Redeemed'
  <2>1. Bound \in SUBSET Tokens
      BY DEF Bound
  <2>2. Cardinality(Bound) \in Nat /\ Cardinality(Bound') = Cardinality(Bound) + 1
      BY <1>1, <2>1, SpendFacts, OneMore, StoreAssumption
  <2>3. counters.redeemed \in Nat /\ U64Max \in Nat /\ counters'.redeemed = SatAdd(counters.redeemed, 1)
      BY <1>1, SpendFacts, StoreAssumption DEF TypeOK, StoreTypeOK, CounterRow, U64
  <2>4. counters'.redeemed < U64Max => counters'.redeemed = Cardinality(Bound')
      BY <2>2, <2>3 DEF Redeemed, SatAdd
  <2>5. ~RedeemExposed => Bound' = spent_set'
      BY <1>1, SpendFacts DEF Redeemed
  <2> QED BY <2>4, <2>5 DEF Redeemed
<1>2. ASSUME NEW t \in Tokens, Redeem(t) PROVE Redeemed'
    BY <1>2 DEF Redeem, Redeemed, Bound
<1>3. ASSUME NEW i \in IssueTasks, IssueDebit(i) \/ IssueBump(i) \/ IssueRefund(i) PROVE Redeemed'
    BY <1>3, CounterFacts, RedeemedFrame DEF IssueDebit, IssueBump, IssueRefund
<1>4. ASSUME NEW a \in Accounts, GrantTrial(a) PROVE Redeemed'
    BY <1>4, CounterFacts, RedeemedFrame DEF GrantTrial
<1>5. CASE \/ UNCHANGED <<storeVars, granted, refunded>>
           \/ \E a \in Accounts, n \in GrantAmounts : AdminGrant(a, n)
           \/ \E h \in Hosts, t \in Tokens : ReceiptIngest(h, t)
           \/ \E h \in Hosts : HostRegister(h) \/ HostAdmit(h)
    BY <1>5, RedeemedFrame DEF storeVars, AdminGrant, ReceiptIngest, HostRegister, HostAdmit
<1> QED BY <1>1, <1>2, <1>3, <1>4, <1>5, BookSteps

\* Bindings, spent set and redeem counter agree in every reachable state (exec's
\* transaction over three tables, RedbSpentSet::insert).
THEOREM RedeemsAreCounted == Spec => []RedeemedCounted
<1>1. Init => Redeemed
  <2> SUFFICES ASSUME Init PROVE Redeemed
      OBVIOUS
  <2>1. Bound = {} /\ spent_set = {} /\ counters.redeemed = 0
      BY DEF Init, StoreInit, Bound
  <2> QED BY <2>1, FS_EmptySet DEF Redeemed
<1>2. SpentCounted /\ Redeemed => RedeemedCounted
    BY DEF SpentCounted, Redeemed, RedeemedCounted
<1> QED BY <1>1, <1>2, RedeemedStep, SpentInvariant, TypeCorrect, PTL DEF Spec

-----------------------------------------------------------------------------
LEMMA ReceiptStep ==
    TypeOK /\ SpentCounted /\ ReceiptsMatchSpends /\ [Next]_vars => ReceiptsMatchSpends'
<1> SUFFICES ASSUME TypeOK, SpentCounted, ReceiptsMatchSpends, [Next]_vars
             PROVE  ReceiptsMatchSpends'
    OBVIOUS
<1>1. /\ receipts \in [Tokens -> Hosts \cup {None}] /\ hosts \in [Hosts -> HostStatus]
      /\ None \notin Hosts
    BY StoreAssumption DEF TypeOK, StoreTypeOK
<1>2. ASSUME UNCHANGED <<receipts, spend_host, hosts>> PROVE ReceiptsMatchSpends'
    BY <1>2 DEF ReceiptsMatchSpends, Bound
<1>3. ASSUME NEW x \in ExecTasks, ExecSpend(x) PROVE ReceiptsMatchSpends'
  <2>1. UNCHANGED <<receipts, hosts>>
      BY <1>3 DEF ExecSpend
  <2>2. \A t \in Bound : t \in Bound' /\ spend_host'[t] = spend_host[t]
      BY <1>3, SpendFacts DEF Bound
  <2> QED BY <2>1, <2>2 DEF ReceiptsMatchSpends
<1>4. ASSUME NEW h \in Hosts, NEW t \in Tokens, ReceiptIngest(h, t) PROVE ReceiptsMatchSpends'
  <2>1. /\ receipts' = [receipts EXCEPT ![t] = h] /\ spend_host[t] = h /\ hosts[h] # "absent"
        /\ UNCHANGED <<spend_host, hosts>>
      BY <1>4 DEF ReceiptIngest, ReceiptAccepted
  <2> QED BY <1>1, <2>1 DEF ReceiptsMatchSpends, Bound
<1>5. ASSUME NEW h \in Hosts, HostRegister(h) \/ HostAdmit(h) PROVE ReceiptsMatchSpends'
  <2>1. /\ UNCHANGED <<receipts, spend_host>>
        /\ \A g \in Hosts : hosts[g] # "absent" => hosts'[g] # "absent"
      BY <1>1, <1>5 DEF HostRegister, HostAdmit, HT!Register, HT!Admit
  <2> QED BY <1>1, <2>1 DEF ReceiptsMatchSpends, Bound
<1>6. CASE \/ UNCHANGED <<storeVars, granted, refunded>>
           \/ \E i \in IssueTasks : IssueDebit(i) \/ IssueBump(i) \/ IssueRefund(i)
           \/ \E t \in Tokens : Redeem(t)
           \/ \E a \in Accounts, n \in GrantAmounts : AdminGrant(a, n)
           \/ \E a \in Accounts : GrantTrial(a)
    BY <1>2, <1>6 DEF storeVars, IssueDebit, IssueBump, IssueRefund, Redeem, AdminGrant, GrantTrial
<1> QED BY <1>3, <1>4, <1>5, <1>6, BookSteps

\* A receipt is credited to the registered host that its spend is bound to, and the
\* binding stays (receipts::ingest, exec).
THEOREM ReceiptsFollowSpends == Spec => []ReceiptsMatchSpends
<1>1. Init => ReceiptsMatchSpends
    BY DEF Init, StoreInit, ReceiptsMatchSpends
<1> QED BY <1>1, ReceiptStep, SpentInvariant, TypeCorrect, PTL DEF Spec

-----------------------------------------------------------------------------
\* A sum that has counted n grants, with one more.
LEMMA OneMoreGrant ==
    ASSUME NEW x \in Nat, NEW g \in Nat, NEW n \in Nat,
           x < U64Max => x = g * n, SatAdd(x, g) < U64Max
    PROVE  SatAdd(x, g) = g * (n + 1)
<1>1. U64Max \in Nat
    BY StoreAssumption
<1>2. SatAdd(x, g) = x + g /\ x < U64Max
    BY <1>1 DEF SatAdd
<1>3. g * (n + 1) = g * n + g
    OBVIOUS
<1> QED BY <1>2, <1>3

LEMMA TrialStep == TypeOK /\ TrialAccounted /\ [Next]_vars => TrialAccounted'
<1> SUFFICES ASSUME TypeOK, TrialAccounted, [Next]_vars PROVE TrialAccounted'
    OBVIOUS
<1> DEFINE On(d) == {a \in Accounts : trial_accts[a] = d}
           All == {a \in Accounts : trial_accts[a] # None}
<1>1. /\ trial_accts \in [Accounts -> Days \cup {None}] /\ trial_budget \in [Days -> U64]
      /\ day \in Days /\ counters.trial_granted \in Nat /\ \A d \in Days : trial_budget[d] \in Nat
      /\ trial_grant \in Nat /\ None \notin Days
    BY StoreAssumption, BrokerAssumption DEF TypeOK, StoreTypeOK, BrokerTypeOK, CounterRow, U64
<1>2. ASSUME UNCHANGED <<trial_accts, trial_budget>>, counters'.trial_granted = counters.trial_granted
      PROVE  TrialAccounted'
    BY <1>2 DEF TrialAccounted
<1>3. ASSUME NEW a \in Accounts, GrantTrial(a) PROVE TrialAccounted'
  <2>1. /\ trial_accts[a] = None /\ SatAdd(trial_budget[day], trial_grant) <= daily_trial_budget
        /\ trial_accts' = [trial_accts EXCEPT ![a] = day]
        /\ trial_budget' = [trial_budget EXCEPT ![day] = SatAdd(@, trial_grant)]
      BY <1>3 DEF GrantTrial
  <2>2. counters'.trial_granted = SatAdd(counters.trial_granted, trial_grant)
      BY <1>3, CounterFacts
  <2>3. /\ {b \in Accounts : trial_accts'[b] = day} = On(day) \cup {a} /\ a \notin On(day)
        /\ {b \in Accounts : trial_accts'[b] # None} = All \cup {a} /\ a \notin All
      BY <1>1, <2>1
  <2>4. \A d \in Days : d # day => {b \in Accounts : trial_accts'[b] = d} = On(d)
      BY <1>1, <2>1
  <2>5. On(day) \in SUBSET Accounts /\ All \in SUBSET Accounts /\ IsFiniteSet(Accounts)
      BY StoreAssumption
  <2>6. /\ trial_budget[day] < U64Max => trial_budget[day] = trial_grant * Cardinality(On(day))
        /\ counters.trial_granted < U64Max => counters.trial_granted = trial_grant * Cardinality(All)
      BY <1>1 DEF TrialAccounted
  <2> HIDE DEF On, All
  <2>7. /\ Cardinality(On(day)) \in Nat
        /\ Cardinality({b \in Accounts : trial_accts'[b] = day}) = Cardinality(On(day)) + 1
      BY <2>3, <2>5, OneMore
  <2>8. /\ Cardinality(All) \in Nat
        /\ Cardinality({b \in Accounts : trial_accts'[b] # None}) = Cardinality(All) + 1
      BY <2>3, <2>5, OneMore
  <2>9. trial_budget'[day] = SatAdd(trial_budget[day], trial_grant)
        /\ \A d \in Days : d # day => trial_budget'[d] = trial_budget[d]
      BY <1>1, <2>1
  <2>10. /\ trial_budget'[day] <= daily_trial_budget
         /\ trial_budget'[day] < U64Max => trial_budget'[day] =
                trial_grant * Cardinality({b \in Accounts : trial_accts'[b] = day})
    <3>1. PICK x \in Nat, n \in Nat : x = trial_budget[day] /\ n = Cardinality(On(day))
        BY <1>1, <2>7
    <3>2. SatAdd(x, trial_grant) < U64Max => SatAdd(x, trial_grant) = trial_grant * (n + 1)
        BY <1>1, <2>6, <3>1, OneMoreGrant, ZenonT(60)
    <3> QED BY <2>1, <2>7, <2>9, <3>1, <3>2
  <2>11. counters'.trial_granted < U64Max => counters'.trial_granted =
             trial_grant * Cardinality({b \in Accounts : trial_accts'[b] # None})
    <3>1. PICK x \in Nat, n \in Nat : x = counters.trial_granted /\ n = Cardinality(All)
        BY <1>1, <2>8
    <3>2. SatAdd(x, trial_grant) < U64Max => SatAdd(x, trial_grant) = trial_grant * (n + 1)
        BY <1>1, <2>6, <3>1, OneMoreGrant, ZenonT(60)
    <3> QED BY <2>2, <2>8, <3>1, <3>2
  <2>12. ASSUME NEW d \in Days, d # day
         PROVE  /\ trial_budget'[d] <= daily_trial_budget
                /\ trial_budget'[d] < U64Max => trial_budget'[d] =
                       trial_grant * Cardinality({b \in Accounts : trial_accts'[b] = d})
      BY <2>4, <2>9, <2>12 DEF TrialAccounted, On
  <2> QED BY <2>10, <2>11, <2>12 DEF TrialAccounted
<1>4. ASSUME NEW i \in IssueTasks, IssueDebit(i) \/ IssueBump(i) \/ IssueRefund(i) PROVE TrialAccounted'
    BY <1>2, <1>4, CounterFacts DEF IssueDebit, IssueBump, IssueRefund
<1>5. ASSUME NEW x \in ExecTasks, ExecSpend(x) PROVE TrialAccounted'
  <2>1. counters'.trial_granted = counters.trial_granted
      BY <1>5 DEF ExecSpend, NoteRedeem, TypeOK, StoreTypeOK, CounterRow
  <2> QED BY <1>2, <1>5, <2>1 DEF ExecSpend
<1>6. CASE \/ UNCHANGED <<storeVars, granted, refunded>>
           \/ \E t \in Tokens : Redeem(t)
           \/ \E a \in Accounts, n \in GrantAmounts : AdminGrant(a, n)
           \/ \E h \in Hosts, t \in Tokens : ReceiptIngest(h, t)
           \/ \E h \in Hosts : HostRegister(h) \/ HostAdmit(h)
    BY <1>2, <1>6 DEF storeVars, Redeem, AdminGrant, ReceiptIngest, HostRegister, HostAdmit
<1> QED BY <1>3, <1>4, <1>5, <1>6, BookSteps

\* The trial tables agree with each other and stay within the day's budget, whatever
\* the clock does (grant_trial).
THEOREM TrialsAreAccounted == Spec => []TrialAccounted
<1>1. Init => TrialAccounted
  <2> SUFFICES ASSUME Init PROVE TrialAccounted
      OBVIOUS
  <2>1. /\ \A d \in Days : trial_budget[d] = 0 /\ {a \in Accounts : trial_accts[a] = d} = {}
        /\ counters.trial_granted = 0 /\ {a \in Accounts : trial_accts[a] # None} = {}
      BY BrokerAssumption DEF Init, StoreInit
  <2>2. Cardinality({}) = 0 /\ trial_grant * 0 = 0 /\ 0 <= daily_trial_budget
      BY FS_EmptySet, BrokerAssumption, StoreAssumption
  <2> QED BY <2>1, <2>2 DEF TrialAccounted
<1> QED BY <1>1, TrialStep, TypeCorrect, PTL DEF Spec

-----------------------------------------------------------------------------
\* No step forgets a spend, a binding, a receipt or a trial, or turns a counter back:
\* what one transaction committed, no later one and no restart undoes.
THEOREM NothingIsForgotten == Spec => NothingForgotten
<1> DEFINE A == /\ spent_set \subseteq spent_set'
                /\ \A t \in Tokens : /\ spend_host[t] # None => spend_host'[t] = spend_host[t]
                                     /\ receipts[t] # None => receipts'[t] = receipts[t]
                /\ \A a \in Accounts : trial_accts[a] # None => trial_accts'[a] = trial_accts[a]
                /\ counters.issued <= counters'.issued
                /\ counters.redeemed <= counters'.redeemed
<1>1. TypeOK /\ SpentCounted /\ [Next]_vars => A
  <2> SUFFICES ASSUME TypeOK, SpentCounted, [Next]_vars PROVE A
      OBVIOUS
  <2>1. /\ receipts \in [Tokens -> Hosts \cup {None}] /\ trial_accts \in [Accounts -> Days \cup {None}]
        /\ counters.issued \in U64 /\ counters.redeemed \in U64 /\ U64Max \in Nat
      BY StoreAssumption DEF TypeOK, StoreTypeOK, CounterRow
  <2>2. \A n \in Nat : /\ counters.issued <= SatAdd(counters.issued, n)
                       /\ counters.redeemed <= SatAdd(counters.redeemed, n)
      BY <2>1 DEF SatAdd, U64
  <2>3. counters.issued <= counters.issued /\ counters.redeemed <= counters.redeemed
      BY <2>1 DEF U64
  <2>4. ASSUME NEW i \in IssueTasks, IssueBump(i) PROVE A
    <3>1. Amount(i) \in Nat
        BY <2>4, TaskFacts DEF IssueBump
    <3>2. /\ counters'.redeemed = counters.redeemed
          /\ counters'.issued = SatAdd(counters.issued, Amount(i))
        BY <2>4, CounterFacts
    <3> QED BY <2>2, <2>3, <2>4, <3>1, <3>2 DEF IssueBump
  <2>5. ASSUME NEW x \in ExecTasks, ExecSpend(x) PROVE A
    <3>1. /\ spent_set \subseteq spent_set' /\ UNCHANGED <<receipts, trial_accts>>
          /\ \A t \in Tokens : spend_host[t] # None => spend_host'[t] = spend_host[t]
          /\ counters'.redeemed = SatAdd(counters.redeemed, 1) /\ counters'.issued = counters.issued
        BY <2>5, SpendFacts DEF ExecSpend
    <3> QED BY <2>2, <2>3, <3>1
  <2>6. ASSUME NEW h \in Hosts, NEW t \in Tokens, ReceiptIngest(h, t) PROVE A
    <3>1. \A u \in Tokens : receipts[u] # None => receipts'[u] = receipts[u]
        BY <2>1, <2>6 DEF ReceiptIngest, ReceiptAccepted
    <3> QED BY <2>3, <2>6, <3>1 DEF ReceiptIngest
  <2>7. ASSUME NEW a \in Accounts, GrantTrial(a) PROVE A
    <3>1. \A b \in Accounts : trial_accts[b] # None => trial_accts'[b] = trial_accts[b]
        BY <2>1, <2>7 DEF GrantTrial
    <3>2. counters'.redeemed = counters.redeemed /\ counters'.issued = counters.issued
        BY <2>7, CounterFacts
    <3> QED BY <2>3, <2>7, <3>1, <3>2 DEF GrantTrial
  <2>8. ASSUME NEW t \in Tokens, Redeem(t) PROVE A
      BY <2>3, <2>8 DEF Redeem, SpentInsert
  <2>9. CASE \/ UNCHANGED <<storeVars, granted, refunded>>
             \/ \E i \in IssueTasks : IssueDebit(i) \/ IssueRefund(i)
             \/ \E a \in Accounts, n \in GrantAmounts : AdminGrant(a, n)
             \/ \E h \in Hosts : HostRegister(h) \/ HostAdmit(h)
    <3>1. UNCHANGED <<spent_set, spend_host, receipts, trial_accts, counters>>
        BY <2>9 DEF storeVars, IssueDebit, IssueRefund, AdminGrant, HostRegister, HostAdmit
    <3> QED BY <2>3, <3>1
  <2> QED BY <2>4, <2>5, <2>6, <2>7, <2>8, <2>9, BookSteps
<1>2. TypeOK /\ SpentCounted /\ [Next]_vars => [A]_vars
    BY <1>1
<1> QED BY <1>2, SpentInvariant, TypeCorrect, PTL DEF Spec, NothingForgotten

-----------------------------------------------------------------------------
(* Sums over finite sets. *)

Before == {pair \in Nat \X Nat : pair[1] < pair[2]}

\* Induction, for want of a rule the provers can apply: a set of numbers that is not
\* empty has a least one, ...
LEMMA Least ==
    ASSUME NEW T, T \subseteq Nat, T # {}
    PROVE  \E m \in T : \A k \in T : m <= k
<1>1. IsWellFoundedOn(Before, Nat)
    BY NatLessThanWellFounded DEF OpToRel, Before
<1>2. PICK m \in T : \A k \in T : ~ (<<k, m>> \in Before)
    BY <1>1, WFMin
<1>3. ASSUME NEW k \in T PROVE m <= k
  <2>1. m \in Nat /\ k \in Nat
      OBVIOUS
  <2>2. <<k, m>> \in Nat \X Nat /\ <<k, m>>[1] = k /\ <<k, m>>[2] = m
      BY <2>1
  <2>3. ~(k < m)
      BY <2>2, <1>2 DEF Before
  <2> QED BY <2>1, <2>3
<1> QED BY <1>3

\* ... and of the subsets of a finite set that are in X one has no smaller one below.
LEMMA SmallestSet ==
    ASSUME NEW S, IsFiniteSet(S), NEW X \in SUBSET (SUBSET S), X # {}
    PROVE  \E s \in X : \A t \in X : t \subseteq s => t = s
<1> DEFINE Sizes == {n \in Nat : \E s \in X : Cardinality(s) = n}
<1>1. \A s \in SUBSET S : IsFiniteSet(s) /\ Cardinality(s) \in Nat
    BY FS_Subset, FS_CardinalityType
<1>2. Sizes \subseteq Nat /\ Sizes # {}
    BY <1>1
<1>3. PICK m \in Sizes : \A k \in Sizes : m <= k
  <2> HIDE DEF Sizes
  <2> QED BY <1>2, Least
<1>4. PICK s \in X : Cardinality(s) = m
    OBVIOUS
<1>5. ASSUME NEW t \in X, t \subseteq s PROVE t = s
  <2>1. IsFiniteSet(s) /\ Cardinality(t) \in Sizes /\ Cardinality(t) \in Nat
      BY <1>1
  <2>2. m <= Cardinality(t) /\ m \in Nat
      BY <1>3, <2>1
  <2>3. Cardinality(t) <= Cardinality(s) /\ (Cardinality(s) = Cardinality(t) => s = t)
      BY <1>5, <2>1, FS_Subset
  <2> QED BY <1>4, <2>1, <2>2, <2>3
<1> QED BY <1>4, <1>5

Some(s) == CHOOSE x \in s : TRUE

\* The sum of the elements of s, given g for smaller sets.
Sum(f, g, s) == IF s = {} THEN 0 ELSE f[Some(s)] + g[s \ {Some(s)}]

\* The function that SumFunctionOnSet computes.
IsSums(f, S, g) == g = [s \in SUBSET S |-> Sum(f, g, s)]
Sums(f, S) == CHOOSE g : IsSums(f, S, g)

LEMMA SumIs ==
    ASSUME NEW f, NEW S
    PROVE  SumFunctionOnSet(f, S) = Sums(f, S)[S]
BY DEF Some, Sum, IsSums, Sums, SumFunctionOnSet, FoldFunctionOnSet, MapThenFoldSet

LEMMA SomeIn == \A s : s # {} => Some(s) \in s
BY DEF Some

\* The sets of at most n members have sums, for every n.
LEMMA SumsExist ==
    ASSUME NEW S, IsFiniteSet(S), NEW f \in [S -> Nat]
    PROVE  \E g : IsSums(f, S, g)
<1> DEFINE Upto(n) == {s \in SUBSET S : Cardinality(s) <= n}
           Done(n) == \E g : g = [s \in Upto(n) |-> Sum(f, g, s)]
           Missing == {n \in Nat : ~Done(n)}
<1>1. \A s \in SUBSET S : /\ IsFiniteSet(s) /\ Cardinality(s) \in Nat
                          /\ Cardinality(s) <= Cardinality(S)
                          /\ Cardinality(s) = 0 <=> s = {}
    BY FS_Subset, FS_CardinalityType, FS_EmptySet
<1>2. \A s \in SUBSET S : s # {} => /\ s \ {Some(s)} \in SUBSET S
                                    /\ Cardinality(s \ {Some(s)}) = Cardinality(s) - 1
    BY <1>1, SomeIn, FS_RemoveElement
<1>3. Done(0)
  <2> DEFINE g == [s \in Upto(0) |-> 0]
  <2>1. \A s \in Upto(0) : s = {}
      BY <1>1
  <2>2. g = [s \in Upto(0) |-> Sum(f, g, s)]
      BY <2>1 DEF Sum
  <2> QED BY <2>2
<1>4. ASSUME NEW n \in Nat, Done(n) PROVE Done(n + 1)
  <2>1. PICK g : g = [s \in Upto(n) |-> Sum(f, g, s)]
      BY <1>4
  <2> DEFINE h == [s \in Upto(n + 1) |-> Sum(f, g, s)]
  <2>2. \A s \in Upto(n + 1) : s # {} => s \ {Some(s)} \in Upto(n) /\ s \ {Some(s)} \in Upto(n + 1)
      BY <1>1, <1>2
  <2>3. \A s \in Upto(n) : g[s] = Sum(f, g, s) /\ s \in Upto(n + 1)
      BY <2>1, <1>1
  <2> HIDE DEF Upto
  <2>4. \A s \in Upto(n) : h[s] = g[s]
      BY <2>3
  <2>5. \A s \in Upto(n + 1) : Sum(f, g, s) = Sum(f, h, s)
      BY <2>2, <2>4 DEF Sum
  <2>6. h = [s \in Upto(n + 1) |-> Sum(f, h, s)]
      BY <2>5
  <2> QED BY <2>6
<1>5. Cardinality(S) \in Nat /\ Upto(Cardinality(S)) = SUBSET S
    BY <1>1
<1>6. Missing = {}
  <2> SUFFICES ASSUME Missing # {} PROVE FALSE
      OBVIOUS
  <2> HIDE DEF Done
  <2>1. Missing \subseteq Nat
      OBVIOUS
  <2>2. PICK m \in Missing : \A k \in Missing : m <= k
    <3> HIDE DEF Missing
    <3> QED BY <2>1, Least
  <2>3. m # 0
      BY <1>3
  <2>4. m - 1 \in Nat /\ m - 1 \notin Missing /\ m = (m - 1) + 1
      BY <2>2, <2>3
  <2> QED BY <1>4, <2>4
<1>7. Done(Cardinality(S))
  <2> HIDE DEF Done
  <2> QED BY <1>5, <1>6
<1>8. PICK g : g = [s \in Upto(Cardinality(S)) |-> Sum(f, g, s)]
    BY <1>7
<1>9. IsSums(f, S, g)
    BY <1>5, <1>8, Zenon DEF IsSums
<1> QED BY <1>9

\* The equations of the sums, and that they are numbers.
LEMMA SumsFacts ==
    ASSUME NEW S, IsFiniteSet(S), NEW f \in [S -> Nat]
    PROVE  /\ Sums(f, S)[{}] = 0
           /\ \A s \in SUBSET S : s # {} =>
                 Sums(f, S)[s] = f[Some(s)] + Sums(f, S)[s \ {Some(s)}]
<1> DEFINE g == Sums(f, S)
<1>1. IsSums(f, S, g)
    BY SumsExist DEF Sums
<1> HIDE DEF g
<1>2. \A s \in SUBSET S : g[s] = Sum(f, g, s)
    BY <1>1 DEF IsSums
<1>3. {} \in SUBSET S
    OBVIOUS
<1>4. /\ g[{}] = 0
      /\ \A s \in SUBSET S : s # {} => g[s] = f[Some(s)] + g[s \ {Some(s)}]
    BY <1>2, <1>3 DEF Sum
<1> QED BY <1>4 DEF g

\* The sum does not depend on the order: any member may be taken out.
LEMMA SumTakesOut ==
    ASSUME NEW S, IsFiniteSet(S), NEW f \in [S -> Nat]
    PROVE  \A s \in SUBSET S : /\ Sums(f, S)[s] \in Nat
                               /\ \A x \in s : Sums(f, S)[s] = f[x] + Sums(f, S)[s \ {x}]
<1> DEFINE g == Sums(f, S)
           Good(s) == g[s] \in Nat /\ \A x \in s : g[s] = f[x] + g[s \ {x}]
           Bad == {s \in SUBSET S : ~Good(s)}
<1>1. /\ g[{}] = 0
      /\ \A s \in SUBSET S : s # {} => g[s] = f[Some(s)] + g[s \ {Some(s)}]
    BY SumsFacts
<1> HIDE DEF g
<1>2. ASSUME NEW s \in Bad, \A t \in Bad : t \subseteq s => t = s PROVE FALSE
  <2>1. \A t \in SUBSET s : t # s => Good(t)
    <3> HIDE DEF Good
    <3> QED BY <1>2
  <2>2. s \in SUBSET S /\ s # {}
    <3>1. Good({})
        BY <1>1
    <3> HIDE DEF Good
    <3> QED BY <3>1
  <2> DEFINE y == Some(s)
  <2>3. y \in s /\ g[s] = f[y] + g[s \ {y}] /\ f[y] \in Nat
      BY <1>1, <2>2, SomeIn
  <2> HIDE DEF y
  <2>4. Good(s \ {y})
      BY <2>1, <2>3
  <2>5. g[s] \in Nat
      BY <2>3, <2>4
  <2>6. ASSUME NEW x \in s, x # y PROVE g[s] = f[x] + g[s \ {x}]
    <3>1. Good(s \ {x})
        BY <2>1
    <3>2. x \in s \ {y} /\ y \in s \ {x} /\ (s \ {y}) \ {x} = (s \ {x}) \ {y}
        BY <2>3, <2>6
    <3> DEFINE r == g[(s \ {x}) \ {y}]
    <3>3. g[s \ {y}] = f[x] + g[(s \ {y}) \ {x}]
        BY <2>4, <3>2
    <3>4. g[s \ {x}] = f[y] + r /\ g[s \ {y}] = f[x] + r
        BY <3>1, <3>2, <3>3
    <3>5. f[x] \in Nat /\ r \in Nat
      <4>1. Good((s \ {x}) \ {y})
          BY <2>1
      <4> QED BY <2>2, <4>1
    <3> HIDE DEF r
    <3> QED BY <2>3, <3>4, <3>5
  <2>7. Good(s)
      BY <2>3, <2>5, <2>6
  <2> HIDE DEF Good
  <2> QED BY <2>7
<1>3. Bad = {}
  <2>1. Bad \in SUBSET (SUBSET S)
      OBVIOUS
  <2> HIDE DEF Bad
  <2> QED BY <1>2, <2>1, SmallestSet
<1>4. \A s \in SUBSET S : Good(s)
  <2> HIDE DEF Good
  <2> QED BY <1>3
<1> QED BY <1>4 DEF g

\* Functions that agree on a set have the same sum over it.
LEMMA SumAgrees ==
    ASSUME NEW S, IsFiniteSet(S), NEW e \in [S -> Nat], NEW f \in [S -> Nat],
           NEW T \in SUBSET S, \A x \in T : e[x] = f[x]
    PROVE  Sums(e, S)[T] = Sums(f, S)[T]
<1> DEFINE d == Sums(e, S)
           g == Sums(f, S)
           Bad == {s \in SUBSET T : d[s] # g[s]}
<1>1. /\ d[{}] = 0 /\ g[{}] = 0
      /\ \A s \in SUBSET S : s # {} =>
            /\ Some(s) \in s
            /\ d[s] = e[Some(s)] + d[s \ {Some(s)}]
            /\ g[s] = f[Some(s)] + g[s \ {Some(s)}]
    BY SumsFacts, SomeIn, SMTT(30)
<1> HIDE DEF d, g
<1>2. ASSUME NEW s \in Bad, \A t \in Bad : t \subseteq s => t = s PROVE FALSE
  <2>1. s \in SUBSET S /\ s # {} /\ d[s] # g[s]
      BY <1>1
  <2>2. d[s \ {Some(s)}] = g[s \ {Some(s)}]
      BY <1>1, <1>2, <2>1
  <2> QED BY <1>1, <2>1, <2>2
<1>3. Bad = {}
  <2>1. Bad \in SUBSET (SUBSET S)
      OBVIOUS
  <2> HIDE DEF Bad
  <2> QED BY <1>2, <2>1, SmallestSet
<1> QED BY <1>3 DEF d, g

\* One entry of the sum changes.
LEMMA SumChanges ==
    ASSUME NEW S, IsFiniteSet(S), NEW e \in [S -> Nat], NEW f \in [S -> Nat], NEW a \in S,
           \A x \in S : x # a => e[x] = f[x]
    PROVE  /\ SumFunctionOnSet(e, S) \in Nat /\ SumFunctionOnSet(f, S) \in Nat
           /\ e[a] \in Nat /\ f[a] \in Nat
           /\ SumFunctionOnSet(f, S) = SumFunctionOnSet(e, S) - e[a] + f[a]
<1>1. Sums(e, S)[S \ {a}] = Sums(f, S)[S \ {a}]
    BY SumAgrees
<1>2. S \in SUBSET S /\ S \ {a} \in SUBSET S
    OBVIOUS
<1>3. ASSUME NEW h \in [S -> Nat]
      PROVE  /\ Sums(h, S)[S] \in Nat /\ Sums(h, S)[S \ {a}] \in Nat
             /\ Sums(h, S)[S] = h[a] + Sums(h, S)[S \ {a}]
  <2>1. \A s \in SUBSET S : /\ Sums(h, S)[s] \in Nat
                            /\ \A x \in s : Sums(h, S)[s] = h[x] + Sums(h, S)[s \ {x}]
      BY SumTakesOut
  <2> QED BY <1>2, <2>1
<1>4. /\ Sums(e, S)[S] \in Nat /\ Sums(e, S)[S \ {a}] \in Nat
      /\ Sums(e, S)[S] = e[a] + Sums(e, S)[S \ {a}]
      /\ Sums(f, S)[S] \in Nat /\ Sums(f, S)[S] = f[a] + Sums(f, S)[S \ {a}]
      /\ e[a] \in Nat /\ f[a] \in Nat
    BY <1>3
<1> QED BY <1>1, <1>4, SumIs

LEMMA SumType ==
    ASSUME NEW S, IsFiniteSet(S), NEW f \in [S -> Nat]
    PROVE  SumFunctionOnSet(f, S) \in Nat
BY SumTakesOut, SumIs

\* Nothing adds up to nothing.
LEMMA SumOfNothing ==
    ASSUME NEW S, IsFiniteSet(S), NEW f \in [S -> Nat], \A x \in S : f[x] = 0
    PROVE  SumFunctionOnSet(f, S) = 0
<1> DEFINE g == Sums(f, S)
           Bad == {s \in SUBSET S : g[s] # 0}
<1>1. /\ g[{}] = 0
      /\ \A s \in SUBSET S : s # {} => Some(s) \in s /\ g[s] = f[Some(s)] + g[s \ {Some(s)}]
    BY SumsFacts, SomeIn
<1> HIDE DEF g
<1>2. ASSUME NEW s \in Bad, \A t \in Bad : t \subseteq s => t = s PROVE FALSE
  <2>1. s \in SUBSET S /\ s # {} /\ g[s] # 0
      BY <1>1
  <2>2. g[s \ {Some(s)}] = 0
      BY <1>1, <1>2, <2>1
  <2> QED BY <1>1, <2>1, <2>2
<1>3. Bad = {}
  <2>1. Bad \in SUBSET (SUBSET S)
      OBVIOUS
  <2> HIDE DEF Bad
  <2> QED BY <1>2, <2>1, SmallestSet
<1>4. g[S] = 0
    BY <1>3
<1> QED BY <1>4, SumIs DEF g

-----------------------------------------------------------------------------
(* Nothing is minted. *)

Total == SumFunctionOnSet(Balances, Accounts)
Debts == SumFunctionOnSet(Owed, IssueTasks)
Grants == SumFunctionOnSet(granted, Accounts)
Out == Cardinality(released \ Receipted)
Trials == Cardinality({a \in Accounts : trial_accts[a] # None})
Given == trial_grant * Trials

ValueTyped ==
    /\ Balances \in [Accounts -> Nat] /\ Owed \in [IssueTasks -> Nat]
    /\ granted \in [Accounts -> Nat]
    /\ Total \in Nat /\ Debts \in Nat /\ Grants \in Nat /\ Out \in Nat /\ Trials \in Nat
    /\ Given \in Nat

LEMMA ValueTypes == IsFiniteSet(IssueTasks) => (TypeOK => ValueTyped)
<1> SUFFICES ASSUME IsFiniteSet(IssueTasks), TypeOK PROVE ValueTyped
    OBVIOUS
<1>1. Balances \in [Accounts -> Nat] /\ granted \in [Accounts -> Nat]
    BY StoreAssumption DEF TypeOK, StoreTypeOK, IssuerTypeOK, LedgerRow, U64, Balances
<1>2. Owed \in [IssueTasks -> Nat]
  <2>1. ASSUME NEW i \in IssueTasks, issue[i].pc \in {"bump", "sign", "refund"}
        PROVE  Amount(i) \in Nat
      BY <2>1, TaskFacts
  <2> QED BY <2>1 DEF Owed
<1>3. released \ Receipted \in SUBSET Tokens /\ {a \in Accounts : trial_accts[a] # None} \in SUBSET Accounts
    BY DEF TypeOK, IssuerTypeOK
<1>4. Out \in Nat /\ Trials \in Nat
    BY <1>3, StoreAssumption, FS_Subset, FS_CardinalityType DEF Out, Trials
<1>5. Total \in Nat /\ Debts \in Nat /\ Grants \in Nat
    BY <1>1, <1>2, SumType, StoreAssumption DEF Total, Debts, Grants
<1>6. Given \in Nat
    BY <1>4, BrokerAssumption, StoreAssumption DEF Given
<1> QED BY <1>1, <1>2, <1>4, <1>5, <1>6 DEF ValueTyped

\* The invariant, in these terms.
LEMMA BackedIs ==
    /\ BackedInv <=> Total + Debts + Out <= Grants + Given
    /\ BackedInv' <=> Total' + Debts' + Out' <= Grants' + Given'
BY DEF BackedInv, Total, Debts, Grants, Out, Trials, Given

\* The types, before a step and after it.
LEMMA ValueTypesStep ==
    IsFiniteSet(IssueTasks) => (TypeOK => ValueTyped) /\ (TypeOK' => ValueTyped')
<1>1. (IsFiniteSet(IssueTasks) => (TypeOK => ValueTyped))'
    BY ValueTypes, PTL
<1> QED BY <1>1, ValueTypes

\* A credit adds its amount to the total, or less where it saturates.
LEMMA CreditTotal ==
    ASSUME TypeOK, TypeOK', IsFiniteSet(IssueTasks), NEW a \in Accounts, NEW n \in Nat,
           ledger' = [ledger EXCEPT ![a] = Credit(@, n)]
    PROVE  Total' <= Total + n
<1>1. /\ Balances \in [Accounts -> Nat] /\ Balances' \in [Accounts -> Nat]
      /\ Total \in Nat /\ Total' \in Nat
    BY ValueTypesStep DEF ValueTyped
<1>2. ledger \in [Accounts -> LedgerRow] /\ ledger[a].balance \in Nat /\ U64Max \in Nat
    BY StoreAssumption DEF TypeOK, StoreTypeOK, LedgerRow, U64
<1>3. \A x \in Accounts : x # a => Balances[x] = Balances'[x]
    BY <1>2 DEF Balances
<1>4. Balances'[a] <= Balances[a] + n
    BY <1>2 DEF Balances, Credit, SatAdd, LedgerRow
<1>5. Total' = Total - Balances[a] + Balances'[a] /\ Balances[a] \in Nat /\ Balances'[a] \in Nat
    BY <1>1, <1>3, SumChanges, StoreAssumption DEF Total
<1> QED BY <1>1, <1>4, <1>5

\* What a task that moves on owes before and after.
LEMMA DebtMoves ==
    ASSUME TypeOK, TypeOK', IsFiniteSet(IssueTasks), NEW i \in IssueTasks,
           \A j \in IssueTasks : j # i => issue'[j] = issue[j]
    PROVE  /\ Debts \in Nat /\ Debts' \in Nat /\ Owed[i] \in Nat /\ Owed'[i] \in Nat
           /\ Debts' = Debts - Owed[i] + Owed'[i]
<1>1. /\ Owed \in [IssueTasks -> Nat] /\ Owed' \in [IssueTasks -> Nat]
      /\ Debts \in Nat /\ Debts' \in Nat
    BY ValueTypesStep DEF ValueTyped
<1>2. \A j \in IssueTasks : j # i => Owed[j] = Owed'[j]
    BY DEF Owed, Amount
<1> QED BY <1>1, <1>2, SumChanges DEF Debts

LEMMA OwedIs ==
    ASSUME NEW i \in IssueTasks
    PROVE  /\ Owed[i] = IF issue[i].pc \in {"bump", "sign", "refund"} THEN Amount(i) ELSE 0
           /\ Owed'[i] = IF issue'[i].pc \in {"bump", "sign", "refund"} THEN Amount(i)' ELSE 0
BY DEF Owed

\* The steps of a request.
LEMMA BackedIssue ==
    ASSUME TypeOK, TypeOK', IsFiniteSet(IssueTasks), BackedInv, NEW i \in IssueTasks,
           \/ \E a \in Accounts, r \in ReqIds, b \in Batches : IssueBegin(i, a, r, b)
           \/ IssueStep(i)
    PROVE  BackedInv'
<1>1. /\ Total + Debts + Out <= Grants + Given
      /\ Total \in Nat /\ Debts \in Nat /\ Grants \in Nat /\ Out \in Nat /\ Given \in Nat
      /\ Total' \in Nat /\ Debts' \in Nat /\ Out' \in Nat
    BY ValueTypesStep, BackedIs DEF ValueTyped
<1>3. /\ \A j \in IssueTasks : j # i => issue'[j] = issue[j]
      /\ UNCHANGED <<granted, trial_accts, receipts>>
    BY DEF IssueBegin, IssueStep, IssueDebit, IssueDebitRefused, IssueBump, IssueBumpFault,
       IssueSign, IssueSignFail, IssueRefund, IssueRefundDropped, IssueRelease, storeVars,
       TypeOK, IssuerTypeOK
<1>4. Grants' = Grants /\ Given' = Given /\ Receipted' = Receipted
    BY <1>3 DEF Grants, Given, Trials, Receipted
<1>5. /\ Debts' = Debts - Owed[i] + Owed'[i] /\ Owed[i] \in Nat /\ Owed'[i] \in Nat
    BY <1>3, DebtMoves
<1>6. ASSUME Total' + Debts' + Out' <= Total + Debts + Out PROVE BackedInv'
  <2>1. Total' + Debts' + Out' <= Grants + Given
    <3>1. Total' + Debts' + Out' \in Int
        BY <1>1
    <3>2. Total + Debts + Out \in Int
        BY <1>1
    <3>3. Grants + Given \in Int
        BY <1>1
    <3>4. Total + Debts + Out <= Grants + Given
        BY <1>1
    <3> QED BY <1>6, <3>1, <3>2, <3>3, <3>4
  <2>2. Grants' + Given' = Grants + Given
      BY <1>4
  <2> QED BY <2>1, <2>2, BackedIs
<1>7. /\ UNCHANGED ledger => Total' = Total
      /\ UNCHANGED released => Out' = Out
    BY <1>4 DEF Total, Balances, Out
<1>8. ASSUME NEW p, issue' = [issue EXCEPT ![i].pc = p]
      PROVE  issue'[i].pc = p /\ Amount(i)' = Amount(i)
    BY <1>8 DEF Amount, TypeOK, IssuerTypeOK, IssueTask
<1>9. CASE \/ \E a \in Accounts, r \in ReqIds, b \in Batches : IssueBegin(i, a, r, b)
           \/ IssueDebitRefused(i) \/ IssueRelease(i)
           \/ IssueBump(i) \/ IssueBumpFault(i) \/ IssueSignFail(i) \/ IssueRefundDropped(i)
  <2>1. UNCHANGED <<ledger, released>>
      BY <1>9 DEF IssueBegin, IssueDebitRefused, IssueRelease, IssueBump, IssueBumpFault,
         IssueSignFail, IssueRefundDropped, storeVars
  <2>2. CASE IssueBump(i) \/ IssueBumpFault(i) \/ IssueSignFail(i) \/ IssueRefundDropped(i)
    <3>1. PICK p \in {"sign", "refund", "give_back"} :
             issue[i].pc \in {"bump", "sign", "refund"} /\ issue' = [issue EXCEPT ![i].pc = p]
        BY <2>2 DEF IssueBump, IssueBumpFault, IssueSignFail, IssueRefundDropped
    <3>2. Owed'[i] <= Owed[i]
      <4>1. Amount(i)' = Amount(i) /\ Owed[i] = Amount(i)
          BY <1>8, <3>1, OwedIs
      <4>2. Owed'[i] = Amount(i) \/ Owed'[i] = 0
          BY <4>1, OwedIs
      <4> QED BY <1>5, <4>1, <4>2
    <3> QED BY <1>1, <1>5, <1>6, <1>7, <2>1, <3>2
  <2>3. CASE \/ \E a \in Accounts, r \in ReqIds, b \in Batches : IssueBegin(i, a, r, b)
             \/ IssueDebitRefused(i) \/ IssueRelease(i)
    <3>1. issue'[i].pc \notin {"bump", "sign", "refund"}
      <4>1. CASE \E a \in Accounts, r \in ReqIds, b \in Batches : IssueBegin(i, a, r, b)
        <5>1. PICK a \in Accounts, r \in ReqIds, b \in Batches : IssueBegin(i, a, r, b)
            BY <4>1
        <5>2. idem[<<a, r>>] \in Entry /\ issue'[i].pc = BeginOutcome(idem[<<a, r>>], b)
            BY <5>1 DEF IssueBegin, TypeOK, IssuerTypeOK, Key
        <5>3. BeginOutcome(idem[<<a, r>>], b) \in {"debit", "concurrent", "replay", "conflict"}
            BY <5>2 DEF BeginOutcome, Entry
        <5> QED BY <5>2, <5>3
      <4>2. CASE IssueDebitRefused(i) \/ IssueRelease(i)
        <5>1. \E p \in {"give_up", "insufficient", "internal"} : issue' = [issue EXCEPT ![i].pc = p]
            BY <4>2 DEF IssueDebitRefused, IssueRelease
        <5> QED BY <1>8, <5>1
      <4> QED BY <2>3, <4>1, <4>2
    <3>2. Owed'[i] = 0
        BY <3>1, OwedIs
    <3> QED BY <1>1, <1>5, <1>6, <1>7, <2>1, <3>2
  <2> QED BY <1>9, <2>2, <2>3
<1>10. CASE IssueDebit(i)
  <2>1. /\ issue[i].pc = "debit" /\ issue' = [issue EXCEPT ![i].pc = "bump"]
        /\ issue[i].acct \in Accounts /\ Amount(i) \in Nat
        /\ ledger' = [ledger EXCEPT ![issue[i].acct] = Debit(@, Amount(i))] /\ UNCHANGED released
      BY <1>10, TaskFacts DEF IssueDebit
  <2>2. Owed[i] = 0 /\ Owed'[i] = Amount(i)
      BY <1>8, <2>1, OwedIs
  <2>3. Total' = Total - Amount(i)
    <3> DEFINE a == issue[i].acct
    <3>1. ledger \in [Accounts -> LedgerRow] /\ ledger[a].balance \in Nat
        BY <2>1, StoreAssumption DEF TypeOK, StoreTypeOK, LedgerRow, U64
    <3>2. /\ \A x \in Accounts : x # a => Balances[x] = Balances'[x]
          /\ Balances'[a] = Balances[a] - Amount(i)
        BY <2>1, <3>1 DEF Balances, Debit, LedgerRow
    <3>3. Total' = Total - Balances[a] + Balances'[a] /\ Balances[a] \in Nat /\ Balances'[a] \in Nat
        BY <2>1, <3>2, SumChanges, ValueTypesStep, StoreAssumption DEF ValueTyped, Total
    <3> QED BY <1>1, <2>1, <3>2, <3>3
  <2> QED BY <1>1, <1>5, <1>6, <1>7, <2>1, <2>2, <2>3
<1>11. CASE IssueRefund(i)
  <2>1. /\ issue[i].pc = "refund" /\ issue' = [issue EXCEPT ![i].pc = "give_back"]
        /\ issue[i].acct \in Accounts /\ Amount(i) \in Nat
        /\ ledger' = [ledger EXCEPT ![issue[i].acct] = Credit(@, Amount(i))] /\ UNCHANGED released
      BY <1>11, TaskFacts DEF IssueRefund
  <2>2. Owed[i] = Amount(i) /\ Owed'[i] = 0
    <3>1. issue'[i].pc \in {"issued", "give_back"}
        BY <2>1 DEF TypeOK, IssuerTypeOK, IssueTask
    <3> QED BY <2>1, <3>1, OwedIs
  <2>3. Total' <= Total + Amount(i)
      BY <2>1, CreditTotal
  <2> QED BY <1>1, <1>5, <1>6, <1>7, <2>1, <2>2, <2>3
<1>12. CASE IssueSign(i)
  <2>1. /\ issue[i].pc = "sign" /\ issue' = [issue EXCEPT ![i].pc = "issued"]
        /\ issue[i].batch \in SUBSET Tokens /\ Amount(i) \in Nat
        /\ released' = released \cup issue[i].batch /\ UNCHANGED ledger
      BY <1>12, TaskFacts DEF IssueSign, storeVars
  <2>2. Owed[i] = Amount(i) /\ Owed'[i] = 0
    <3>1. issue'[i].pc \in {"issued", "give_back"}
        BY <2>1 DEF TypeOK, IssuerTypeOK, IssueTask
    <3> QED BY <2>1, <3>1, OwedIs
  <2>3. Out' <= Out + Amount(i)
    <3> DEFINE A == released \ Receipted
               B == issue[i].batch \ Receipted
    <3>1. A \in SUBSET Tokens /\ B \in SUBSET Tokens /\ B \in SUBSET issue[i].batch
        BY <2>1 DEF TypeOK, IssuerTypeOK
    <3>2. IsFiniteSet(A) /\ IsFiniteSet(B) /\ IsFiniteSet(issue[i].batch)
        BY <2>1, <3>1, BatchSize
    <3>3. Cardinality(B) <= Amount(i) /\ Cardinality(B) \in Nat /\ Cardinality(A) \in Nat
        BY <3>1, <3>2, FS_Subset, FS_CardinalityType DEF Amount
    <3>4. (released \ Receipted)' = A \cup B
        BY <1>4, <2>1
    <3>5. Cardinality(A \cup B) <= Cardinality(A) + Cardinality(B)
      <4>1. Cardinality(A \cup B) = Cardinality(A) + Cardinality(B) - Cardinality(A \cap B)
          BY <3>2, FS_Union
      <4>2. Cardinality(A \cap B) \in Nat
          BY <3>2, FS_Intersection, FS_CardinalityType
      <4> QED BY <3>3, <4>1, <4>2
    <3>6. Out' = Cardinality(A \cup B) /\ Out = Cardinality(A)
        BY <3>4 DEF Out
    <3> HIDE DEF A, B
    <3> QED BY <1>1, <2>1, <3>3, <3>5, <3>6
  <2> QED BY <1>1, <1>5, <1>6, <1>7, <2>1, <2>2, <2>3
<1> QED BY <1>9, <1>10, <1>11, <1>12 DEF IssueStep

\* The steps of the broker and the operator.
LEMMA BackedBooks ==
    ASSUME TypeOK, TypeOK', IsFiniteSet(IssueTasks), SpentCounted, BackedInv, UNCHANGED issue,
           \/ \E a \in Accounts, n \in GrantAmounts : AdminGrant(a, n)
           \/ /\ UNCHANGED issuerVars
              /\ \/ \E h \in Hosts, t \in Tokens : ReceiptIngest(h, t)
                 \/ \E a \in Accounts : GrantTrial(a)
    PROVE  BackedInv'
<1>1. /\ Total + Debts + Out <= Grants + Given
      /\ Total \in Nat /\ Debts \in Nat /\ Grants \in Nat /\ Out \in Nat /\ Given \in Nat
      /\ Total' \in Nat /\ Grants' \in Nat /\ Out' \in Nat /\ Given' \in Nat
    BY ValueTypesStep, BackedIs DEF ValueTyped
<1>2. trial_grant \in Nat
    BY BrokerAssumption, StoreAssumption
<1>3. Debts' = Debts
    BY DEF Debts, Owed, Amount
<1>4. Total' + Debts + Out' <= Grants' + Given' => BackedInv'
    BY <1>3, BackedIs
<1>5. /\ UNCHANGED granted => Grants' = Grants
      /\ UNCHANGED <<released, receipts>> => Out' = Out
      /\ UNCHANGED trial_accts => Given' = Given
    BY DEF Grants, Out, Receipted, Trials, Given
<1>6. ASSUME NEW m \in Int, Total' <= Total + m
       PROVE  Total' + (Debts + Out) <= (Grants + Given) + m
  <2>1. Debts + Out \in Int
      BY <1>1
  <2>2. Grants + Given \in Int
      BY <1>1
  <2>3. Total + (Debts + Out) = Total + Debts + Out
      BY <1>1
  <2>4. Total + (Debts + Out) <= Grants + Given
      BY <1>1, <2>3
  <2>5. PICK t \in Int, u \in Int, d \in Int, g \in Int :
           t = Total /\ u = Total' /\ d = Debts + Out /\ g = Grants + Given
      BY <1>1, <2>1, <2>2
  <2>6. t + d <= g /\ u <= t + m
      BY <1>6, <2>4, <2>5
  <2>7. u + d <= g + m
      BY <2>6
  <2> QED BY <2>5, <2>7
<1>7. ASSUME NEW a \in Accounts, NEW n \in GrantAmounts, AdminGrant(a, n) PROVE BackedInv'
  <2>1. n \in Nat /\ granted \in [Accounts -> Nat] /\ granted' \in [Accounts -> Nat]
      BY IssuerAssumption, StoreAssumption DEF TypeOK, IssuerTypeOK
  <2>2. Total' <= Total + n
      BY <1>7, <2>1, CreditTotal DEF AdminGrant
  <2>3. Grants' = Grants + n
    <3>1. /\ \A x \in Accounts : x # a => granted[x] = granted'[x]
          /\ granted'[a] = granted[a] + n
        BY <1>7, <2>1 DEF AdminGrant
    <3>2. Grants' = Grants - granted[a] + granted'[a] /\ granted[a] \in Nat
        BY <2>1, <3>1, SumChanges, StoreAssumption DEF Grants
    <3> QED BY <1>1, <2>1, <3>1, <3>2
  <2>4. Out' = Out /\ Given' = Given
      BY <1>5, <1>7 DEF AdminGrant
  <2>5. Total' + Debts + Out' <= Grants' + Given'
    <3>1. Total' + (Debts + Out) <= (Grants + Given) + n
        BY <1>6, <2>1, <2>2
    <3>2. Grants' + Given' = (Grants + Given) + n
        BY <1>1, <2>1, <2>3, <2>4
    <3>3. Total' + Debts + Out' = Total' + (Debts + Out)
        BY <1>1, <2>4
    <3> QED BY <3>1, <3>2, <3>3
  <2> QED BY <1>4, <2>5
<1>8. ASSUME NEW h \in Hosts, NEW t \in Tokens, ReceiptIngest(h, t), UNCHANGED issuerVars
      PROVE  BackedInv'
  <2>1. Total' <= Total + 1
      BY <1>8, CreditTotal, StoreAssumption DEF ReceiptIngest
  <2>2. Out = Out' + 1
    <3>1. t \in released \ Receipted
        BY <1>8, StoreAssumption DEF ReceiptIngest, ReceiptAccepted, SpentCounted, Receipted
    <3>2. (released \ Receipted)' = (released \ Receipted) \ {t}
        BY <1>8, StoreAssumption DEF ReceiptIngest, Receipted, issuerVars, TypeOK, StoreTypeOK
    <3>3. released \ Receipted \in SUBSET Tokens
        BY DEF TypeOK, IssuerTypeOK
    <3>4. Cardinality((released \ Receipted) \ {t}) = Cardinality(released \ Receipted) - 1
        BY <3>1, <3>3, BatchSize, FS_RemoveElement
    <3>5. Out' = Cardinality((released \ Receipted) \ {t})
        BY <3>2 DEF Out
    <3>6. Out = Cardinality(released \ Receipted)
        BY DEF Out
    <3> QED BY <1>1, <3>4, <3>5, <3>6
  <2>3. Grants' = Grants /\ Given' = Given
      BY <1>5, <1>8 DEF ReceiptIngest, issuerVars
  <2>5. Total' + Debts + Out' <= Grants' + Given'
    <3>1. Total' + (Debts + Out) <= (Grants + Given) + 1
        BY <1>6, <2>1
    <3>2. Grants' + Given' = Grants + Given
        BY <2>3
    <3>3. Total' + Debts + Out' = (Total' + (Debts + Out)) - 1
        BY <1>1, <2>2
    <3>4. Total' + (Debts + Out) \in Int
        BY <1>1
    <3>5. Grants + Given \in Int
        BY <1>1
    <3> QED BY <3>1, <3>2, <3>3, <3>4, <3>5
  <2> QED BY <1>4, <2>5
<1>9. ASSUME NEW a \in Accounts, GrantTrial(a), UNCHANGED issuerVars PROVE BackedInv'
  <2>1. Total' <= Total + trial_grant
      BY <1>2, <1>9, CreditTotal DEF GrantTrial
  <2>2. Trials' = Trials + 1
    <3> DEFINE T == {x \in Accounts : trial_accts[x] # None}
    <3>1. T' = T \cup {a} /\ a \notin T /\ T \in SUBSET Accounts
        BY <1>9, BrokerAssumption DEF GrantTrial, TypeOK, StoreTypeOK, BrokerTypeOK
    <3> HIDE DEF T
    <3>2. Cardinality(T') = Cardinality(T) + 1
        BY <3>1, OneMore, StoreAssumption
    <3> QED BY <3>2 DEF Trials, T
  <2>3. Given' = Given + trial_grant
    <3>1. Trials \in Nat /\ trial_grant * (Trials + 1) = trial_grant * Trials + trial_grant
        BY <1>2, ValueTypesStep DEF ValueTyped
    <3> QED BY <2>2, <3>1 DEF Given
  <2>4. Grants' = Grants /\ Out' = Out
      BY <1>5, <1>9 DEF GrantTrial, issuerVars
  <2>5. Total' + Debts + Out' <= Grants' + Given'
    <3>1. Total' + (Debts + Out) <= (Grants + Given) + trial_grant
        BY <1>2, <1>6, <2>1
    <3>2. Grants' + Given' = (Grants + Given) + trial_grant
        BY <1>1, <1>2, <2>3, <2>4
    <3>3. Total' + Debts + Out' = Total' + (Debts + Out)
        BY <1>1, <2>4
    <3> QED BY <3>1, <3>2, <3>3
  <2> QED BY <1>4, <2>5
<1> QED BY <1>7, <1>8, <1>9

\* The restart forgets what was owed.
LEMMA BackedCrash ==
    ASSUME TypeOK, TypeOK', IsFiniteSet(IssueTasks), BackedInv, Crash
    PROVE  BackedInv'
<1>1. /\ Total + Debts + Out <= Grants + Given
      /\ Total \in Nat /\ Debts \in Nat /\ Grants \in Nat /\ Out \in Nat /\ Given \in Nat
      /\ Owed' \in [IssueTasks -> Nat]
    BY ValueTypesStep, BackedIs DEF ValueTyped
<1>3. Total' = Total /\ Out' = Out /\ Grants' = Grants /\ Given' = Given
    BY DEF Crash, IssuerCrash, storeVars, Total, Balances, Out, Receipted, Grants, Trials, Given
<1>4. \A i \in IssueTasks : issue'[i].pc \notin {"bump", "sign", "refund"}
    BY DEF Crash, IssuerCrash, InFlight, IssueRunning, TypeOK, IssuerTypeOK, IssueTask
<1>5. Debts' = 0
    BY <1>1, <1>4, OwedIs, SumOfNothing DEF Debts
<1>6. Total' + Debts' + Out' <= Grants' + Given'
    BY <1>1, <1>3, <1>5
<1> QED BY <1>6, BackedIs

LEMMA BackedStep ==
    ASSUME IsFiniteSet(IssueTasks)
    PROVE  TypeOK /\ SpentCounted /\ BackedInv /\ [Next]_vars => BackedInv'
<1> SUFFICES ASSUME TypeOK, SpentCounted, BackedInv, [Next]_vars PROVE BackedInv'
    OBVIOUS
<1>1. TypeOK'
    BY NextType
<1>2. CASE UNCHANGED <<ledger, issue, released, receipts, granted, trial_accts>>
    BY <1>2 DEF BackedInv, Balances, Owed, Amount, Receipted
<1>3. CASE IssuerNext
  <2>1. CASE \E t \in Tokens : Redeem(t)
      BY <1>2, <2>1 DEF Redeem, issuerVars
  <2>2. ASSUME NEW a \in Accounts, NEW n \in GrantAmounts, AdminGrant(a, n) PROVE BackedInv'
      BY <1>1, <2>2, BackedBooks DEF AdminGrant
  <2> QED BY <1>1, <1>3, <2>1, <2>2, BackedIssue DEF IssuerNext
<1>4. CASE BrokerNext(released) /\ UNCHANGED issuerVars
  <2>1. CASE \/ \E h \in Hosts, t \in Tokens : ReceiptIngest(h, t)
             \/ \E a \in Accounts : GrantTrial(a)
      BY <1>1, <1>4, <2>1, BackedBooks DEF issuerVars
  <2>2. CASE \/ \E x \in ExecTasks, t \in released, h \in Hosts :
                   ExecRoute(x, t, h) \/ ExecNoHost(x, t, h)
             \/ \E x \in ExecTasks : ExecStep(x)
             \/ \E d \in Days : NewDay(d)
             \/ \E h \in Hosts : HostRegister(h) \/ HostAdmit(h)
      BY <1>2, <1>4, <2>2 DEF ExecRoute, ExecNoHost, ExecStep, ExecSpend, ExecDoubleSpend,
         ExecRefused, ExecForward, NewDay, HostRegister, HostAdmit, storeVars, issuerVars
  <2> QED BY <1>4, <2>1, <2>2 DEF BrokerNext
<1>5. CASE Crash
    BY <1>1, <1>5, BackedCrash
<1>6. CASE UNCHANGED vars
    BY <1>2, <1>6 DEF vars, storeVars, issuerVars
<1> QED BY <1>3, <1>4, <1>5, <1>6 DEF Next

\* Whatever races, fails and restarts, the balances and the tokens still worth a credit
\* never exceed what the operator and the trials gave (issue, exec, ingest).  The sums
\* are over finite sets: the requests in flight, like the accounts, are finitely many.
THEOREM ValueIsBacked ==
    ASSUME IsFiniteSet(IssueTasks)
    PROVE  Spec => []ValueBacked
<1>1. Init => BackedInv
  <2> SUFFICES ASSUME Init PROVE BackedInv
      OBVIOUS
  <2>1. ValueTyped
      BY InitType, ValueTypes
  <2>2. Balances = granted
      BY DEF Init, StoreInit, IssuerInit, Balances
  <2>3. Debts = 0
    <3>1. \A i \in IssueTasks : Owed[i] = 0
        BY DEF Init, IssuerInit, Owed
    <3> QED BY <2>1, <3>1, SumOfNothing DEF ValueTyped, Debts
  <2>4. Out = 0
    <3>1. released \ Receipted = {}
        BY DEF Init, IssuerInit
    <3> QED BY <3>1, FS_EmptySet DEF Out
  <2>5. Total = Grants
      BY <2>2 DEF Total, Grants
  <2>6. Total + Debts + Out <= Grants + Given
      BY <2>1, <2>3, <2>4, <2>5 DEF ValueTyped
  <2> QED BY <2>6, BackedIs
<1>2. TypeOK /\ BackedInv => ValueBacked
  <2> SUFFICES ASSUME TypeOK, BackedInv PROVE ValueBacked
      OBVIOUS
  <2>1. ValueTyped
      BY ValueTypes
  <2>2. Total + Debts + Out <= Grants + Given
      BY BackedIs
  <2>3. Total + Out <= Grants + Given
      BY <2>1, <2>2 DEF ValueTyped
  <2> QED BY <2>3 DEF ValueBacked, Total, Grants, Out, Trials, Given
<1> QED BY <1>1, <1>2, BackedStep, SpentInvariant, TypeCorrect, PTL DEF Spec
=============================================================================
