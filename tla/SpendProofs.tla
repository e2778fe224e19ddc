---------------------------- MODULE SpendProofs ----------------------------
(***************************************************************************)
(* Theorems about the life of a token, for every value of the constants:   *)
(* the tripwire never refuses a token that was issued, and a burned token  *)
(* reaches one host once.                                                  *)
(***************************************************************************)
EXTENDS OriginProofs

\* A set with a proper finite superset is smaller than it.
LEMMA SmallerSubset ==
    ASSUME NEW S \in SUBSET Tokens, NEW R \in SUBSET S, S # R
    PROVE  /\ Cardinality(R) \in Nat /\ Cardinality(S) \in Nat
           /\ Cardinality(R) < Cardinality(S)
<1>1. IsFiniteSet(S) /\ Cardinality(S) \in Nat
    BY BatchSize
<1>2. R \in SUBSET Tokens
    OBVIOUS
<1>3. Cardinality(R) \in Nat
    BY <1>2, BatchSize
<1>4. Cardinality(R) <= Cardinality(S) /\ Cardinality(R) # Cardinality(S)
    BY <1>1, FS_Subset
<1> QED BY <1>1, <1>3, <1>4

\* The invariant is strong enough: a token released and not spent leaves room
\* under the tripwire.
LEMMA TripRoom == TypeOK /\ TripInv => NoFalseTrip
<1> SUFFICES ASSUME TypeOK, TripInv, ~(released \subseteq spent_set)
             PROVE  RedeemOk(counters)
    BY DEF NoFalseTrip
<1>1. /\ counters.issued \in Nat /\ counters.redeemed \in Nat /\ U64Max \in Nat
      /\ counters.issued <= U64Max /\ counters \in CounterRow
    BY StoreAssumption DEF TypeOK, StoreTypeOK, CounterRow, U64
<1>2. NoteRedeem(counters).redeemed = SatAdd(counters.redeemed, 1)
    BY <1>1 DEF NoteRedeem, CounterRow
<1>3. CASE counters.issued = U64Max
    BY <1>1, <1>2, <1>3 DEF RedeemOk, SatAdd
<1>4. CASE counters.issued < U64Max
  <2>1. /\ released \in SUBSET Tokens /\ covered \in SUBSET Tokens
        /\ Bound \in SUBSET released /\ Bound # released /\ released \in SUBSET covered
      BY DEF TypeOK, IssuerTypeOK, TripInv, IssuedCovered, SpentCounted
  <2>2. /\ Cardinality(Bound) \in Nat /\ Cardinality(released) \in Nat
        /\ Cardinality(Bound) < Cardinality(released)
      BY <2>1, SmallerSubset
  <2>3. Cardinality(released) <= Cardinality(covered) /\ Cardinality(covered) \in Nat
      BY <2>1, BatchSize, FS_Subset
  <2>4. Cardinality(covered) <= counters.issued /\ counters.redeemed <= Cardinality(Bound)
      BY <1>4 DEF TripInv, IssuedCovered, SpentCounted
  <2>5. counters.redeemed + 1 <= counters.issued
      BY <1>1, <2>2, <2>3, <2>4
  <2> QED BY <1>1, <1>2, <2>5 DEF RedeemOk, SatAdd
<1> QED BY <1>1, <1>3, <1>4

-----------------------------------------------------------------------------
LEMMA TripInit == Init => TripInv
<1> SUFFICES ASSUME Init PROVE TripInv
    OBVIOUS
<1>1. Bound = {}
    BY DEF Init, StoreInit, Bound
<1> QED
  BY <1>1, FS_EmptySet DEF Init, StoreInit, IssuerInit, BrokerInit, TripInv, IssuedCovered,
     SpentCounted

\* A step that changes none of what a part of the invariant reads keeps it.
LEMMA CoveredFrame ==
    IssuedCovered /\ UNCHANGED <<issue, released, covered, counters>> => IssuedCovered'
BY DEF IssuedCovered

LEMMA SpentFrame ==
    ASSUME SpentCounted, UNCHANGED <<spent_set, spend_host, exec>>,
           released \subseteq released', counters'.redeemed = counters.redeemed
    PROVE  SpentCounted'
BY DEF SpentCounted, Bound

\* The steps of an issue task, when the issued counter does not fail.
LEMMA IssueStepCovered ==
    ASSUME TypeOK, IssuedCovered, "bump" \notin Faulty,
           NEW i \in IssueTasks, IssueStep(i)
    PROVE  IssuedCovered'
<1> DEFINE Others == \A j \in IssueTasks : issue'[j].pc = "sign" =>
                        issue[j].pc = "sign" /\ issue'[j].batch = issue[j].batch
<1>1. issue \in [IssueTasks -> IssueTask]
    BY DEF TypeOK, IssuerTypeOK
<1>2. ASSUME Others, UNCHANGED <<released, covered, counters>> PROVE IssuedCovered'
    BY <1>2 DEF IssuedCovered
<1>3. CASE IssueBump(i)
  <2>1. /\ issue[i].batch \in SUBSET Tokens /\ Amount(i) \in Nat
        /\ Amount(i) = Cardinality(issue[i].batch)
      BY <1>3, TaskFacts DEF IssueBump, Amount
  <2>2. covered \in SUBSET Tokens /\ covered' = covered \cup issue[i].batch
      BY <1>3 DEF IssueBump, TypeOK, IssuerTypeOK
  <2>3. Cardinality(covered') <= Cardinality(covered) + Amount(i)
      /\ Cardinality(covered) \in Nat /\ Cardinality(covered') \in Nat
    <3>1. /\ IsFiniteSet(covered) /\ IsFiniteSet(issue[i].batch)
          /\ Cardinality(covered) \in Nat
        BY <2>1, <2>2, BatchSize
    <3>2. covered \cap issue[i].batch \in SUBSET Tokens
        BY <2>1
    <3>3. Cardinality(covered \cap issue[i].batch) \in Nat
        BY <3>2, BatchSize
    <3>4. Cardinality(covered \cup issue[i].batch)
             = Cardinality(covered) + Amount(i) - Cardinality(covered \cap issue[i].batch)
        BY <2>1, <3>1, FS_Union
    <3>5. covered \cup issue[i].batch \in SUBSET Tokens
        BY <2>1, <2>2
    <3>6. Cardinality(covered \cup issue[i].batch) \in Nat
        BY <3>5, BatchSize
    <3> QED BY <2>1, <2>2, <3>1, <3>3, <3>4, <3>6
  <2>4. /\ counters.issued \in Nat /\ U64Max \in Nat
        /\ counters'.issued = SatAdd(counters.issued, Amount(i))
      BY <1>3, StoreAssumption DEF IssueBump, BumpIssued, TypeOK, StoreTypeOK, CounterRow, U64
  <2>5. counters'.issued < U64Max => Cardinality(covered') <= counters'.issued
      BY <2>1, <2>3, <2>4 DEF SatAdd, IssuedCovered
  <2>6. released' \subseteq covered'
      BY <1>3, <2>2 DEF IssueBump, IssuedCovered
  <2>7. \A j \in IssueTasks : issue'[j].pc = "sign" => issue'[j].batch \subseteq covered'
      BY <1>1, <1>3, <2>2 DEF IssueBump, IssuedCovered, IssueTask
  <2> QED BY <2>5, <2>6, <2>7 DEF IssuedCovered
<1>4. CASE IssueSign(i)
  <2>1. Others
      BY <1>1, <1>4 DEF IssueSign, IssueTask
  <2>2. released' \subseteq covered'
      BY <1>4 DEF IssueSign, IssuedCovered
  <2> QED BY <1>4, <2>1, <2>2 DEF IssueSign, IssuedCovered, storeVars
<1>5. CASE IssueDebit(i)
  <2>1. Others
      BY <1>1, <1>5 DEF IssueDebit, IssueTask
  <2> QED BY <1>2, <1>5, <2>1 DEF IssueDebit
<1>6. CASE IssueDebitRefused(i)
  <2>1. Others
      BY <1>1, <1>6 DEF IssueDebitRefused, IssueTask
  <2> QED BY <1>2, <1>6, <2>1 DEF IssueDebitRefused, storeVars
<1>7. CASE IssueSignFail(i)
  <2>1. Others
      BY <1>1, <1>7 DEF IssueSignFail, IssueTask
  <2> QED BY <1>2, <1>7, <2>1 DEF IssueSignFail, storeVars
<1>8. CASE IssueRefund(i)
  <2>1. Others
      BY <1>1, <1>8 DEF IssueRefund, IssueTask
  <2> QED BY <1>2, <1>8, <2>1 DEF IssueRefund
<1>9. CASE IssueRefundDropped(i)
  <2>1. Others
      BY <1>1, <1>9 DEF IssueRefundDropped, IssueTask
  <2> QED BY <1>2, <1>9, <2>1 DEF IssueRefundDropped, storeVars
<1>10. CASE IssueRelease(i)
  <2>1. Others
      BY <1>1, <1>10 DEF IssueRelease, IssueTask
  <2> QED BY <1>2, <1>10, <2>1 DEF IssueRelease, storeVars
<1> QED
  BY <1>3, <1>4, <1>5, <1>6, <1>7, <1>8, <1>9, <1>10 DEF IssueStep, IssueBumpFault

\* Every step keeps IssuedCovered.
LEMMA CoveredNext ==
    TypeOK /\ IssuedCovered /\ [Next]_vars /\ "bump" \notin Faulty => IssuedCovered'
<1> SUFFICES ASSUME TypeOK, IssuedCovered, [Next]_vars, "bump" \notin Faulty
             PROVE  IssuedCovered'
    OBVIOUS
<1>1. issue \in [IssueTasks -> IssueTask]
    BY DEF TypeOK, IssuerTypeOK
<1>2. ASSUME NEW i \in IssueTasks, NEW a \in Accounts, NEW r \in ReqIds,
             NEW b \in Batches, IssueBegin(i, a, r, b)
      PROVE  IssuedCovered'
  <2>1. BeginOutcome(idem[<<a, r>>], b) # "sign"
      BY DEF BeginOutcome, TypeOK, IssuerTypeOK, Key, Entry
  <2>2. \A j \in IssueTasks : issue'[j].pc = "sign" =>
           issue[j].pc = "sign" /\ issue'[j].batch = issue[j].batch
      BY <1>1, <1>2, <2>1 DEF IssueBegin
  <2> QED BY <1>2, <2>2 DEF IssueBegin, IssuedCovered, storeVars
<1>3. CASE Crash
  <2>1. \A j \in IssueTasks : issue'[j].pc = "sign" =>
           issue[j].pc = "sign" /\ issue'[j].batch = issue[j].batch
      BY <1>1, <1>3 DEF Crash, IssuerCrash, InFlight, IssueRunning, IssueTask
  <2> QED BY <1>3, <2>1 DEF Crash, IssuerCrash, IssuedCovered, storeVars
<1>4. ASSUME NEW x \in ExecTasks, ExecSpend(x), UNCHANGED issuerVars
      PROVE  IssuedCovered'
  <2>1. counters'.issued = counters.issued
      BY <1>4 DEF ExecSpend, NoteRedeem, TypeOK, StoreTypeOK, CounterRow
  <2> QED BY <1>4, <2>1 DEF IssuedCovered, issuerVars
<1>5. ASSUME NEW a \in Accounts, GrantTrial(a), UNCHANGED issuerVars
      PROVE  IssuedCovered'
  <2>1. counters'.issued = counters.issued
      BY <1>5 DEF GrantTrial, TypeOK, StoreTypeOK, CounterRow
  <2> QED BY <1>5, <2>1 DEF IssuedCovered, issuerVars
<1>6. CASE BrokerNext(released) /\ UNCHANGED issuerVars
  BY <1>4, <1>5, <1>6, CoveredFrame
  DEF BrokerNext, ExecRoute, ExecNoHost, ExecStep, ExecDoubleSpend, ExecRefused, ExecForward,
      ReceiptIngest, NewDay, HostRegister, HostAdmit, storeVars, issuerVars
<1>7. CASE IssuerNext
  BY <1>2, <1>7, IssueStepCovered, CoveredFrame
  DEF IssuerNext, Redeem, SpentInsert, AdminGrant, issuerVars
<1>8. CASE UNCHANGED vars
  BY <1>8, CoveredFrame DEF vars, storeVars, issuerVars
<1> QED BY <1>3, <1>6, <1>7, <1>8 DEF Next

\* Binding one more burned token, and counting it.
LEMMA SpendCounted ==
    ASSUME TypeOK, SpentCounted, NEW x \in ExecTasks, ExecSpend(x), UNCHANGED issuerVars
    PROVE  SpentCounted'
<1>1. exec[x].tok \in Tokens /\ exec[x].host \in Hosts /\ exec[x].host # None
    BY StoreAssumption DEF ExecSpend, TypeOK, BrokerTypeOK
<1>2. Bound' = Bound \cup {exec[x].tok} /\ exec[x].tok \notin Bound
    BY <1>1 DEF ExecSpend, SpentCounted, Bound, TypeOK, StoreTypeOK
<1>3. IsFiniteSet(Bound) /\ Cardinality(Bound) \in Nat
    BY BatchSize DEF Bound
<1>4. Cardinality(Bound') = Cardinality(Bound) + 1
    BY <1>2, <1>3, FS_AddElement
<1>5. /\ counters.redeemed \in Nat /\ U64Max \in Nat
      /\ counters'.redeemed = SatAdd(counters.redeemed, 1)
    BY StoreAssumption DEF ExecSpend, NoteRedeem, TypeOK, StoreTypeOK, CounterRow, U64
<1>6. counters'.redeemed <= Cardinality(Bound')
    BY <1>3, <1>4, <1>5 DEF SatAdd, SpentCounted
<1>7. \A y \in ExecTasks : exec'[y].pc = "spend" =>
         exec[y].pc = "spend" /\ exec'[y].tok = exec[y].tok
    BY DEF ExecSpend, TypeOK, BrokerTypeOK, ExecTask
<1>8. exec[x].tok \in released /\ released' = released
    BY DEF ExecSpend, SpentCounted, issuerVars
<1>9. Bound' \subseteq spent_set' /\ spent_set' \subseteq released'
    BY <1>2, <1>8 DEF ExecSpend, SpentCounted
<1> QED BY <1>6, <1>7, <1>8, <1>9 DEF SpentCounted

\* An exec task's other steps bind nothing and route nothing.
LEMMA ExecQuiet ==
    ASSUME TypeOK, SpentCounted, UNCHANGED <<storeVars, released>>,
           \A y \in ExecTasks : exec'[y].pc = "spend" => exec'[y].tok \in released
    PROVE  SpentCounted'
BY DEF SpentCounted, Bound, storeVars

\* Every step keeps SpentCounted.
LEMMA SpentNext == TypeOK /\ SpentCounted /\ [Next]_vars => SpentCounted'
<1> SUFFICES ASSUME TypeOK, SpentCounted, [Next]_vars PROVE SpentCounted'
    OBVIOUS
<1> DEFINE Routed == \A y \in ExecTasks : exec'[y].pc = "spend" => exec'[y].tok \in released
<1>1. exec \in [ExecTasks -> ExecTask]
    BY DEF TypeOK, BrokerTypeOK
<1>2. ASSUME NEW x \in ExecTasks, NEW t \in released, NEW h \in Hosts,
             ExecRoute(x, t, h) \/ ExecNoHost(x, t, h), UNCHANGED issuerVars
      PROVE  SpentCounted'
  <2>1. Routed
      BY <1>1, <1>2 DEF ExecRoute, ExecNoHost, SpentCounted
  <2> QED BY <1>2, <2>1, ExecQuiet DEF ExecRoute, ExecNoHost, issuerVars
<1>3. ASSUME NEW x \in ExecTasks, ExecDoubleSpend(x), UNCHANGED issuerVars
      PROVE  SpentCounted'
  <2>1. Routed
      BY <1>1, <1>3 DEF ExecDoubleSpend, SpentCounted, ExecTask
  <2> QED BY <1>3, <2>1, ExecQuiet DEF ExecDoubleSpend, issuerVars
<1>4. ASSUME NEW x \in ExecTasks, ExecRefused(x), UNCHANGED issuerVars
      PROVE  SpentCounted'
  <2>1. Routed
      BY <1>1, <1>4 DEF ExecRefused, SpentCounted, ExecTask
  <2> QED BY <1>4, <2>1, ExecQuiet DEF ExecRefused, issuerVars
<1>5. ASSUME NEW x \in ExecTasks, NEW p \in BOOLEAN, NEW q \in BOOLEAN,
             ExecForward(x, p, q), UNCHANGED issuerVars
      PROVE  SpentCounted'
  <2>1. Routed
      BY <1>1, <1>5 DEF ExecForward, SpentCounted, ExecTask
  <2> QED BY <1>5, <2>1, ExecQuiet DEF ExecForward, issuerVars
<1>6. CASE Crash
  <2>1. Routed
      BY <1>1, <1>6 DEF Crash, BrokerCrash, SpentCounted, ExecTask
  <2> QED BY <1>6, <2>1, ExecQuiet DEF Crash, IssuerCrash
<1>7. ASSUME NEW a \in Accounts, GrantTrial(a), UNCHANGED issuerVars
      PROVE  SpentCounted'
  <2>1. counters'.redeemed = counters.redeemed
      BY <1>7 DEF GrantTrial, TypeOK, StoreTypeOK, CounterRow
  <2> QED BY <1>7, <2>1, SpentFrame DEF GrantTrial, issuerVars, brokerVars
<1>8. CASE BrokerNext(released) /\ UNCHANGED issuerVars
  <2>1. ASSUME NEW h \in Hosts, NEW t \in Tokens, ReceiptIngest(h, t) PROVE SpentCounted'
      BY <1>8, <2>1, SpentFrame DEF ReceiptIngest, issuerVars, brokerVars
  <2>2. ASSUME NEW d \in Days, NewDay(d) PROVE SpentCounted'
      BY <1>8, <2>2, SpentFrame DEF NewDay, storeVars, issuerVars
  <2>3. ASSUME NEW h \in Hosts, HostRegister(h) \/ HostAdmit(h) PROVE SpentCounted'
      BY <1>8, <2>3, SpentFrame DEF HostRegister, HostAdmit, issuerVars, brokerVars
  <2> QED
    BY <1>2, <1>3, <1>4, <1>5, <1>7, <1>8, <2>1, <2>2, <2>3, SpendCounted
    DEF BrokerNext, ExecStep
<1>9. CASE IssuerNext /\ UNCHANGED brokerVars
  <2>1. ASSUME NEW t \in Tokens, Redeem(t) PROVE SpentCounted'
      BY <1>9, <2>1 DEF Redeem, SpentInsert, SpentCounted, Bound, issuerVars, brokerVars
  <2>2. ASSUME NEW i \in IssueTasks, IssueBump(i) PROVE SpentCounted'
    <3>1. counters'.redeemed = counters.redeemed
        BY <2>2 DEF IssueBump, BumpIssued, TypeOK, StoreTypeOK, CounterRow
    <3> QED BY <1>9, <2>2, <3>1, SpentFrame DEF IssueBump, brokerVars
  <2>3. ASSUME NEW i \in IssueTasks, IssueStep(i), ~IssueBump(i) PROVE SpentCounted'
      BY <1>9, <2>3, SpentFrame
      DEF IssueStep, IssueDebit, IssueDebitRefused, IssueBumpFault, IssueSign, IssueSignFail,
          IssueRefund, IssueRefundDropped, IssueRelease, storeVars, brokerVars
  <2>4. ASSUME NEW i \in IssueTasks, NEW a \in Accounts, NEW r \in ReqIds,
               NEW b \in Batches, IssueBegin(i, a, r, b)
        PROVE  SpentCounted'
      BY <1>9, <2>4, SpentFrame DEF IssueBegin, storeVars, brokerVars
  <2>5. ASSUME NEW a \in Accounts, NEW n \in GrantAmounts, AdminGrant(a, n)
        PROVE  SpentCounted'
      BY <1>9, <2>5, SpentFrame DEF AdminGrant, brokerVars
  <2> QED BY <1>9, <2>1, <2>2, <2>3, <2>4, <2>5 DEF IssuerNext
<1>10. CASE UNCHANGED vars
  BY <1>10, SpentFrame DEF vars, storeVars, issuerVars, brokerVars
<1> QED BY <1>6, <1>8, <1>9, <1>10 DEF Next

\* When the issued counter's transaction does not fail, the tripwire of
\* note_redeem_txn never refuses a token that was issued and not yet spent, in any
\* interleaving of issue, exec, redeem and crashes, for any batches and tasks.
THEOREM TripwireNeverFalse ==
    ASSUME "bump" \notin Faulty
    PROVE  Spec => []NoFalseTrip
<1>1. TypeOK /\ TripInv /\ [Next]_vars => TripInv'
    BY CoveredNext, SpentNext DEF TripInv
<1> QED BY <1>1, TripInit, TripRoom, TypeCorrect, PTL DEF Spec

-----------------------------------------------------------------------------
LEMMA ForwardInit == Init => ForwardInv
<1> SUFFICES ASSUME Init PROVE ForwardInv
    OBVIOUS
<1>1. Bound = {}
    BY DEF Init, StoreInit, Bound
<1> QED
  BY <1>1, StoreAssumption DEF Init, StoreInit, BrokerInit, ForwardInv, ForwardedOnce

\* A step that binds nothing, forwards nothing and lets no task reach the forward.
LEMMA ForwardFrame ==
    ASSUME ForwardInv, UNCHANGED <<spend_host, forwards>>, spent_set \subseteq spent_set',
           \A x \in ExecTasks : exec'[x].pc = "forward" =>
              /\ exec[x].pc = "forward"
              /\ exec'[x].tok = exec[x].tok /\ exec'[x].host = exec[x].host
    PROVE  ForwardInv'
BY DEF ForwardInv, ForwardedOnce, Bound

\* The spend: a fresh token is bound, and one task may now forward it.
LEMMA ForwardSpend ==
    ASSUME TypeOK, ForwardInv, NEW x \in ExecTasks, ExecSpend(x)
    PROVE  ForwardInv'
<1> DEFINE t == exec[x].tok
           h == exec[x].host
<1>1. t \in Tokens /\ h \in Hosts /\ h # None
    BY StoreAssumption DEF ExecSpend, TypeOK, BrokerTypeOK
<1>2. /\ spend_host' = [spend_host EXCEPT ![t] = h] /\ spent_set' = spent_set \cup {t}
      /\ t \notin spent_set /\ UNCHANGED forwards /\ exec' = [exec EXCEPT ![x].pc = "forward"]
      /\ exec[x].pc = "spend"
    BY DEF ExecSpend
<1>3. /\ spend_host \in [Tokens -> Hosts \cup {None}] /\ exec \in [ExecTasks -> ExecTask]
    BY DEF TypeOK, StoreTypeOK, BrokerTypeOK
<1>4. t \notin Bound
    BY <1>2 DEF ForwardInv
<1>5. Bound' = Bound \cup {t}
    BY <1>1, <1>2, <1>3 DEF Bound
<1>6. \A y \in ExecTasks : /\ exec'[y].tok = exec[y].tok /\ exec'[y].host = exec[y].host
                           /\ y # x => exec'[y].pc = exec[y].pc
    BY <1>2, <1>3 DEF ExecTask
<1>7. \A y \in ExecTasks : exec[y].pc = "forward" => exec[y].tok \in Bound
    BY <1>3, StoreAssumption DEF ForwardInv, Bound, TypeOK, BrokerTypeOK
<1>8. \A y \in ExecTasks : y # x /\ exec'[y].pc = "forward" => exec'[y].tok # t
    BY <1>4, <1>6, <1>7
<1>9. \A g \in Hosts : forwards[t][g] = 0
    BY <1>1, <1>4 DEF ForwardInv
<1>10. /\ spend_host'[t] = h
       /\ \A u \in Tokens : u # t => spend_host'[u] = spend_host[u]
    BY <1>1, <1>2, <1>3
<1> HIDE DEF t, h
<1>11. Bound' \subseteq spent_set'
    BY <1>2, <1>5 DEF ForwardInv
<1>12. \A u \in Tokens \ Bound', g \in Hosts : forwards'[u][g] = 0
    BY <1>2, <1>5 DEF ForwardInv
<1>13. \A y \in ExecTasks : exec'[y].pc = "forward" =>
          /\ spend_host'[exec'[y].tok] = exec'[y].host
          /\ \A g \in Hosts : forwards'[exec'[y].tok][g] = 0
  <2> SUFFICES ASSUME NEW y \in ExecTasks, exec'[y].pc = "forward"
               PROVE  /\ spend_host'[exec'[y].tok] = exec'[y].host
                      /\ \A g \in Hosts : forwards'[exec'[y].tok][g] = 0
      OBVIOUS
  <2>1. CASE y = x
      BY <1>2, <1>6, <1>9, <1>10, <2>1 DEF t, h
  <2>2. CASE y # x
    <3>1. exec[y].tok \in Tokens /\ exec[y].tok # t /\ exec[y].pc = "forward"
        BY <1>6, <1>8, <2>2 DEF TypeOK, BrokerTypeOK
    <3> QED BY <1>2, <1>6, <1>10, <3>1 DEF ForwardInv
  <2> QED BY <2>1, <2>2
<1>14. \A y, z \in ExecTasks :
          exec'[y].pc = "forward" /\ exec'[z].pc = "forward" /\ exec'[y].tok = exec'[z].tok
          => y = z
  <2> SUFFICES ASSUME NEW y \in ExecTasks, NEW z \in ExecTasks, exec'[y].pc = "forward",
                      exec'[z].pc = "forward", exec'[y].tok = exec'[z].tok
               PROVE  y = z
      OBVIOUS
  <2>1. CASE y = x \/ z = x
      BY <1>6, <1>8, <2>1 DEF t
  <2>2. CASE y # x /\ z # x
      BY <1>6, <2>2 DEF ForwardInv
  <2> QED BY <2>1, <2>2
<1>15. ForwardedOnce'
  <2> SUFFICES ASSUME NEW u \in Tokens, NEW g \in Hosts
               PROVE  forwards'[u][g] <= IF spend_host'[u] = g THEN 1 ELSE 0
      BY DEF ForwardedOnce
  <2>1. CASE u = t
      BY <1>2, <1>9, <2>1
  <2>2. CASE u # t
      BY <1>2, <1>10, <2>2 DEF ForwardInv, ForwardedOnce
  <2> QED BY <2>1, <2>2
<1> QED BY <1>11, <1>12, <1>13, <1>14, <1>15 DEF ForwardInv

\* The forward: the token's one task leaves, having delivered it once or not.
LEMMA ForwardForward ==
    ASSUME TypeOK, ForwardInv, NEW x \in ExecTasks, NEW p \in BOOLEAN, NEW q \in BOOLEAN,
           ExecForward(x, p, q)
    PROVE  ForwardInv'
<1> DEFINE t == exec[x].tok
           h == exec[x].host
<1>1. t \in Tokens /\ h \in Hosts /\ h # None /\ spend_host[t] = h
    BY StoreAssumption DEF ExecForward, TypeOK, BrokerTypeOK, ForwardInv
<1>2. /\ forwards \in [Tokens -> [Hosts -> Nat]] /\ exec \in [ExecTasks -> ExecTask]
      /\ UNCHANGED <<spend_host, spent_set>> /\ Bound' = Bound /\ t \in Bound
    BY <1>1 DEF ExecForward, TypeOK, BrokerTypeOK, storeVars, Bound
<1>3. \A y \in ExecTasks : exec'[y].pc = "forward" =>
         /\ y # x /\ exec[y].pc = "forward"
         /\ exec'[y].tok = exec[y].tok /\ exec'[y].host = exec[y].host
    BY <1>2 DEF ExecForward, ExecTask
<1>4. \A u \in Tokens, g \in Hosts :
         forwards'[u][g] = IF u = t /\ g = h /\ p THEN forwards[u][g] + 1 ELSE forwards[u][g]
    BY <1>1, <1>2 DEF ExecForward
<1>5. \A g \in Hosts : forwards[t][g] = 0
    BY DEF ExecForward, ForwardInv
<1>6. \A y \in ExecTasks : exec'[y].pc = "forward" => exec[y].tok # t /\ exec[y].tok \in Tokens
    BY <1>3 DEF ExecForward, ForwardInv, TypeOK, BrokerTypeOK
<1> HIDE DEF t, h
<1>7. \A u \in Tokens \ Bound', g \in Hosts : forwards'[u][g] = 0
    BY <1>2, <1>4 DEF ForwardInv
<1>8. \A y \in ExecTasks : exec'[y].pc = "forward" =>
         /\ spend_host'[exec'[y].tok] = exec'[y].host
         /\ \A g \in Hosts : forwards'[exec'[y].tok][g] = 0
    BY <1>2, <1>3, <1>4, <1>6 DEF ForwardInv
<1>9. ForwardedOnce'
  <2> SUFFICES ASSUME NEW u \in Tokens, NEW g \in Hosts
               PROVE  forwards'[u][g] <= IF spend_host'[u] = g THEN 1 ELSE 0
      BY DEF ForwardedOnce
  <2>1. CASE u = t
      BY <1>1, <1>2, <1>4, <1>5, <2>1
  <2>2. CASE u # t
      BY <1>2, <1>4, <2>2 DEF ForwardInv, ForwardedOnce
  <2> QED BY <2>1, <2>2
<1> QED BY <1>2, <1>3, <1>7, <1>8, <1>9 DEF ForwardInv

LEMMA ForwardNext == TypeOK /\ ForwardInv /\ [Next]_vars => ForwardInv'
<1> SUFFICES ASSUME TypeOK, ForwardInv, [Next]_vars PROVE ForwardInv'
    OBVIOUS
<1> DEFINE Kept == \A x \in ExecTasks : exec'[x].pc = "forward" =>
                      /\ exec[x].pc = "forward"
                      /\ exec'[x].tok = exec[x].tok /\ exec'[x].host = exec[x].host
<1>1. exec \in [ExecTasks -> ExecTask]
    BY DEF TypeOK, BrokerTypeOK
<1>2. ASSUME NEW x \in ExecTasks, NEW t \in released, NEW h \in Hosts,
             ExecRoute(x, t, h) \/ ExecNoHost(x, t, h)
      PROVE  ForwardInv'
  <2>1. Kept
      BY <1>1, <1>2 DEF ExecRoute, ExecNoHost
  <2> QED BY <1>2, <2>1, ForwardFrame DEF ExecRoute, ExecNoHost, storeVars
<1>3. ASSUME NEW x \in ExecTasks, ExecDoubleSpend(x) PROVE ForwardInv'
  <2>1. Kept
      BY <1>1, <1>3 DEF ExecDoubleSpend, ExecTask
  <2> QED BY <1>3, <2>1, ForwardFrame DEF ExecDoubleSpend, storeVars
<1>4. ASSUME NEW x \in ExecTasks, ExecRefused(x) PROVE ForwardInv'
  <2>1. Kept
      BY <1>1, <1>4 DEF ExecRefused, ExecTask
  <2> QED BY <1>4, <2>1, ForwardFrame DEF ExecRefused, storeVars
<1>5. CASE Crash
  <2>1. Kept
      BY <1>1, <1>5 DEF Crash, BrokerCrash, ExecTask
  <2> QED BY <1>5, <2>1, ForwardFrame DEF Crash, BrokerCrash, storeVars
<1>6. ASSUME UNCHANGED <<exec, forwards, spend_host>>, spent_set \subseteq spent_set'
      PROVE  ForwardInv'
    BY <1>6, ForwardFrame
<1>7. CASE BrokerNext(released)
  <2>1. ASSUME NEW h \in Hosts, NEW t \in Tokens, ReceiptIngest(h, t) PROVE ForwardInv'
      BY <1>6, <2>1 DEF ReceiptIngest, brokerVars
  <2>2. ASSUME NEW a \in Accounts, GrantTrial(a) PROVE ForwardInv'
      BY <1>6, <2>2 DEF GrantTrial, brokerVars
  <2>3. ASSUME NEW d \in Days, NewDay(d) PROVE ForwardInv'
      BY <1>6, <2>3 DEF NewDay, storeVars
  <2>4. ASSUME NEW h \in Hosts, HostRegister(h) \/ HostAdmit(h) PROVE ForwardInv'
      BY <1>6, <2>4 DEF HostRegister, HostAdmit, brokerVars
  <2> QED
    BY <1>2, <1>3, <1>4, <1>7, <2>1, <2>2, <2>3, <2>4, ForwardSpend, ForwardForward
    DEF BrokerNext, ExecStep
<1>8. CASE IssuerNext /\ UNCHANGED brokerVars
  <2>1. UNCHANGED <<exec, forwards>>
      BY <1>8 DEF brokerVars
  <2>2. UNCHANGED spend_host /\ spent_set \subseteq spent_set'
      BY <1>8 DEF IssuerNext, IssueBegin, IssueStep, IssueDebit, IssueDebitRefused, IssueBump,
         IssueBumpFault, IssueSign, IssueSignFail, IssueRefund, IssueRefundDropped,
         IssueRelease, Redeem, SpentInsert, AdminGrant, storeVars
  <2> QED BY <1>6, <2>1, <2>2
<1>9. CASE UNCHANGED vars
  BY <1>6, <1>9 DEF vars, storeVars, brokerVars
<1> QED BY <1>5, <1>7, <1>8, <1>9 DEF Next

\* A burned token is forwarded at most once, and only to the host its spend is
\* bound to, for any number of concurrent and repeated execs and any crashes.
THEOREM TokenForwardedOnce == Spec => []ForwardedOnce
<1>1. ForwardInv => ForwardedOnce
    BY DEF ForwardInv
<1> QED BY <1>1, ForwardInit, ForwardNext, TypeCorrect, PTL DEF Spec
=============================================================================
