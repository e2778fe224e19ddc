---------------------------- MODULE OriginProofs ----------------------------
(***************************************************************************)
(* Theorems about Origin, for every value of its constants.                *)
(***************************************************************************)
EXTENDS Origin, FiniteSetTheorems, TLAPS

-----------------------------------------------------------------------------
\* Saturating addition stays within u64.
LEMMA SatAddType ==
    ASSUME NEW x \in Nat, NEW y \in Nat
    PROVE  SatAdd(x, y) \in U64
BY StoreAssumption DEF SatAdd, U64

\* The ledger updates keep a row a row.
LEMMA CreditType ==
    ASSUME NEW row \in LedgerRow, NEW n \in Nat
    PROVE  Credit(row, n) \in LedgerRow
<1>1. row.balance \in Nat /\ row.earned \in Nat
    BY StoreAssumption DEF LedgerRow, U64
<1>2. SatAdd(row.balance, n) \in U64 /\ SatAdd(row.earned, n) \in U64
    BY <1>1, SatAddType
<1> QED BY <1>2 DEF Credit, LedgerRow

LEMMA DebitType ==
    ASSUME NEW row \in LedgerRow, NEW n \in Nat, CanDebit(row, n)
    PROVE  Debit(row, n) \in LedgerRow
<1>1. row.balance - n \in U64 /\ row.spent \in Nat
    BY StoreAssumption DEF CanDebit, LedgerRow, U64
<1>2. SatAdd(row.spent, n) \in U64
    BY <1>1, SatAddType
<1> QED BY <1>1, <1>2 DEF Debit, LedgerRow

LEMMA BumpIssuedType ==
    ASSUME NEW c \in CounterRow, NEW n \in Nat
    PROVE  BumpIssued(c, n) \in CounterRow
BY StoreAssumption DEF BumpIssued, CounterRow, SatAdd, U64

LEMMA NoteRedeemType ==
    ASSUME NEW c \in CounterRow
    PROVE  NoteRedeem(c) \in CounterRow
BY StoreAssumption DEF NoteRedeem, CounterRow, SatAdd, U64

\* The size of a batch, the amount a request is debited, is a natural number.
LEMMA BatchSize ==
    ASSUME NEW b \in SUBSET Tokens
    PROVE  IsFiniteSet(b) /\ Cardinality(b) \in Nat
BY StoreAssumption, FS_Subset, FS_CardinalityType

-----------------------------------------------------------------------------
LEMMA InitType == Init => TypeOK
<1> SUFFICES ASSUME Init PROVE TypeOK
    OBVIOUS
<1>1. StoreTypeOK
    BY StoreAssumption DEF Init, StoreInit, StoreTypeOK, LedgerRow, CounterRow,
       HostStatus, U64
<1>2. IssuerTypeOK
    BY DEF Init, IssuerInit, IssuerTypeOK, Entry, Free, IssueTask, IssuePc,
       IssueReply, Key
<1>3. BrokerTypeOK
    BY DEF Init, BrokerInit, BrokerTypeOK, ExecTask, ExecPc, ExecReply
<1> QED BY <1>1, <1>2, <1>3 DEF TypeOK

\* A task that has begun names an account, a request id and a batch of the model.
LEMMA TaskFacts ==
    ASSUME TypeOK, NEW i \in IssueTasks, issue[i].pc # "idle"
    PROVE  /\ issue[i].acct \in Accounts /\ KeyOf(i) \in Key
           /\ issue[i].batch \in SUBSET Tokens
           /\ Amount(i) \in Nat
BY IssuerAssumption, BatchSize DEF TypeOK, IssuerTypeOK, KeyOf, Key, Amount

\* A step that leaves a component alone keeps its types.
LEMMA StoreFrame == StoreTypeOK /\ UNCHANGED storeVars => StoreTypeOK'
BY DEF StoreTypeOK, storeVars

LEMMA IssuerFrame == IssuerTypeOK /\ UNCHANGED issuerVars => IssuerTypeOK'
BY DEF IssuerTypeOK, issuerVars

LEMMA BrokerFrame == BrokerTypeOK /\ UNCHANGED brokerVars => BrokerTypeOK'
BY DEF BrokerTypeOK, brokerVars

\* Every step keeps the types.
LEMMA NextType == TypeOK /\ [Next]_vars => TypeOK'
<1> SUFFICES ASSUME TypeOK, [Next]_vars PROVE TypeOK'
    OBVIOUS
<1> USE DEF TypeOK
<1>begin. ASSUME NEW i \in IssueTasks, NEW a \in Accounts, NEW r \in ReqIds,
                 NEW b \in Batches, IssueBegin(i, a, r, b), UNCHANGED brokerVars
          PROVE  TypeOK'
  <2>1. BeginOutcome(idem[<<a, r>>], b) \in IssuePc
      BY DEF BeginOutcome, IssuerTypeOK, Key, Entry, IssuePc, IssueRunning, IssueReply
  <2>2. b \in SUBSET Tokens
      BY IssuerAssumption
  <2>3. BeginEntry(idem[<<a, r>>], b) \in Entry
      BY <2>2 DEF BeginEntry, IssuerTypeOK, Key, Entry
  <2> DEFINE new == [pc |-> BeginOutcome(idem[<<a, r>>], b), acct |-> a, rid |-> r,
                     batch |-> b, run |-> incarnation]
  <2>4. new \in IssueTask
      BY <2>1, <2>2 DEF IssueTask, IssuerTypeOK
  <2>5. issue' = [issue EXCEPT ![i] = new] /\ idem' = [idem EXCEPT ![<<a, r>>] = BeginEntry(@, b)]
      BY <1>begin DEF IssueBegin
  <2>6. new.acct = a /\ new.rid = r /\ new.batch = b
      OBVIOUS
  <2> HIDE DEF new
  <2>7. IssuerTypeOK'
      BY <1>begin, <2>3, <2>4, <2>5, <2>6 DEF IssueBegin, IssuerTypeOK, Key
  <2> QED BY <1>begin, <2>7 DEF IssueBegin, StoreTypeOK, BrokerTypeOK, storeVars,
             brokerVars
<1>debit. ASSUME NEW i \in IssueTasks, IssueDebit(i), UNCHANGED brokerVars
          PROVE  TypeOK'
  <2>1. issue[i].acct \in Accounts /\ Amount(i) \in Nat
      BY <1>debit, TaskFacts DEF IssueDebit
  <2>2. Debit(ledger[issue[i].acct], Amount(i)) \in LedgerRow
      BY <1>debit, <2>1, DebitType DEF IssueDebit, StoreTypeOK
  <2>3. StoreTypeOK'
      BY <1>debit, <2>2 DEF IssueDebit, StoreTypeOK
  <2> QED BY <1>debit, <2>3 DEF IssueDebit, IssuerTypeOK, IssueTask, IssuePc, IssueRunning, IssueReply,
             BrokerTypeOK, brokerVars
<1>refuse. ASSUME NEW i \in IssueTasks, IssueDebitRefused(i), UNCHANGED brokerVars
           PROVE  TypeOK'
  BY <1>refuse, ZenonT(60) DEF IssueDebitRefused, StoreTypeOK, IssuerTypeOK, IssueTask,
     IssuePc, IssueRunning, IssueReply, BrokerTypeOK, storeVars, brokerVars
<1>bump. ASSUME NEW i \in IssueTasks, IssueBump(i), UNCHANGED brokerVars
         PROVE  TypeOK'
  <2>1. issue[i].batch \in SUBSET Tokens /\ Amount(i) \in Nat
      BY <1>bump, TaskFacts DEF IssueBump
  <2>2. StoreTypeOK'
      BY <1>bump, <2>1, BumpIssuedType DEF IssueBump, StoreTypeOK
  <2> QED BY <1>bump, <2>1, <2>2 DEF IssueBump, IssuerTypeOK, IssueTask, IssuePc, IssueRunning, IssueReply,
             BrokerTypeOK, brokerVars
<1>bumpFault. ASSUME NEW i \in IssueTasks, IssueBumpFault(i), UNCHANGED brokerVars
              PROVE  TypeOK'
  BY <1>bumpFault, ZenonT(60) DEF IssueBumpFault, StoreTypeOK, IssuerTypeOK, IssueTask,
     IssuePc, IssueRunning, IssueReply, BrokerTypeOK, storeVars, brokerVars
<1>sign. ASSUME NEW i \in IssueTasks, IssueSign(i), UNCHANGED brokerVars
         PROVE  TypeOK'
  <2>1. issue[i].batch \in SUBSET Tokens /\ KeyOf(i) \in Key
      BY <1>sign, TaskFacts DEF IssueSign
  <2> QED BY <1>sign, <2>1, ZenonT(60) DEF IssueSign, StoreTypeOK, IssuerTypeOK, IssueTask,
             IssuePc, IssueRunning, IssueReply, Entry, BrokerTypeOK, storeVars, brokerVars
<1>signFail. ASSUME NEW i \in IssueTasks, IssueSignFail(i), UNCHANGED brokerVars
             PROVE  TypeOK'
  BY <1>signFail DEF IssueSignFail, StoreTypeOK, IssuerTypeOK, IssueTask,
     IssuePc, IssueRunning, IssueReply, BrokerTypeOK, storeVars, brokerVars
<1>refund. ASSUME NEW i \in IssueTasks, IssueRefund(i), UNCHANGED brokerVars
           PROVE  TypeOK'
  <2>1. issue[i].acct \in Accounts /\ Amount(i) \in Nat
      BY <1>refund, TaskFacts DEF IssueRefund
  <2>2. Credit(ledger[issue[i].acct], Amount(i)) \in LedgerRow
      BY <2>1, CreditType DEF StoreTypeOK
  <2>3. StoreTypeOK'
      BY <1>refund, <2>2 DEF IssueRefund, StoreTypeOK
  <2> QED BY <1>refund, <2>1, <2>3 DEF IssueRefund, IssuerTypeOK, IssueTask, IssuePc,
             IssueRunning, IssueReply, BrokerTypeOK, brokerVars
<1>dropped. ASSUME NEW i \in IssueTasks, IssueRefundDropped(i), UNCHANGED brokerVars
            PROVE  TypeOK'
  BY <1>dropped, ZenonT(60) DEF IssueRefundDropped, StoreTypeOK, IssuerTypeOK, IssueTask,
     IssuePc, IssueRunning, IssueReply, BrokerTypeOK, storeVars, brokerVars
<1>release. ASSUME NEW i \in IssueTasks, IssueRelease(i), UNCHANGED brokerVars
            PROVE  TypeOK'
  <2> DEFINE p == IF issue[i].pc = "give_up" THEN "insufficient" ELSE "internal"
  <2>0. p \in IssuePc
      BY DEF IssuePc, IssueReply
  <2>1. issue' = [issue EXCEPT ![i].pc = p]
      BY <1>release DEF IssueRelease
  <2> HIDE DEF p
  <2>. issue' \in [IssueTasks -> IssueTask]
      BY <2>0, <2>1 DEF IssuerTypeOK, IssueTask
  <2>. \A j \in IssueTasks :
          /\ issue'[j].acct = issue[j].acct /\ issue'[j].rid = issue[j].rid
          /\ issue'[j].batch = issue[j].batch
          /\ issue'[j].pc # "idle" => issue[j].pc # "idle"
      BY <1>release, <2>1 DEF IssueRelease, IssuerTypeOK, IssueTask
  <2>. idem' \in [Key -> Entry]
      BY <1>release DEF IssueRelease, IssuerTypeOK, Entry, Free
  <2>2. IssuerTypeOK'
      BY <1>release DEF IssueRelease, IssuerTypeOK
  <2> QED BY <1>release, <2>2, StoreFrame, BrokerFrame DEF IssueRelease
<1>redeem. ASSUME NEW t \in Tokens, Redeem(t), UNCHANGED brokerVars
           PROVE  TypeOK'
  BY <1>redeem DEF Redeem, SpentInsert, StoreTypeOK, IssuerTypeOK, BrokerTypeOK, issuerVars,
     brokerVars
<1>grant. ASSUME NEW a \in Accounts, NEW n \in GrantAmounts, AdminGrant(a, n),
                 UNCHANGED brokerVars
          PROVE  TypeOK'
  <2>1. n \in Nat
      BY IssuerAssumption, StoreAssumption
  <2>2. Credit(ledger[a], n) \in LedgerRow
      BY <2>1, CreditType DEF StoreTypeOK
  <2>3. StoreTypeOK'
      BY <1>grant, <2>2 DEF AdminGrant, StoreTypeOK
  <2> QED BY <1>grant, <2>1, <2>3 DEF AdminGrant, IssuerTypeOK, BrokerTypeOK, brokerVars
<1>route. ASSUME NEW x \in ExecTasks, NEW t \in released, NEW h \in Hosts,
                 ExecRoute(x, t, h) \/ ExecNoHost(x, t, h), UNCHANGED issuerVars
          PROVE  TypeOK'
  <2>1. t \in Tokens
      BY DEF IssuerTypeOK
  <2>2. CASE ExecRoute(x, t, h)
      BY <1>route, <2>1, <2>2, StoreFrame, IssuerFrame
      DEF ExecRoute, BrokerTypeOK, ExecTask, ExecPc, ExecReply
  <2>3. CASE ExecNoHost(x, t, h)
      BY <1>route, <2>1, <2>3, StoreFrame, IssuerFrame
      DEF ExecNoHost, BrokerTypeOK, ExecTask, ExecPc, ExecReply
  <2> QED BY <1>route, <2>2, <2>3
<1>spend. ASSUME NEW x \in ExecTasks, ExecSpend(x), UNCHANGED issuerVars
          PROVE  TypeOK'
  <2>1. exec[x].tok \in Tokens /\ exec[x].host \in Hosts
      BY <1>spend DEF ExecSpend, BrokerTypeOK
  <2>2. StoreTypeOK'
      BY <1>spend, <2>1, NoteRedeemType DEF ExecSpend, StoreTypeOK
  <2> QED BY <1>spend, <2>2 DEF ExecSpend, IssuerTypeOK, BrokerTypeOK, ExecTask,
             ExecPc, ExecReply, issuerVars
<1>double. ASSUME NEW x \in ExecTasks, ExecDoubleSpend(x) \/ ExecRefused(x),
                  UNCHANGED issuerVars
           PROVE  TypeOK'
  <2>1. CASE ExecDoubleSpend(x)
      BY <1>double, <2>1, StoreFrame, IssuerFrame
      DEF ExecDoubleSpend, BrokerTypeOK, ExecTask, ExecPc, ExecReply
  <2>2. CASE ExecRefused(x)
      BY <1>double, <2>2, StoreFrame, IssuerFrame
      DEF ExecRefused, BrokerTypeOK, ExecTask, ExecPc, ExecReply
  <2> QED BY <1>double, <2>1, <2>2
<1>forward. ASSUME NEW x \in ExecTasks, NEW p \in BOOLEAN, NEW q \in BOOLEAN,
                   ExecForward(x, p, q), UNCHANGED issuerVars
            PROVE  TypeOK'
  <2>1. exec[x].tok \in Tokens /\ exec[x].host \in Hosts
      BY <1>forward DEF ExecForward, BrokerTypeOK
  <2>2. forwards' \in [Tokens -> [Hosts -> Nat]]
      BY <1>forward, <2>1 DEF ExecForward, BrokerTypeOK
  <2>3. exec' \in [ExecTasks -> ExecTask]
      <3>1. (IF q THEN "ok" ELSE "upstream") \in ExecPc
          BY DEF ExecPc, ExecReply
      <3> QED BY <1>forward, <3>1 DEF ExecForward, BrokerTypeOK, ExecTask
  <2>4. \A y \in ExecTasks : /\ exec'[y].tok = exec[y].tok /\ exec'[y].host = exec[y].host
                             /\ exec'[y].pc # "idle" => exec[y].pc # "idle"
      BY <1>forward DEF ExecForward, BrokerTypeOK, ExecTask
  <2> QED BY <1>forward, <2>2, <2>3, <2>4, StoreFrame, IssuerFrame
          DEF ExecForward, BrokerTypeOK
<1>receipt. ASSUME NEW h \in Hosts, NEW t \in Tokens, ReceiptIngest(h, t),
                   UNCHANGED issuerVars
            PROVE  TypeOK'
  <2>1. Credit(ledger[h], 1) \in LedgerRow
      BY CreditType, StoreAssumption DEF StoreTypeOK
  <2> QED BY <1>receipt, <2>1 DEF ReceiptIngest, StoreTypeOK, IssuerTypeOK,
             BrokerTypeOK, issuerVars, brokerVars
<1>trial. ASSUME NEW a \in Accounts, GrantTrial(a), UNCHANGED issuerVars
          PROVE  TypeOK'
  <2>1. trial_grant \in Nat
      BY BrokerAssumption, StoreAssumption
  <2>2. Credit(ledger[a], trial_grant) \in LedgerRow
      BY <2>1, CreditType DEF StoreTypeOK
  <2>. trial_budget[day] \in Nat /\ counters.trial_granted \in Nat
      BY StoreAssumption DEF StoreTypeOK, BrokerTypeOK, CounterRow, U64
  <2>3. SatAdd(trial_budget[day], trial_grant) \in U64
      BY <2>1, SatAddType
  <2>4. SatAdd(counters.trial_granted, trial_grant) \in U64
      BY <2>1, SatAddType
  <2>5. counters' \in CounterRow
      BY <1>trial, <2>4 DEF GrantTrial, StoreTypeOK, CounterRow
  <2> QED BY <1>trial, <2>2, <2>3, <2>5 DEF GrantTrial, StoreTypeOK, IssuerTypeOK,
             BrokerTypeOK, issuerVars, brokerVars
<1>day. ASSUME NEW d \in Days, NewDay(d), UNCHANGED issuerVars
        PROVE  TypeOK'
  BY <1>day DEF NewDay, StoreTypeOK, IssuerTypeOK, BrokerTypeOK, storeVars, issuerVars
<1>host. ASSUME NEW h \in Hosts, HostRegister(h) \/ HostAdmit(h), UNCHANGED issuerVars
         PROVE  TypeOK'
  BY <1>host DEF HostRegister, HostAdmit, HT!Register, HT!Admit, StoreTypeOK, HostStatus, IssuerTypeOK,
     BrokerTypeOK, issuerVars, brokerVars
<1>crash. ASSUME Crash PROVE TypeOK'
  <2>. idem' \in [Key -> Entry]
      BY <1>crash DEF Crash, IssuerCrash, Entry, Free
  <2>. issue' \in [IssueTasks -> IssueTask]
      <3>1. ASSUME NEW i \in IssueTasks PROVE [issue[i] EXCEPT !.pc = "lost"] \in IssueTask
          BY DEF IssuerTypeOK, IssueTask, IssuePc
      <3> QED BY <1>crash, <3>1 DEF Crash, IssuerCrash, IssuerTypeOK
  <2>. \A j \in IssueTasks :
          /\ issue'[j].acct = issue[j].acct /\ issue'[j].rid = issue[j].rid
          /\ issue'[j].batch = issue[j].batch
          /\ issue'[j].pc # "idle" => issue[j].pc # "idle"
      BY <1>crash DEF Crash, IssuerCrash, InFlight, IssueRunning, IssuerTypeOK, IssueTask
  <2>1. IssuerTypeOK'
      BY <1>crash DEF Crash, IssuerCrash, IssuerTypeOK
  <2>2. BrokerTypeOK'
      BY <1>crash DEF Crash, BrokerCrash, BrokerTypeOK, ExecTask, ExecPc, ExecReply
  <2> QED BY <1>crash, <2>1, <2>2, StoreFrame DEF Crash
<1>stutter. CASE UNCHANGED vars
  BY <1>stutter DEF vars, StoreTypeOK, IssuerTypeOK, BrokerTypeOK, storeVars,
     issuerVars, brokerVars
<1> QED
  BY <1>begin, <1>debit, <1>refuse, <1>bump, <1>bumpFault, <1>sign, <1>signFail,
     <1>refund, <1>dropped, <1>release, <1>redeem, <1>grant, <1>route, <1>spend,
     <1>double, <1>forward, <1>receipt, <1>trial, <1>day, <1>host, <1>crash, <1>stutter
  DEF Next, IssuerNext, IssueStep, BrokerNext, ExecStep

\* Type correctness of the origin.
THEOREM TypeCorrect == Spec => []TypeOK
BY InitType, NextType, PTL DEF Spec

-----------------------------------------------------------------------------
\* A row that balances.
Balanced(row) == row.earned < U64Max => row.balance + row.spent = row.earned

LEMMA CreditBalanced ==
    ASSUME NEW row \in LedgerRow, NEW n \in Nat, Balanced(row)
    PROVE  Balanced(Credit(row, n))
<1>1. /\ row.balance \in Nat /\ row.earned \in Nat /\ row.spent \in Nat
      /\ row.balance <= U64Max /\ row.earned <= U64Max /\ U64Max \in Nat
    BY StoreAssumption DEF LedgerRow, U64
<1>2. /\ Credit(row, n).balance = SatAdd(row.balance, n)
      /\ Credit(row, n).earned = SatAdd(row.earned, n)
      /\ Credit(row, n).spent = row.spent
    BY DEF Credit, LedgerRow
<1> QED BY <1>1, <1>2 DEF Balanced, SatAdd

LEMMA DebitBalanced ==
    ASSUME NEW row \in LedgerRow, NEW n \in Nat, Balanced(row), CanDebit(row, n)
    PROVE  Balanced(Debit(row, n))
<1>1. /\ row.balance \in Nat /\ row.earned \in Nat /\ row.spent \in Nat
      /\ row.earned <= U64Max /\ U64Max \in Nat
    BY StoreAssumption DEF LedgerRow, U64
<1>2. /\ Debit(row, n).balance = row.balance - n
      /\ Debit(row, n).earned = row.earned
      /\ Debit(row, n).spent = SatAdd(row.spent, n)
    BY DEF Debit, LedgerRow
<1> QED BY <1>1, <1>2 DEF Balanced, SatAdd, CanDebit

\* A step of the origin credits one account, debits one account that can pay, or
\* leaves the ledger alone.
LEMMA LedgerSteps ==
    ASSUME TypeOK, [Next]_vars
    PROVE  \/ UNCHANGED ledger
           \/ \E a \in Accounts, n \in Nat :
                 ledger' = [ledger EXCEPT ![a] = Credit(ledger[a], n)]
           \/ \E a \in Accounts, n \in Nat :
                 /\ CanDebit(ledger[a], n)
                 /\ ledger' = [ledger EXCEPT ![a] = Debit(ledger[a], n)]
<1> DEFINE Goal == \/ UNCHANGED ledger
                   \/ \E a \in Accounts, n \in Nat :
                         ledger' = [ledger EXCEPT ![a] = Credit(ledger[a], n)]
                   \/ \E a \in Accounts, n \in Nat :
                         /\ CanDebit(ledger[a], n)
                         /\ ledger' = [ledger EXCEPT ![a] = Debit(ledger[a], n)]
<1>1. ASSUME NEW i \in IssueTasks, IssueDebit(i) PROVE Goal
  <2>1. issue[i].acct \in Accounts /\ Amount(i) \in Nat
      BY <1>1, TaskFacts DEF IssueDebit
  <2> QED BY <1>1, <2>1 DEF IssueDebit
<1>2. ASSUME NEW i \in IssueTasks, IssueRefund(i) PROVE Goal
  <2>1. issue[i].acct \in Accounts /\ Amount(i) \in Nat
      BY <1>2, TaskFacts DEF IssueRefund
  <2> QED BY <1>2, <2>1 DEF IssueRefund
<1>3. ASSUME NEW a \in Accounts, NEW n \in GrantAmounts, AdminGrant(a, n) PROVE Goal
  <2>1. n \in Nat
      BY IssuerAssumption, StoreAssumption
  <2> QED BY <1>3, <2>1 DEF AdminGrant
<1>4. ASSUME NEW h \in Hosts, NEW t \in Tokens, ReceiptIngest(h, t) PROVE Goal
  <2>1. h \in Accounts
      BY StoreAssumption
  <2> QED BY <1>4, <2>1 DEF ReceiptIngest
<1>5. ASSUME NEW a \in Accounts, GrantTrial(a) PROVE Goal
  <2>1. trial_grant \in Nat
      BY BrokerAssumption, StoreAssumption
  <2> QED BY <1>5, <2>1 DEF GrantTrial
<1>6. ASSUME NEW i \in IssueTasks, IssueStep(i) PROVE Goal
  BY <1>1, <1>2, <1>6 DEF IssueStep, IssueDebitRefused, IssueBump, IssueBumpFault,
     IssueSign, IssueSignFail, IssueRefundDropped, IssueRelease, storeVars
<1>7. ASSUME NEW x \in ExecTasks, ExecStep(x) PROVE Goal
  BY <1>7 DEF ExecStep, ExecSpend, ExecDoubleSpend, ExecRefused, ExecForward, storeVars
<1>8. ASSUME IssuerNext PROVE Goal
  BY <1>3, <1>6, <1>8 DEF IssuerNext, IssueBegin, Redeem, SpentInsert, storeVars
<1>9. ASSUME BrokerNext(released) PROVE Goal
  BY <1>4, <1>5, <1>7, <1>9 DEF BrokerNext, ExecRoute, ExecNoHost, NewDay,
     HostRegister, HostAdmit, storeVars
<1> QED BY <1>8, <1>9 DEF Next, Crash, storeVars, vars

\* The ledger conserves credits, for any number of accounts, tasks and tokens,
\* any batches and grants, and wherever u64::MAX lies.
THEOREM CreditsAreConserved == Spec => []CreditsConserved
<1>1. Init => CreditsConserved
    BY DEF Init, StoreInit, CreditsConserved
<1>2. TypeOK /\ CreditsConserved /\ [Next]_vars => CreditsConserved'
  <2> SUFFICES ASSUME TypeOK, CreditsConserved, [Next]_vars,
                      NEW b \in Accounts
               PROVE  Balanced(ledger'[b])
      BY DEF CreditsConserved, Balanced
  <2>1. ledger \in [Accounts -> LedgerRow] /\ Balanced(ledger[b])
      BY DEF TypeOK, StoreTypeOK, CreditsConserved, Balanced
  <2>2. CASE UNCHANGED ledger
      BY <2>1, <2>2
  <2>3. ASSUME NEW a \in Accounts, NEW n \in Nat,
               ledger' = [ledger EXCEPT ![a] = Credit(ledger[a], n)]
        PROVE  Balanced(ledger'[b])
      BY <2>1, <2>3, CreditBalanced
  <2>4. ASSUME NEW a \in Accounts, NEW n \in Nat, CanDebit(ledger[a], n),
               ledger' = [ledger EXCEPT ![a] = Debit(ledger[a], n)]
        PROVE  Balanced(ledger'[b])
      BY <2>1, <2>4, DebitBalanced
  <2> QED BY <2>2, <2>3, <2>4, LedgerSteps
<1> QED BY <1>1, <1>2, TypeCorrect, PTL DEF Spec
=============================================================================
