------------------------------- MODULE Broker -------------------------------
(***************************************************************************)
(* The broker's handlers over the shared store: redeem-and-forward         *)
(* (crates/lluma-broker/src/service.rs, exec), receipt crediting           *)
(* (receipts.rs), the anti-Sybil trial (trial.rs), and as much of the host *)
(* registry (registry.rs) as these read: whether a host is registered and  *)
(* active.                                                                 *)
(*                                                                         *)
(* A task of ExecTasks is one POST /v1/exec.  It resolves the host, spends *)
(* the token in one transaction, and forwards; other tasks, a registration *)
(* or a crash may come between any two of these.  Whether the resolved     *)
(* host has a reverse-tunnel slot free, and what becomes of the forwarded  *)
(* job, is left open here.                                                 *)
(***************************************************************************)
EXTENDS Store

CONSTANTS ExecTasks,         \* POST /v1/exec calls, concurrent and retried ones
          trial_grant,       \* cfg.trial_grant
          daily_trial_budget \* cfg.daily_trial_budget

ASSUME BrokerAssumption ==
    /\ trial_grant \in 1..U64Max
    /\ daily_trial_budget \in 0..U64Max
    /\ Days # {}
    /\ None \notin Days

VARIABLES
    exec,       \* the exec tasks
    day,        \* the wall clock's day
    forwards    \* history: how often each spend was forwarded to each host

brokerVars == <<exec, day, forwards>>

\* Where a task stands; past the last step, what it answered.
ExecReply == {"ok", "no_host", "double_spend", "refused", "upstream"}
ExecPc == {"idle", "spend", "forward", "lost"} \cup ExecReply
ExecTask == [pc : ExecPc, tok : Tokens \cup {None}, host : Hosts \cup {None}]

BrokerTypeOK ==
    /\ exec \in [ExecTasks -> ExecTask]
    /\ \A x \in ExecTasks : exec[x].pc # "idle" =>
          exec[x].tok \in Tokens /\ exec[x].host \in Hosts
    /\ day \in Days
    /\ forwards \in [Tokens -> [Hosts -> Nat]]

BrokerInit ==
    /\ exec = [x \in ExecTasks |->
                 [pc |-> "idle", tok |-> None, host |-> None]]
    /\ day \in Days
    /\ forwards = [t \in Tokens |-> [h \in Hosts |-> 0]]

\* resolve_active_host found the client's host ACTIVE and a route to it, a
\* tunnel slot or its public address.  Nothing is spent yet.
ExecRoute(x, t, h) ==
    /\ exec[x].pc = "idle"
    /\ hosts[h] = "active"
    /\ exec' = [exec EXCEPT ![x] = [pc |-> "spend", tok |-> t, host |-> h]]
    /\ UNCHANGED <<storeVars, day, forwards>>

\* The host is not active, or has no live socket or no free slot.
ExecNoHost(x, t, h) ==
    /\ exec[x].pc = "idle"
    /\ exec' = [exec EXCEPT ![x] = [pc |-> "no_host", tok |-> t, host |-> h]]
    /\ UNCHANGED <<storeVars, day, forwards>>

\* Mutant of ExecSpend: the SPENT lookup is missing.
ExecSpendUnchecked(x) ==
    /\ exec[x].pc = "spend"
    /\ RedeemOk(counters)
    /\ spent_set' = spent_set \cup {exec[x].tok}
    /\ spend_host' = [spend_host EXCEPT ![exec[x].tok] = exec[x].host]
    /\ counters' = NoteRedeem(counters)
    /\ exec' = [exec EXCEPT ![x].pc = "forward"]
    /\ UNCHANGED <<ledger, receipts, hosts, trial_accts, trial_budget, day, forwards>>

\* The spend transaction: SPENT, SPEND_HOST and the redeemed counter together.
ExecSpend(x) ==
    /\ exec[x].pc = "spend"
    /\ exec[x].tok \notin spent_set
    /\ RedeemOk(counters)
    /\ spent_set' = spent_set \cup {exec[x].tok}
    /\ spend_host' = [spend_host EXCEPT ![exec[x].tok] = exec[x].host]
    /\ counters' = NoteRedeem(counters)
    /\ exec' = [exec EXCEPT ![x].pc = "forward"]
    /\ UNCHANGED <<ledger, receipts, hosts, trial_accts, trial_budget, day, forwards>>

ExecDoubleSpend(x) ==
    /\ exec[x].pc = "spend"
    /\ exec[x].tok \in spent_set
    /\ exec' = [exec EXCEPT ![x].pc = "double_spend"]
    /\ UNCHANGED <<storeVars, day, forwards>>

\* The tripwire fired, or storage failed: the transaction is rolled back.
ExecRefused(x) ==
    /\ exec[x].pc = "spend"
    /\ exec[x].tok \notin spent_set
    /\ ~RedeemOk(counters) \/ "spend" \in Faulty
    /\ exec' = [exec EXCEPT ![x].pc = "refused"]
    /\ UNCHANGED <<storeVars, day, forwards>>

\* Forward {spend_id, sealed} once.  The host may or may not get it, and its
\* answer may or may not come back.
ExecForward(x, delivered, answered) ==
    /\ exec[x].pc = "forward"
    /\ answered => delivered
    /\ forwards' = [forwards EXCEPT ![exec[x].tok][exec[x].host] =
                       IF delivered THEN @ + 1 ELSE @]
    /\ exec' = [exec EXCEPT ![x].pc = IF answered THEN "ok" ELSE "upstream"]
    /\ UNCHANGED <<storeVars, day>>

ExecStep(x) ==
    \/ ExecSpend(x)
    \/ ExecDoubleSpend(x)
    \/ ExecRefused(x)
    \/ \E delivered, answered \in BOOLEAN : ExecForward(x, delivered, answered)

-----------------------------------------------------------------------------
\* Mutant of ReceiptAccepted: a second receipt for the spend is accepted.
ReceiptAcceptedAgain(h, t) ==
    hosts[h] # "absent" /\ t \in spent_set /\ spend_host[t] = h

\* Mutant of ReceiptAccepted: the spend may be bound to another host.
ReceiptAcceptedAnyHost(h, t) ==
    hosts[h] # "absent" /\ t \in spent_set /\ receipts[t] = None

\* receipts::ingest accepted the receipt; every other outcome changes nothing.
ReceiptAccepted(h, t) ==
    /\ hosts[h] # "absent"
    /\ t \in spent_set
    /\ spend_host[t] = h
    /\ receipts[t] = None

\* Record the receipt and credit the host exactly 1, in one transaction.
ReceiptIngest(h, t) ==
    /\ ReceiptAccepted(h, t)
    /\ receipts' = [receipts EXCEPT ![t] = h]
    /\ ledger' = [ledger EXCEPT ![h] = Credit(@, 1)]
    /\ UNCHANGED <<spent_set, spend_host, hosts, counters, trial_accts,
                   trial_budget, brokerVars>>

\* Mutant of GrantTrial: the one-trial guard is missing.
GrantTrialAgain(a) ==
    /\ SatAdd(trial_budget[day], trial_grant) <= daily_trial_budget
    /\ trial_accts' = [trial_accts EXCEPT ![a] = day]
    /\ trial_budget' = [trial_budget EXCEPT ![day] = SatAdd(@, trial_grant)]
    /\ ledger' = [ledger EXCEPT ![a] = Credit(@, trial_grant)]
    /\ counters' = [counters EXCEPT !.trial_granted = SatAdd(@, trial_grant)]
    /\ UNCHANGED <<spent_set, spend_host, receipts, hosts, brokerVars>>

\* Mutant of GrantTrial: the day's budget is read but not written.
GrantTrialUnbudgeted(a) ==
    /\ trial_accts[a] = None
    /\ SatAdd(trial_budget[day], trial_grant) <= daily_trial_budget
    /\ trial_accts' = [trial_accts EXCEPT ![a] = day]
    /\ ledger' = [ledger EXCEPT ![a] = Credit(@, trial_grant)]
    /\ counters' = [counters EXCEPT !.trial_granted = SatAdd(@, trial_grant)]
    /\ UNCHANGED <<spent_set, spend_host, receipts, hosts, trial_budget, brokerVars>>

\* grant_trial, when it grants: four tables in one transaction.
GrantTrial(a) ==
    /\ trial_accts[a] = None
    /\ SatAdd(trial_budget[day], trial_grant) <= daily_trial_budget
    /\ trial_accts' = [trial_accts EXCEPT ![a] = day]
    /\ trial_budget' = [trial_budget EXCEPT ![day] = SatAdd(@, trial_grant)]
    /\ ledger' = [ledger EXCEPT ![a] = Credit(@, trial_grant)]
    /\ counters' = [counters EXCEPT !.trial_granted = SatAdd(@, trial_grant)]
    /\ UNCHANGED <<spent_set, spend_host, receipts, hosts, brokerVars>>

\* The wall clock moves to another day; an operator may also set it back.
NewDay(d) ==
    /\ d # day
    /\ day' = d
    /\ UNCHANGED <<storeVars, exec, forwards>>

\* The registry, as Registry implements it; nothing calls evict_stale.
HT == INSTANCE HostTable

HostRegister(h) ==
    /\ HT!Register(h)
    /\ UNCHANGED <<ledger, spent_set, spend_host, receipts, counters,
                   trial_accts, trial_budget, brokerVars>>

HostAdmit(h) ==
    /\ HT!Admit(h)
    /\ UNCHANGED <<ledger, spent_set, spend_host, receipts, counters,
                   trial_accts, trial_budget, brokerVars>>

\* valid: the tokens that verify under the issuer's key.
BrokerNext(valid) ==
    \/ \E x \in ExecTasks, t \in valid, h \in Hosts :
          ExecRoute(x, t, h) \/ ExecNoHost(x, t, h)
    \/ \E x \in ExecTasks : ExecStep(x)
    \/ \E h \in Hosts, t \in Tokens : ReceiptIngest(h, t)
    \/ \E a \in Accounts : GrantTrial(a)
    \/ \E d \in Days : NewDay(d)
    \/ \E h \in Hosts : HostRegister(h) \/ HostAdmit(h)

\* The process dies: running exec tasks are gone, burned tokens stay burned.
BrokerCrash ==
    /\ exec' = [x \in ExecTasks |->
                  IF exec[x].pc \in {"spend", "forward"}
                  THEN [exec[x] EXCEPT !.pc = "lost"] ELSE exec[x]]
    /\ UNCHANGED <<day, forwards>>
=============================================================================
