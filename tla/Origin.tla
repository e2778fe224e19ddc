------------------------------- MODULE Origin -------------------------------
(***************************************************************************)
(* The co-located origin (crates/lluma-broker/src/main.rs): the issuer and *)
(* the broker in one process over one store.  Their handlers interleave at *)
(* every step, and the process may die between any two of them and start   *)
(* again on the same database.                                             *)
(***************************************************************************)
EXTENDS Issuer, Broker, Functions

CONSTANT MaxCrashes   \* bound on the restarts

ASSUME OriginAssumption == MaxCrashes \in Nat

vars == <<storeVars, issuerVars, brokerVars>>

TypeOK == StoreTypeOK /\ IssuerTypeOK /\ BrokerTypeOK

Init == StoreInit /\ IssuerInit /\ BrokerInit

\* Mutant of Crash: the spent set lived in memory.
CrashForgetsSpends ==
    /\ incarnation < MaxCrashes
    /\ IssuerCrash
    /\ BrokerCrash
    /\ spent_set' = {}
    /\ UNCHANGED <<ledger, spend_host, receipts, hosts, counters, trial_accts,
                   trial_budget>>

\* The database survives, everything in memory does not.
Crash ==
    /\ incarnation < MaxCrashes
    /\ IssuerCrash
    /\ BrokerCrash
    /\ UNCHANGED storeVars

Next ==
    \/ IssuerNext /\ UNCHANGED brokerVars
    \/ BrokerNext(released) /\ UNCHANGED issuerVars
    \/ Crash

Spec == Init /\ [][Next]_vars

\* A worker thread that runs a handler is scheduled until it returns.
Fairness ==
    /\ \A i \in IssueTasks : WF_vars(IssueStep(i) /\ UNCHANGED brokerVars)
    /\ \A x \in ExecTasks : WF_vars(ExecStep(x) /\ UNCHANGED issuerVars)

FairSpec == Spec /\ Fairness

-----------------------------------------------------------------------------
\* The ledger conserves credits: what an account was given is what it holds plus
\* what it was debited, through every interleaving of debits, refunds, receipt
\* credits, trials and crashes, until a saturating addition stops at u64::MAX
\* (RedbLedger::grant and debit, receipts::ingest, grant_trial).
CreditsConserved ==
    \A a \in Accounts :
        ledger[a].earned < U64Max =>
            ledger[a].balance + ledger[a].spent = ledger[a].earned

\* Every credit an account ever got has one cause: an operator grant, a refund,
\* its one trial, or one recorded receipt of its own (the four writers of
\* LedgerRow.earned).
EarnedAccounted ==
    \A a \in Accounts :
        ledger[a].earned < U64Max =>
            ledger[a].earned = granted[a] + refunded[a]
                + (IF trial_accts[a] = None THEN 0 ELSE trial_grant)
                + Cardinality({t \in Tokens : receipts[t] = a})

\* A Pending entry of the idempotency cache belongs to exactly one running task,
\* with that task's batch; so no failure path leaks a reservation and none frees
\* another task's (IssueIdempotencyCache begin, store and release as issue uses
\* them).
ReservationOwned ==
    /\ \A k \in Key : idem[k].st = "pending" =>
          \E i \in IssueTasks : InFlight(i) /\ KeyOf(i) = k
    /\ \A i \in IssueTasks : InFlight(i) =>
          idem[KeyOf(i)] = [st |-> "pending", batch |-> issue[i].batch]
    /\ \A i, j \in IssueTasks :
          InFlight(i) /\ InFlight(j) /\ KeyOf(i) = KeyOf(j) => i = j

\* A task that ended in an error, or is about to, with its account still debited:
\* RedbLedger::grant met a storage error and dropped its refund.
RefundLost(i) == i \in charged /\ issue[i].pc \in {"give_back", "internal"}

\* Between two restarts one request id debits an account at most once, however
\* often the request is repeated and however the repeats interleave, where the
\* ledger's grants do not fail.  Where one may, a lost refund is the one thing
\* that lets a repeat be debited again: the request failed, its slot was freed,
\* and the credits of the failed one are gone (issue, steps 8 to 10).
DebitedOnce ==
    \A i, j \in charged :
        /\ issue[i].run = issue[j].run
        /\ KeyOf(i) = KeyOf(j)
        /\ i # j
        => "grant" \in Faulty /\ (RefundLost(i) \/ RefundLost(j))

\* The promise of idem.rs without its limit to one process lifetime: once a
\* request's signatures were issued, repeating it is never debited again.
ReplayNeverRedebits ==
    \A i, j \in IssueTasks :
        /\ issue[i].pc = "issued" /\ j \in charged
        /\ KeyOf(i) = KeyOf(j) /\ issue[i].batch = issue[j].batch
        => i = j

\* The tripwire never refuses a token that was issued and not yet spent
\* (note_redeem_txn against bump_issued; issue's "a false redeemed > issued trip
\* cannot occur").
NoFalseTrip == released \subseteq spent_set \/ RedeemOk(counters)

\* A burned token reached at most one host, once, and the host SPEND_HOST binds
\* it to, whatever retries, races and crashes happen around the spend (exec).
ForwardedOnce ==
    \A t \in Tokens, h \in Hosts :
        forwards[t][h] <= IF spend_host[t] = h THEN 1 ELSE 0

\* The redeem counter, the bindings and the spent set agree: every binding is a
\* burned, once issued token and is counted once, and without the legacy redeem
\* endpoint nothing else is burned (exec's three-table transaction).
RedeemedCounted ==
    /\ Bound \subseteq spent_set
    /\ spent_set \subseteq released
    /\ counters.redeemed < U64Max => counters.redeemed = Cardinality(Bound)
    /\ ~RedeemExposed => Bound = spent_set

\* A receipt is credited only to the registered host its spend was bound to
\* (receipts::ingest).
ReceiptsMatchSpends ==
    \A t \in Tokens : receipts[t] # None =>
        /\ t \in Bound
        /\ receipts[t] = spend_host[t]
        /\ hosts[receipts[t]] # "absent"

\* The trial tables agree: a day's budget is the grants dated that day and never
\* more than the configured budget, and the counter is the sum (grant_trial).
TrialAccounted ==
    /\ \A d \in Days :
          /\ trial_budget[d] <= daily_trial_budget
          /\ trial_budget[d] < U64Max =>
                trial_budget[d] =
                    trial_grant * Cardinality({a \in Accounts : trial_accts[a] = d})
    /\ counters.trial_granted < U64Max =>
          counters.trial_granted =
              trial_grant * Cardinality({a \in Accounts : trial_accts[a] # None})

Receipted == {t \in Tokens : receipts[t] # None}
Balances == [a \in Accounts |-> ledger[a].balance]

\* Value is never minted: the balances and the tokens still worth a host credit
\* are backed by what the operator granted and what trials gave.  It ties the
\* ledger's debits and refunds to the signatures released and to the receipts
\* credited, through every race, storage error and crash (issue, exec, ingest).
ValueBacked ==
    SumFunctionOnSet(Balances, Accounts) + Cardinality(released \ Receipted)
    <= SumFunctionOnSet(granted, Accounts)
        + trial_grant * Cardinality({a \in Accounts : trial_accts[a] # None})

\* No step, a crash included, forgets a spend, a binding, a credited receipt or
\* a trial, or turns a counter back.
NothingForgotten ==
    [][/\ spent_set \subseteq spent_set'
       /\ \A t \in Tokens : /\ spend_host[t] # None => spend_host'[t] = spend_host[t]
                            /\ receipts[t] # None => receipts'[t] = receipts[t]
       /\ \A a \in Accounts : trial_accts[a] # None => trial_accts'[a] = trial_accts[a]
       /\ counters.issued <= counters'.issued
       /\ counters.redeemed <= counters'.redeemed]_vars

\* A reservation does not outlive its request: it turns into a stored response
\* or is freed, so a retry is never poisoned (idem.rs, release).
ReservationsEnd ==
    \A k \in Key : idem[k].st = "pending" ~> idem[k].st # "pending"

-----------------------------------------------------------------------------
\* What NoFalseTrip rests on: signatures are released only for batches the
\* counter has counted, ...
IssuedCovered ==
    /\ released \subseteq covered
    /\ \A i \in IssueTasks : issue[i].pc = "sign" => issue[i].batch \subseteq covered
    /\ counters.issued < U64Max => Cardinality(covered) <= counters.issued

\* ... and only issued tokens are spent, each counted once.
SpentCounted ==
    /\ Bound \subseteq spent_set
    /\ spent_set \subseteq released
    /\ \A x \in ExecTasks : exec[x].pc = "spend" => exec[x].tok \in released
    /\ counters.redeemed <= Cardinality(Bound)

TripInv == IssuedCovered /\ SpentCounted

\* What ForwardedOnce rests on: a task about to forward is the only one for its
\* token, the token is bound to its host, and no host has had it yet.
ForwardInv ==
    /\ Bound \subseteq spent_set
    /\ \A t \in Tokens \ Bound, h \in Hosts : forwards[t][h] = 0
    /\ \A x \in ExecTasks : exec[x].pc = "forward" =>
          /\ spend_host[exec[x].tok] = exec[x].host
          /\ \A h \in Hosts : forwards[exec[x].tok][h] = 0
    /\ \A x, y \in ExecTasks :
          /\ exec[x].pc = "forward" /\ exec[y].pc = "forward"
          /\ exec[x].tok = exec[y].tok
          => x = y
    /\ ForwardedOnce

\* What ValueBacked rests on: a debit that was neither signed for nor refunded yet
\* still counts.
Owed ==
    [i \in IssueTasks |-> IF issue[i].pc \in {"bump", "sign", "refund"} THEN Amount(i) ELSE 0]

BackedInv ==
    SumFunctionOnSet(Balances, Accounts) + SumFunctionOnSet(Owed, IssueTasks)
        + Cardinality(released \ Receipted)
    <= SumFunctionOnSet(granted, Accounts)
        + trial_grant * Cardinality({a \in Accounts : trial_accts[a] # None})
=============================================================================
