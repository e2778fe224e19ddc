------------------------------- MODULE Issuer -------------------------------
(***************************************************************************)
(* The issuer's handlers (crates/lluma-issuer/src/service.rs) and its      *)
(* idempotency cache (idem.rs), over the shared store.                     *)
(*                                                                         *)
(* A task of IssueTasks is one POST /v1/issue running on a worker thread.  *)
(* Its steps are the places where it touches state other threads see: the  *)
(* cache's mutex (begin, store, release) and one store transaction each    *)
(* for the debit, the issued counter and the refund.  Requests enumerated  *)
(* here are those that pass steps 1-7 of the handler (parsing, signature,  *)
(* freshness, key pin, batch hash); one that does not is answered with no  *)
(* state changed.  Blind-signing a batch reads no shared state, so it is   *)
(* part of the step that stores the response, or of the one that fails.    *)
(***************************************************************************)
EXTENDS Store

CONSTANTS IssueTasks,     \* POST /v1/issue calls, concurrent and retried ones
          ReqIds,         \* the clients' 32-byte request ids
          Batches,        \* batches of blinded messages a request may carry
          GrantAmounts,   \* amounts an operator grants
          MaxGranted,     \* bound on the operator's grants to one account
          RedeemExposed   \* whether /v1/redeem can be reached

ASSUME IssuerAssumption ==
    /\ Batches \subseteq (SUBSET Tokens) \ {{}}
    /\ GrantAmounts \subseteq 0..U64Max
    /\ MaxGranted \in Nat
    /\ RedeemExposed \in BOOLEAN

VARIABLES
    idem,           \* IssueIdempotencyCache: (account, request id) -> entry
    issue,          \* the issue tasks
    incarnation,    \* how often the process has restarted
    \* history, read by the properties only
    charged,        \* tasks that were debited and not refunded
    released,       \* tokens whose signatures left the handler
    covered,        \* tokens of batches that the issued counter has counted
    granted,        \* credits the operator granted, per account
    refunded        \* credits refunded after a failed signing, per account

issuerVars == <<idem, issue, incarnation, charged, released, covered, granted,
                refunded>>

Key == Accounts \X ReqIds
Free == [st |-> "free", batch |-> {}]
Entry == [st : {"free", "pending", "done"}, batch : SUBSET Tokens]

\* Where a task stands; past the last step, what it answered.
IssueRunning == {"debit", "bump", "sign", "refund", "give_up", "give_back"}
IssueReply == {"issued", "replay", "conflict", "concurrent", "insufficient",
               "internal"}
IssuePc == {"idle", "lost"} \cup IssueRunning \cup IssueReply
IssueTask == [pc : IssuePc, acct : Accounts \cup {None},
              rid : ReqIds \cup {None}, batch : SUBSET Tokens,
              run : Nat]              \* the incarnation that began it

IssuerTypeOK ==
    /\ idem \in [Key -> Entry]
    /\ issue \in [IssueTasks -> IssueTask]
    /\ \A i \in IssueTasks : issue[i].pc # "idle" =>
          issue[i].acct \in Accounts /\ issue[i].rid \in ReqIds /\ issue[i].batch \in Batches
    /\ incarnation \in Nat
    /\ charged \in SUBSET IssueTasks
    /\ released \in SUBSET Tokens
    /\ covered \in SUBSET Tokens
    /\ granted \in [Accounts -> Nat]
    /\ refunded \in [Accounts -> Nat]

IssuerInit ==
    /\ idem = [k \in Key |-> Free]
    /\ issue = [i \in IssueTasks |->
                  [pc |-> "idle", acct |-> None, rid |-> None, batch |-> {},
                   run |-> 0]]
    /\ incarnation = 0
    /\ charged = {}
    /\ released = {}
    /\ covered = {}
    /\ granted = [a \in Accounts |-> 0]
    /\ refunded = [a \in Accounts |-> 0]

InFlight(i) == issue[i].pc \in IssueRunning
KeyOf(i) == <<issue[i].acct, issue[i].rid>>

\* What IssueIdempotencyCache::begin answers, as the task's next pc: a
\* reservation sends it on to the debit, all else ends it.
BeginOutcome(e, b) ==
    CASE e.st = "free"                        -> "debit"
      [] e.st = "pending" /\ e.batch = b      -> "concurrent"
      [] e.st = "done" /\ e.batch = b         -> "replay"
      [] e.st # "free" /\ e.batch # b         -> "conflict"

\* Mutant of BeginEntry: a plain lookup that reserves nothing.
BeginEntryLookup(e, b) == e

\* The entry begin leaves: a reservation in a free slot, else what was there.
BeginEntry(e, b) == IF e.st = "free" THEN [st |-> "pending", batch |-> b] ELSE e

\* Step 8: reserve the (account, request id) slot, in one critical section.
IssueBegin(i, a, r, b) ==
    /\ issue[i].pc = "idle"
    /\ idem' = [idem EXCEPT ![<<a, r>>] = BeginEntry(@, b)]
    /\ issue' = [issue EXCEPT ![i] =
           [pc |-> BeginOutcome(idem[<<a, r>>], b), acct |-> a, rid |-> r,
            batch |-> b, run |-> incarnation]]
    /\ UNCHANGED <<storeVars, incarnation, charged, released, covered, granted,
                   refunded>>

Amount(i) == Cardinality(issue[i].batch)

\* Step 9: RedbLedger::debit, the batch size in one transaction.
IssueDebit(i) ==
    /\ issue[i].pc = "debit"
    /\ CanDebit(ledger[issue[i].acct], Amount(i))
    /\ ledger' = [ledger EXCEPT ![issue[i].acct] = Debit(@, Amount(i))]
    /\ issue' = [issue EXCEPT ![i].pc = "bump"]
    /\ charged' = charged \cup {i}
    /\ UNCHANGED <<spent_set, spend_host, receipts, hosts, counters, trial_accts,
                   trial_budget, idem, incarnation, released, covered, granted,
                   refunded>>

\* Mutant of IssueDebitRefused: returns without releasing the reservation.
IssueDebitRefusedLeaks(i) ==
    /\ issue[i].pc = "debit"
    /\ \/ ~CanDebit(ledger[issue[i].acct], Amount(i))
       \/ "debit" \in Faulty
    /\ issue' = [issue EXCEPT ![i].pc = "insufficient"]
    /\ UNCHANGED <<storeVars, idem, incarnation, charged, released, covered, granted,
                   refunded>>

\* Too little credit, or a storage error: RedbLedger fails closed.
IssueDebitRefused(i) ==
    /\ issue[i].pc = "debit"
    /\ \/ ~CanDebit(ledger[issue[i].acct], Amount(i))
       \/ "debit" \in Faulty
    /\ issue' = [issue EXCEPT ![i].pc = "give_up"]
    /\ UNCHANGED <<storeVars, idem, incarnation, charged, released, covered, granted,
                   refunded>>

\* The issued_observer, called before any signature is made.
IssueBump(i) ==
    /\ issue[i].pc = "bump"
    /\ counters' = BumpIssued(counters, Amount(i))
    /\ covered' = covered \cup issue[i].batch
    /\ issue' = [issue EXCEPT ![i].pc = "sign"]
    /\ UNCHANGED <<ledger, spent_set, spend_host, receipts, hosts, trial_accts,
                   trial_budget, idem, incarnation, charged, released, granted,
                   refunded>>

\* The observer logs a storage error and the handler goes on to sign.
IssueBumpFault(i) ==
    /\ issue[i].pc = "bump"
    /\ "bump" \in Faulty
    /\ issue' = [issue EXCEPT ![i].pc = "sign"]
    /\ UNCHANGED <<storeVars, idem, incarnation, charged, released, covered, granted,
                   refunded>>

\* Steps 10-11: sign every blinded message, flip the reservation to Done, answer.
IssueSign(i) ==
    /\ issue[i].pc = "sign"
    /\ idem' = [idem EXCEPT ![KeyOf(i)] = [st |-> "done", batch |-> issue[i].batch]]
    /\ released' = released \cup issue[i].batch
    /\ issue' = [issue EXCEPT ![i].pc = "issued"]
    /\ UNCHANGED <<storeVars, incarnation, charged, covered, granted, refunded>>

\* Step 10: token_issue refused one of the blinded messages.
IssueSignFail(i) ==
    /\ issue[i].pc = "sign"
    /\ issue' = [issue EXCEPT ![i].pc = "refund"]
    /\ UNCHANGED <<storeVars, idem, incarnation, charged, released, covered, granted,
                   refunded>>

\* The refund is a grant: balance and earned go up, spent stays.
IssueRefund(i) ==
    /\ issue[i].pc = "refund"
    /\ ledger' = [ledger EXCEPT ![issue[i].acct] = Credit(@, Amount(i))]
    /\ refunded' = [refunded EXCEPT ![issue[i].acct] = @ + Amount(i)]
    /\ issue' = [issue EXCEPT ![i].pc = "give_back"]
    /\ charged' = charged \ {i}
    /\ UNCHANGED <<spent_set, spend_host, receipts, hosts, counters, trial_accts,
                   trial_budget, idem, incarnation, released, covered, granted>>

\* RedbLedger::grant drops a grant that meets a storage error.
IssueRefundDropped(i) ==
    /\ issue[i].pc = "refund"
    /\ "grant" \in Faulty
    /\ issue' = [issue EXCEPT ![i].pc = "give_back"]
    /\ UNCHANGED <<storeVars, idem, incarnation, charged, released, covered, granted,
                   refunded>>

\* idem.release on either failure path, then the error is returned.
IssueRelease(i) ==
    /\ issue[i].pc \in {"give_up", "give_back"}
    /\ idem' = [idem EXCEPT ![KeyOf(i)] = Free]
    /\ issue' = [issue EXCEPT ![i].pc =
                    IF @ = "give_up" THEN "insufficient" ELSE "internal"]
    /\ UNCHANGED <<storeVars, incarnation, charged, released, covered, granted,
                   refunded>>

IssueStep(i) ==
    \/ IssueDebit(i)
    \/ IssueDebitRefused(i)
    \/ IssueBump(i)
    \/ IssueBumpFault(i)
    \/ IssueSign(i)
    \/ IssueSignFail(i)
    \/ IssueRefund(i)
    \/ IssueRefundDropped(i)
    \/ IssueRelease(i)

\* POST /v1/redeem: burns a verified token in SPENT alone (RedbSpentSet).  A
\* token already spent is refused with nothing changed.
Redeem(t) ==
    /\ RedeemExposed
    /\ t \in released
    /\ SpentInsert(t)
    /\ UNCHANGED <<ledger, spend_host, receipts, hosts, counters, trial_accts,
                   trial_budget, issuerVars>>

\* POST /v1/admin/grant
AdminGrant(a, n) ==
    /\ granted[a] + n <= MaxGranted
    /\ ledger' = [ledger EXCEPT ![a] = Credit(@, n)]
    /\ granted' = [granted EXCEPT ![a] = @ + n]
    /\ UNCHANGED <<spent_set, spend_host, receipts, hosts, counters, trial_accts,
                   trial_budget, idem, issue, incarnation, charged, released,
                   covered, refunded>>

IssuerNext ==
    \/ \E i \in IssueTasks, a \in Accounts, r \in ReqIds, b \in Batches :
          IssueBegin(i, a, r, b)
    \/ \E i \in IssueTasks : IssueStep(i)
    \/ \E t \in Tokens : Redeem(t)
    \/ \E a \in Accounts, n \in GrantAmounts : AdminGrant(a, n)

\* The process dies: the cache is gone and running tasks answer nobody.
IssuerCrash ==
    /\ idem' = [k \in Key |-> Free]
    /\ issue' = [i \in IssueTasks |->
                    IF InFlight(i) THEN [issue[i] EXCEPT !.pc = "lost"] ELSE issue[i]]
    /\ incarnation' = incarnation + 1
    /\ UNCHANGED <<charged, released, covered, granted, refunded>>
=============================================================================
