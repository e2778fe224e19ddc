------------------------------- MODULE Store -------------------------------
(***************************************************************************)
(* The durable redb store of the co-located origin                         *)
(* (crates/lluma-broker/src/store.rs, ledger.rs, spent.rs, counters.rs).   *)
(*                                                                         *)
(* The issuer and the broker share one database.  Every operation on it is *)
(* one write transaction, redb runs writers one at a time, and a           *)
(* transaction that returns an error leaves no trace, so a transaction is  *)
(* one step of the model and a crash falls between transactions.  The      *)
(* operators below are the row updates those transactions make; the        *)
(* handlers that make them are the actions of Issuer and Broker.           *)
(***************************************************************************)
EXTENDS Integers, FiniteSets

CONSTANTS Accounts,   \* account ids (fingerprints of Ed25519 public keys)
          Hosts,      \* the accounts that are also inference hosts
          Tokens,     \* spend ids: one per blinded message, once unblinded
          None,       \* absence of a row
          U64Max,     \* u64::MAX, where the saturating additions stop
          Days,       \* day numbers, unix seconds / 86400
          Faulty      \* the transactions that may fail with a storage error

ASSUME StoreAssumption ==
    /\ Hosts \subseteq Accounts
    /\ IsFiniteSet(Accounts)
    /\ IsFiniteSet(Tokens)
    /\ None \notin Accounts
    /\ U64Max \in Nat \ {0}
    /\ Faulty \subseteq {"debit", "bump", "grant", "spend"}

VARIABLES
    ledger,        \* LEDGER: account -> [balance, earned, spent]
    spent_set,     \* SPENT: the burned spend ids
    spend_host,    \* SPEND_HOST: spend id -> the host it was forwarded to
    receipts,      \* RECEIPTS: spend id -> the host credited for it
    hosts,         \* HOSTS: host -> "absent", "pending" or "active"
    counters,      \* COUNTERS of the one token epoch in use
    trial_accts,   \* TRIAL_ACCTS: account -> day of its one trial grant
    trial_budget   \* TRIAL_BUDGET: day -> credits granted that day

storeVars == <<ledger, spent_set, spend_host, receipts, hosts, counters,
               trial_accts, trial_budget>>

U64 == 0..U64Max
LedgerRow == [balance : U64, earned : U64, spent : U64]
CounterRow == [issued : U64, redeemed : U64, trial_granted : U64]
HostStatus == {"absent", "pending", "active"}

StoreTypeOK ==
    /\ ledger \in [Accounts -> LedgerRow]
    /\ spent_set \in SUBSET Tokens
    /\ spend_host \in [Tokens -> Hosts \cup {None}]
    /\ receipts \in [Tokens -> Hosts \cup {None}]
    /\ hosts \in [Hosts -> HostStatus]
    /\ counters \in CounterRow
    /\ trial_accts \in [Accounts -> Days \cup {None}]
    /\ trial_budget \in [Days -> U64]

\* Store::open on a new file: every table exists and is empty; an absent ledger
\* or counter row reads as the default row.
StoreInit ==
    /\ ledger = [a \in Accounts |-> [balance |-> 0, earned |-> 0, spent |-> 0]]
    /\ spent_set = {}
    /\ spend_host = [t \in Tokens |-> None]
    /\ receipts = [t \in Tokens |-> None]
    /\ hosts = [h \in Hosts |-> "absent"]
    /\ counters = [issued |-> 0, redeemed |-> 0, trial_granted |-> 0]
    /\ trial_accts = [a \in Accounts |-> None]
    /\ trial_budget = [d \in Days |-> 0]

-----------------------------------------------------------------------------
\* u64::saturating_add
SatAdd(x, y) == IF x + y > U64Max THEN U64Max ELSE x + y

\* Mutant of Credit: plain addition, past u64::MAX.
CreditUnchecked(row, n) == [row EXCEPT !.balance = @ + n, !.earned = @ + n]

\* A credit: the row update of grant, of receipt crediting and of a trial.
Credit(row, n) ==
    [row EXCEPT !.balance = SatAdd(@, n), !.earned = SatAdd(@, n)]

\* Mutant of Debit: spent is not kept up.
DebitBalanceOnly(row, n) == [row EXCEPT !.balance = @ - n]

\* The row update of a debit that found enough credit.
Debit(row, n) == [row EXCEPT !.balance = @ - n, !.spent = SatAdd(@, n)]

CanDebit(row, n) == row.balance >= n

\* Mutant of BumpIssued: one per request rather than one per token.
BumpIssuedOnce(c, n) == [c EXCEPT !.issued = SatAdd(@, 1)]

\* bump_issued
BumpIssued(c, n) == [c EXCEPT !.issued = SatAdd(@, n)]

\* Mutant of NoteRedeem: the bumped row is not written back.
NoteRedeemUnsaved(c) == c

\* note_redeem_txn: the row it writes, and whether the tripwire stays quiet.
NoteRedeem(c) == [c EXCEPT !.redeemed = SatAdd(@, 1)]
RedeemOk(c) == NoteRedeem(c).redeemed <= c.issued

\* RedbSpentSet::insert of a token that is not there; one that is, or a storage
\* error, is refused.
SpentInsert(t) == t \notin spent_set /\ spent_set' = spent_set \cup {t}

\* The spends an exec has bound to a host.
Bound == {t \in Tokens : spend_host[t] # None}
=============================================================================
