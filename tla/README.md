# A TLA+ model of lluma

lluma is a marketplace for anonymous inference: a client buys blind-signed
tokens, spends one per request through a relay and a gateway that hide who it
is, a broker burns the token and forwards the sealed request to a host, and the
host is credited when it submits a receipt. This directory models the state and
the concurrency of that system, checks it with TLC and proves the central
properties with TLAPS.

Paths below are relative to the repository root.

## 1. Inventory

| Component | Source | State | Operations | Modelled in |
|---|---|---|---|---|
| Durable store | `crates/lluma-broker/src/{store,ledger,spent,counters}.rs` | eight redb tables | row updates, one write transaction each | `Store` |
| Issuer service | `crates/lluma-issuer/src/{service,idem}.rs` | idempotency cache in memory, ledger and spent set in the store | issue, redeem, admin_grant | `Issuer` |
| Broker handlers | `crates/lluma-broker/src/{service,receipts,trial}.rs` | tables of the store | exec, receipt ingest, trial | `Broker`, and `Path` for what exec answers |
| Origin process | `crates/lluma-broker/src/{main,config}.rs` | issuer and broker over one store | start, crash | `Origin` |
| Host registry | `crates/lluma-broker/src/registry.rs` | HOSTS rows | register, heartbeat, evict_stale | `Registry`, `HostTable` |
| Host admission loop | `crates/lluma-host/src/{main,register}.rs`, desktop `host.rs` | consecutive failures, next heartbeat | start, beat, re-register, stop | `Registry` |
| Reverse tunnel, broker side | `crates/lluma-broker/src/tunnel.rs` | directory, and per socket: pending map, job queue, in-flight counter | connect, replace, serve, tear down, reserve, dispatch, deliver | `Tunnel` |
| Reverse tunnel, host side | `crates/lluma-host/src/tunnel.rs` | the connection it is on, the jobs it works on | serve_once, run | `Tunnel` |
| Host serving | `crates/lluma-host/src/{lib,openai}.rs` | an HPKE key | unseal, infer, seal | `Path` |
| Signed snapshot | `crates/lluma-broker/src/snapshot.rs` | none, a read of the store | build, sign | `Path` |
| Client library, network agent | `crates/lluma-client`, `crates/lluma-net` | what was learned from bootstrap, key config and snapshot | fetch_bootstrap, key_config, snapshot, exec_with_host | `Path`, `Envelope` |
| Relay | `crates/lluma-relay` | token buckets per address, a mirrored bootstrap | allow, forward | `Relay` |
| Gateway | `crates/lluma-gateway` | its OHTTP key | allow-list, OHTTP round trip | `Gateway` |
| Desktop app, connection | `apps/lluma-desktop/src-tauri/src/{lib,settings,types,anchor}.rs` | settings in memory and on disk, verified parameters, one mutex | set_settings, auto_connect, grant_ollama_consent | `AppState` |
| Desktop app, account | `.../{account,client}.rs` | keystore and token file, account, passphrase and tokens in memory | create, import, unlock, lock, acquire, send_message | `Wallet` |
| Desktop app, hosting | `.../{host,ollama}.rs` | start latch, host handle, managed Ollama child, host key files | host_start, host_stop, exit | `Hosting`, `Desktop` |
| Cryptography | `crates/lluma-crypto` | none | seal, open, sign, verify | `Envelope`, symbolically and in part |
| Standalone issuer, wire types, several bootstrap sources, catalog, runtime, keygen, web front end | | | | not modelled, see section 7 |

How they meet. The issuer and the broker run in one process (`main.rs`) and share
one database; every operation on it is one write transaction, and redb runs
writers one at a time. Handlers run on a thread pool and interleave between
transactions. The registry decides which hosts an exec may be routed to; a host
behind a NAT is reached through the tunnel, whose sockets are shared by all
execs. The issuer's `issued_observer` (`main.rs`) bumps the counter that the
broker's redeem tripwire reads. A client reaches the origin only through relay
and gateway, in capsules that the gateway alone can open, and the host it chose
only through the broker, in a seal that this host alone can open. The desktop app
is a client and may be a host; its commands run concurrently over one mutex and a
handful of files.

What is hard here, and where a unit test would hardly get to:

* **interleavings**: copies of one issuance request; execs with the same token;
  execs racing for a tunnel slot; a replaced connection tearing down after its
  replacement registered; desktop commands that write a file before they take the
  mutex, or read memory, wait for minutes and write it back;
* **crashes** between a debit and its response, between a spend and its forward, in
  the middle of writing the token file; the idempotency cache is in memory while the
  debit is durable; a gateway may come back with another key;
* **partial failure**: a storage error in the counter bump, in the debit, in the
  refund, in the spend; every exit of an exec must free its slot, every exit of
  `host_start` its latch and its child;
* **unreliable delivery**: heartbeats late, twice, out of order; repeated receipts;
  repeated capsules and misdelivered answers; a host that answers after it has
  dialed again;
* **timeouts**: answers that arrive after their request was given up, and a token
  tried again while its first attempt is still under way;
* **limits**: u64 saturation, the trial budget, the socket cap, the job queue, the
  relay's bucket table;
* **liveness**: reservations that must be released, dispatches that must end,
  hosts that must be demoted when they vanish, calls that only the gateway's timeout
  ends.

`PROJECT.json` lists these hazards one by one with the line where each bites.

What correctness means, per component:

* *store and ledger*: credits are conserved and every credit has one cause
  (`CreditsConserved`, `EarnedAccounted`);
* *issuer*: one debit per request between restarts unless a refund was dropped by
  the storage, and no leaked reservation (`DebitedOnce`, `ReservationOwned`,
  `ReservationsEnd`);
* *broker*: a token reaches one host once and is credited once, to that host;
  what hosts earn was paid for; the tripwire is quiet unless something is wrong
  (`ForwardedOnce`, `ReceiptsMatchSpends`, `RedeemedCounted`, `ValueBacked`,
  `NoFalseTrip`); a trial per account within the daily budget (`TrialAccounted`);
* *origin*: a crash forgets nothing that was promised (`NothingForgotten`);
* *registry*: admission takes the configured time and is not shortened by
  replay (`SlowAdmission`, `AcceptedInOrder`); only a sweep demotes, and only stale
  hosts (`Lifecycle`); a host that is gone is demoted (`StaleDemoted`, which does not
  hold);
* *tunnel*: slots are exact, answers reach the task that asked, the directory is
  current, dispatches end (`SlotsExact`, `Correlated`, `PendingOwned`,
  `DirectoryCurrent`, `DispatchEnds`);
* *the path of a request*: a token buys one run of an upstream, a call is told about
  its own request or nothing, the origin sees the path that was checked, the gateway
  can end every wait by itself, and an address gets its allowance (`ServedOnce`,
  `AnswerIsOwn`, `SentAsChecked`, `GatewayCanAnswer`, `Allowance`);
* *desktop app*: tokens are not lost or kept once spent, memory and disk agree, the
  account shown is the one the keystore restores, trust belongs to the relay in use
  (`TokensKept`, `SpentForgotten`, `StoreAgrees`, `SettingsOnDisk`,
  `AccountRestorable`, `TrustFollowsRelay`, which does not hold, and
  `TrustMatchesRelay`, which does); one start at a time, and no Ollama
  without an owner (`LatchSuffices`, `ChildOwned`, `ExitAtRestReaps`).

## 2. Modules

```
Store <- Issuer  \
                  Origin <- MCOrigin, OriginProofs <- SpendProofs <- AccountProofs
Store <- Broker  /
HostTable <- Broker (INSTANCE), Registry (INSTANCE) <- MCRegistry, RegistryProofs
Tunnel <- MCTunnel, TunnelProofs
AppState <- Wallet <- Hosting <- Desktop <- MCDesktop, DesktopProofs <- WalletProofs
Envelope, Relay, Gateway <- Path <- MCPath, PathProofs
```

**Store** holds the tables as variables and the row updates the transactions
make: `Credit` and `Debit` on ledger rows with the saturating additions,
`BumpIssued`, `NoteRedeem` and its tripwire `RedeemOk`, `SpentInsert`. An absent row
reads as the default row, as in the code. There is one token epoch. `Faulty` names
the transactions that may fail with a storage error.

**Issuer** runs each `POST /v1/issue` as a task whose steps are the points where
it touches shared state: the cache's critical section (`IssueBegin`), the debit,
the counter bump, signing with the flip of the reservation to Done, and on the
failure paths the refund and the release. The history variables `charged`,
`released`, `covered`, `granted`, `refunded` are read by properties only.
`Redeem` is the legacy endpoint that burns a token without binding it; whether it
can be reached is the constant `RedeemExposed`.

**Broker** runs each `/v1/exec` as a task: route to an active host, the spend
transaction over SPENT, SPEND_HOST and COUNTERS, then one forward whose delivery
and answer may each be lost. Receipts and trials are one transaction each. The
host table moves as `HostTable` says.

**Origin** composes the two: a step of one leaves the other's memory alone, and
`Crash` ends all tasks and empties the cache while the store stays.

**HostTable** is the abstract specification of the registry that Broker is built
on: a host appears as pending, may become active, and is neither removed nor demoted.
`Demote` stands beside it: a step that demotes exactly the hosts it is given.
Registry implements the table exactly as long as nothing calls `evict_stale`, as
deployed; `Lifecycle` allows besides the table's steps a step of the sweep that
demotes the ACTIVE hosts that are stale, and nothing else.

**Registry** is the detailed one: rows with counter, last heartbeat and admission
progress, a network that keeps every signed heartbeat for ever (so it is
delivered late, repeatedly, out of order or not at all), the host's loop with its
re-registration after three failures, restarts, and the clock. `Desktops` are the
hosts run by the desktop app, which registers again under the same identity; a
daemon has a new identity at each start. `SweepScheduled` says whether anything
calls `evict_stale`; as deployed nothing does. `base` and `since` are history:
when the current admission count began, and after how many heartbeats.

**Tunnel** has one task per connection (`handle_socket`), its writer task, the
execs, and the host at the other end. Each access to the directory, the pending map,
the queue or the in-flight counter is a step; the reservation is a load and a
compare-and-swap. A host is on one connection at a time (`session`); it leaves on
silence, close or error, with some of its jobs answered, and dials again. A job is
answered at most once, in any order, through the connection it came by
(`AnswersOn`). A link is up, silent (nothing arrives) or stalled (the peer does not
read, so writes block).

**AppState** has the desktop app's settings, trusted parameters and mutex. A command
is a task with a program counter; one that takes the mutex, changes memory and
returns without waiting is one step. `set_settings` writes its file before it takes
the mutex, and `auto_connect` waits for the network between reading the relay and
storing what it verified: `crossed` and `raced` record that another command came in
between, the only circumstances in which disk and memory, or trust and relay, come
apart. The second is one that a comment of the code says cannot be (`relay` below).

**Wallet** adds account and tokens. Keystore and token file are sealed under a
passphrase and written in place; a file that does not open loads as empty. A chat
or an acquire keeps the mutex until it has saved. The origin is reduced to what its
answers tell: an attempt is answered, refused with 409 (for a spent token, or for a
spend it rolled back), or fails with the token burned, not burned, or burned later
(`LateSpend`). `mishaps` records which of the four things that can lose a token have
happened.

**Hosting** adds `host_start`: the latch, what it reads under the mutex, then minutes
without it for detection, installation, the managed Ollama, the model, the keys and
the registration, each of which may fail, and the mutex again to store the handle.
The machine has one port for Ollama, which the user may also take. `host_stop` takes
the handle under the mutex and stops it outside.

**Desktop** composes the three with an app that quits (with the exit handler), dies
(perhaps in the middle of writing a file) and is launched again.

**Envelope** gives the sealed messages of `lluma-crypto` symbolically: what a
ciphertext carries and what must match for it to open.

**Relay** is the rate limiter with the eviction of idle buckets; **Gateway** its key
and the path allow-list, set against the URL parser that reads the path again when
the request is sent (`Normalized`, external).

**Path** is one anonymous inference end to end. A call learns the gateway's key from
the signed bootstrap, checks the issuer's key, picks a host from the signed snapshot
and sends its capsule; the capsule's flight goes from gateway to broker to host and
its answer back, while the gateway gives up, relay and gateway restart, hosts change
keys, the network repeats capsules and hands answers to the wrong call. The two
calls of the instance may be two attempts of one client with its one token, which is
how the desktop app retries. A call is told what `ClientError` tells it: a 409 is a
409, for a token spent before and for a spend that was rolled back alike, since the
client drops the body. The requests for key config and snapshot pass the limiter and
the gateway's list like any other, in one step. Path has its own, smaller exec: whether the token was
spent before, on what, and what was answered; the transaction behind it is Broker's.

The exact correspondence of definitions and lines is the `map` of `PROJECT.json`.

## 3. Runs

| Run | Checks | Instance | What happens in it |
|---|---|---|---|
| `issue` | CreditsConserved, ReservationOwned, DebitedOnce, ReservationsEnd | 3 issue tasks, one account and request id, two batches that overlap, faults in debit, counter and refund, 1 restart | replay, conflict, concurrent copies, refund and dropped refund, retry after release and after restart |
| `settle` | TypeOK, EarnedAccounted, TrialAccounted, ValueBacked, NoFalseTrip, ForwardedOnce, RedeemedCounted, ReceiptsMatchSpends, NothingForgotten | 2 execs, 2 tokens, 2 hosts, 2 days, u64::MAX = 5, a budget not a multiple of the grant, redeem exposed, faulty spend, 1 restart | double spends at different hosts, lost forwards, repeated and misdirected receipts, saturation, a budget that runs out, the clock set back |
| `admit` | TypeOK, SlowAdmission, AcceptedInOrder, Lifecycle | 1 desktop host, interval 1, admission_m 2, 6 s, u32::MAX = 2, with a sweep that may run | bursts, replays, re-registrations, saturated progress, eviction and re-admission |
| `jobs` | TypeOK, SlotsExact, Correlated, PendingOwned | 2 connections of 1 host, 2 execs, 1 slot, queue of 1, silent links | races for the last slot, timeouts, cancellations, late answers, a host that answers after dialing again |
| `replace` | DirectoryCurrent, DispatchEnds | 2 connections, 2 hosts, 1 exec, cap of 1 socket, silent links | replacement under the cap, refused second host, late teardown, dispatch on a dead socket |
| `wallet` | TypeOK, StoreAgrees, TokensKept, SpentForgotten, AccountRestorable | 2 commands at once, 1 account, 2 passphrases, 2 tokens, up to 2 hosts per chat, 1 relaunch | crossing account commands, a file under another passphrase, retries of a burned token, death during a save, failing disk |
| `hosting` | TrustMatchesRelay, SettingsOnDisk, LatchSuffices, ChildOwned, ExitAtRestReaps | 2 commands at once, 2 relays, up to 2 children, host files left by earlier accounts, 1 relaunch | two starts, a stop during a start, every failing phase, settings changed during a connect, quitting with the mutex held |
| `path` | TypeOK, AnswerIsOwn, ServedOnce, Allowance, SentAsChecked, GatewayCanAnswer | 2 clients, 2 calls, 1 repeated capsule, 2 hosts with 2 keys, 2 gateway keys, 1 s | a token tried at two hosts, repeats, misdelivery, timeouts, a restart or a new key, paths off the list and under a prefix |
| `restart` (violation) | ReplayNeverRedebits | 2 issue tasks, 1 restart | see findings |
| `stale` (violation) | StaleDemoted | no sweep | see findings |
| `stall` (violation) | DispatchEnds | stalled links, 3 execs | see findings |
| `relay` (violation) | TrustFollowsRelay | 2 commands at once, 2 relays | see findings |

Why the bounds suffice. Two copies of a request make a race and the third makes a
retry after it; two tokens and two hosts make a double spend and a misdirected
receipt; a single restart separates before and after, and the proofs cover any
number for what they prove. Hosts do not interact in the registry, so one is
enough there. In the tunnel two connections make a replacement, two tasks over one
slot a race, and the request ids of the two connections coincide, which is what a
misdirected answer needs; three tasks over a queue of one fill the queue behind a
job in the writer (`stall`). Two commands at once are every pair of the app's
commands, and its mutex leaves no more than one of them with effects in between;
two passphrases make a file that does not open; one relaunch shows what files keep.
Two calls make a retry and a repeated capsule a third delivery. `RepeatsOfRetries`, a
constraint of `MCPath`, lets a capsule be repeated only where both calls are one
client's, where the repeat meets a retry of its token; flights of two tokens meet only
at the gateway and the relay, which two clients exercise without a repeat. One second separates
a key from its successor and a full bucket from an empty one. That second is one for
the whole run: a restart of gateway or relay, a new key of a host and the refill of a
bucket each take it, so a behaviour of `path` has one of them, before, between or
after any of its other steps, and never two. A second one makes the run several times
as large; the theorems about Path hold for any number of them, and what they leave
out (`GatewayCanAnswer`) speaks of a single flight. `MaxNow`, `MaxTime`,
`MaxGranted`, `MaxCrashes`, `MaxSpawns`, `MaxLaunches`, `MaxKeys`, `MaxHostKeys` and
`MaxHosts` bound what is otherwise infinite. Deadlock is not checked: requests are
finite in number, and a state in which all have been answered is a proper end.

Symmetry is used only in runs without liveness, over sets whose members differ
in nothing but their name.

## 4. Fairness

* `Origin`: a handler that runs is scheduled until it returns (worker threads of
  the runtime); nothing is assumed of clients, and a crash may always happen.
* `Registry`: `admit` is checked for safety only. In `stale` the clock advances and
  `evict_stale` would run again and again *if* anything scheduled it; nothing does
  (`SweepScheduled` is FALSE), and nothing is assumed of the hosts.
* `Tunnel`: runnable tasks of the broker run and timers fire. Nothing is assumed of
  the host: it need not answer, read, close or dial again. A write to a stalled link
  is not enabled, so fairness does not make it end.
* `Desktop` and `Path` are checked for safety only. `GatewayCanAnswer` is an invariant
  about what is enabled: whatever became of origin and host, the gateway has a step of
  its own that answers or forwards every capsule it has not answered, its timeout in
  the end. That it takes the step, and that the answer arrives, needs a network that
  delivers, which nothing in the code ensures.

Clock, grants and restarts are bounded by guards, so no fairness is needed for
them to stop.

## 5. Proofs

Every invariant and action property that a passing run checks, except
`GatewayCanAnswer`, is also a theorem, for every value of the constants that meets the
`ASSUME`s. These are: finite accounts,
tokens and tunnel tasks; hosts among the accounts; positive u64::MAX and queue sizes;
admission_m at least 1 and within u32; a repeated capsule is told apart from a call's
own; a path is a sequence; and the values that stand for "absent", "torn" or "not
ours" (`None`, `Torn`, `User`) are none of the records they stand beside (`NoBucket`,
`NoAnswer`, `NoSpend`, `NoSettings`, `NoFile`, `NoHandle`). TLC evaluates all of them.

| Theorem | Says | Argument |
|---|---|---|
| `OriginProofs!TypeCorrect` | TypeOK is an invariant of Origin | inductive as it stands; it is where `SatAdd` and the guard of the debit are needed to stay within u64 |
| `OriginProofs!CreditsAreConserved` | CreditsConserved | inductive with TypeOK, through lemmas on what `Credit` and `Debit` do to a row |
| `SpendProofs!TripwireNeverFalse` | NoFalseTrip, if the bump does not fail | `TripInv`: signatures are released only for batches already counted, and `redeemed` is at most the number of bound tokens. An unspent released token then makes the bound set a proper subset of the covered set, so `redeemed` is below `issued` |
| `SpendProofs!TokenForwardedOnce` | ForwardedOnce | `ForwardInv`: an unbound token has reached nobody, and a task about to forward is alone with its token, which is bound to its host and not forwarded yet |
| `RegistryProofs!TypeCorrect` | TypeOK is an invariant of Registry | inductive as it stands |
| `RegistryProofs!AdmissionIsSlow` | SlowAdmission | `AdmissionInv`: every counted heartbeat is one interval further from the start of the count |
| `RegistryProofs!CountersAcceptedInOrder` | AcceptedInOrder | the row's counter bounds all accepted ones (also in `AdmissionInv`) |
| `RegistryProofs!RegistryImplementsHostTable` | Lifecycle, and, if nothing schedules the sweep, that Registry implements HostTable, which is what Broker instantiates | step simulation: every step leaves the statuses alone, registers one host, admits one, or is the sweep and demotes exactly the stale ones |
| `AccountProofs!ReservationsHaveOwners`, `RequestDebitedOnce` | ReservationOwned; DebitedOnce, and at most one debit per id and lifetime if the refund cannot fail | `ChargeInv`: a pending entry has exactly one task; a debit of this process lifetime that stands (was not given back and is not a debit whose refund was dropped) keeps its entry pending or done, so a second task with the key never reaches the debit; and a task before its debit is not counted as charged |
| `AccountProofs!EarningsHaveCauses` | EarnedAccounted | inductive with TypeOK; each of the four writers of `earned` moves exactly one of the four causes |
| `AccountProofs!RedeemsAreCounted`, `ReceiptsFollowSpends` | RedeemedCounted, ReceiptsMatchSpends | `Redeemed` and `SpentCounted`: a binding is made together with its burn and its count, for a token that was released |
| `AccountProofs!TrialsAreAccounted` | TrialAccounted | inductive with TypeOK; the cardinality of the accounts dated a day grows by one per grant |
| `AccountProofs!NothingIsForgotten` | NothingForgotten, an action property | step by step from TypeOK and `SpentCounted` |
| `AccountProofs!ValueIsBacked` | ValueBacked, for finitely many requests | `BackedInv` (checked by TLC first): a debit that was neither signed for nor refunded yet (`Owed`) still counts. Every step then keeps balances + owed + outstanding tokens below grants + trials |
| `TunnelProofs!TunnelTyped`, `SlotsCounted` | TypeOK, SlotsExact | `CountInv`: a task past `reserve_tunnel` has a socket, and one about to compare-exchange has read a value below the cap |
| `TunnelProofs!AnswersCorrelated`, `NoStrayPending` | Correlated, PendingOwned | `IdInv`: request ids of a socket are unique and below `next_rid`; a job is its task's own wherever it is (queue, writer, host, pending map); a used mailbox has left the map |
| `TunnelProofs!DirectoryIsCurrent` | DirectoryCurrent | `DirInv`: a connection from its insertion to its end is listed or named as somebody's predecessor |
| `PathProofs!PathTyped`, `AnswersAreOwn`, `TokensServeOnce` | TypeOK, AnswerIsOwn, ServedOnce | `PathInv`: a capsule under way belongs to a call that has sealed it; a job is at a host only for a token that this call spent and that served nobody, and alone with it; an answer that delivers something is true of the capsule it answers; and no answer that was given is taken back |
| `PathProofs!LimiterHolds` | Allowance | `BucketBound`: tokens left plus tokens drawn since any moment are within the capacity and what was refilled since; evicting a full bucket leaves this alone |
| `PathProofs!PathsAreSentAsChecked` | SentAsChecked | `PlainPath`: a path without dot, empty or escaped segments is one the parser leaves as it is, and `path_allowed` accepts no other; `SentReady`: what was sent is what the parser made of the call's final path |
| `DesktopProofs!DesktopTyped`, `LatchKeepsHostsOut` | TypeOK, LatchSuffices | `TypeInv`: what each command carries at each of its points, who keeps the mutex and who the latch, and that an app that does not run remembers nothing |
| `DesktopProofs!ChildrenHaveOwners`, `QuittingReaps` | ChildOwned, ExitAtRestReaps | `ChildInv`: a running child has an owner or was stranded, whether the app runs or not |
| `DesktopProofs!TrustIsForTheRelay`, `SettingsReachDisk` | TrustMatchesRelay, SettingsOnDisk | `TrustInv`: an auto_connect in progress fetches from the relay in use; `DiskInv`: a set_settings that waits for the mutex is alone and its form is the file |
| `WalletProofs!MemoryMatchesDisk`, `TokensAreKept`, `SettledIsForgotten` | StoreAgrees, TokensKept, SpentForgotten | `BalanceInv`: no token twice; memory and disk agree except while a change is saved; until then every unspent token is in memory, or the file is one of another passphrase that the save overwrites |
| `WalletProofs!AccountIsRestorable` | AccountRestorable | `Restorable`: what an account command carries is what the keystore holds |

The condition of `TripwireNeverFalse` is needed, see the end of section 6. The instance of `issue` does not reach u64::MAX, where
`CreditsConserved` makes no claim; the proof covers every value of it.

Two proofs need induction over data: over the length of a path, and over the accounts
of a sum. Both take the least counterexample from the well-founded order of the
naturals (`WFMin`, stated for a set and not for a predicate) and contradict it
(`Least` in `PathProofs` and `AccountProofs`). A sum is characterised by how it changes
when one term changes (`SumChanges`), and the value theorem uses nothing else of it.

Only model-checked: the liveness properties (`ReservationsEnd`, `DispatchEnds`), which
with fairness are out of reach of this prover, and `GatewayCanAnswer`, which is about
ENABLED.

## 6. Findings

Each is a run that TLC is expected to violate, because the code does something
other than a comment or document of the repository says.

* `restart`: the idempotency cache is in memory, the debit durable. A request
  repeated after a restart is debited again, though `idem.rs` says a retry gets
  the issued signatures "without being re-debited". Within one process lifetime
  a second debit needs a refund that the storage dropped (`DebitedOnce` in `issue`).
* `stale`: nothing calls `evict_stale`; a host that is gone stays ACTIVE, though
  `config.rs` says "eviction after 3 missed".
* `stall`: `dispatch` awaits room in the job queue outside its timeout. Behind a
  peer that does not read, the queue fills with jobs already given up, and the
  next dispatch waits without end, though the module promises a "30 s per-request
  timeout". As long as peers read, every dispatch ends (`replace`).
* `relay`: `set_settings` clears the verified parameters when the relay changes "so the
  next auto_connect re-verifies against the new relay" (desktop `lib.rs:98-100`). An
  `auto_connect` that was fetching meanwhile stores what it got from the old relay
  after that, and it stays. This race is the only one (`TrustMatchesRelay` in
  `hosting`, and its theorem).

Three more disagreements of a comment with the code, which the models contain but no
run is devoted to:

* The observer only logs a failed `bump_issued` (`lluma-broker/src/main.rs:107`) and
  signing goes on, after which the tripwire can refuse an issued token; the issuer's
  `service.rs:190-193` says a false trip "cannot occur". `NoFalseTrip` is checked and
  proved for a bump that does not fail, and it is false with `"bump"` in `Faulty`.
* The broker answers 409 for a token spent before and for a spend it rolled back
  (`lluma-broker/src/service.rs:209-213`). The desktop app says of any 409 "The token
  was spent" (`client.rs:237`) and drops the token. This is one of the four mishaps of
  `TokensKept`.
* The exit handler's comment says quitting "never strands" a managed Ollama, and
  calls itself "Best-effort" in the next sentence (desktop `lib.rs:569-571`). Quitting
  with the mutex held or a start in progress does strand it; `ExitAtRestReaps` says that
  quitting otherwise does not.

The other exceptions that the desktop properties name (`crossed`, `swapped`, the other
`mishaps`) are behaviours of the code that its comments do not speak of: two commands
that cross leave disk and memory apart, a death during a save loses the token file.
The properties say that nothing else does.

## 7. Not modelled

* *Cryptography*: `Envelope` says what must match for a message to open. Blind
  signatures, key derivation, proof of work and Ed25519 do what they promise: a
  token is a model value that exists once its batch was signed, and a request whose
  signature, freshness, pin or hash fails changes nothing.
* *Several bootstrap sources* (`lluma-net/src/bootstrap.rs`) and the issuer's own HTTP
  client (`lluma-issuer/src/client.rs`): no caller outside tests.
* *Wire types* (`lluma-core`), *model catalog and runtime*, *keygen*: data, tables
  and I/O without state that other parts depend on.
* *Standalone issuer*: the same handlers over in-memory ledgers, not the deployed
  build.
* *The web front end*: any command may be invoked at any time.
* *Queries of the desktop app* (`network_status`, `claim_trial`, `host_status`, hardware)
  read under the mutex and change nothing in the app; what a trial does is in Broker.
* *Pings and frame limits* of the tunnel are reduced to a connection that may end.
* *Clocks*: the registry and its hosts read one clock that does not run backwards.
* *Late registrations*: in `Path` a host registers a new key at once.
* *A relay that never answers*: the client has no timeout against it.
* *Fractions of a token* in the relay's buckets: time is in whole seconds.
* *Disconnecting clients*: `issue` has no await point and cannot be cancelled half
  way. An exec cancelled while it forwards has, for the store, the effect of a lost
  answer; what it does to the tunnel is the action `Cancelled`.

## 8. Plan

The properties of the passing runs are proved, but for the two liveness properties and
`GatewayCanAnswer`.
Worth adding next:

1. *Refinement between the compositions*: `Path` keeps its own table of spends; show
   that its steps are steps of an abstract token (unspent, bound to one call and host,
   served) which `Origin` implements too, as both implement `HostTable` today.
2. *Action properties* where only states are compared so far: a pending entry is
   removed once, a stored host handle is only ever replaced through a stop, a settled
   call never changes its answer.
3. *Operators*: what `Normalized` makes of every path (not only of the plain ones it
   leaves alone), and that evicting buckets never raises an allowance, as lemmas of
   their own.
