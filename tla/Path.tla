-------------------------------- MODULE Path --------------------------------
(***************************************************************************)
(* One anonymous inference, end to end: the client library                 *)
(* (crates/lluma-client, lluma-net), the relay, the gateway, the broker's  *)
(* exec (as Broker has it, here with the answer it gives) and the serving  *)
(* host (crates/lluma-host).                                               *)
(*                                                                         *)
(* A client fetches the bootstrap, the issuer's key and the snapshot, each *)
(* in one step, and may use what it learned much later.  An exec is a      *)
(* flight: its capsule goes from hop to hop, while clients give up, hops   *)
(* time out or restart, and the network may deliver a capsule twice or     *)
(* hand a client the answer to another request.  Each client holds one     *)
(* token, named after it, and may try it several times.                    *)
(***************************************************************************)
EXTENDS Envelope, Relay, Gateway

CONSTANTS Hosts,
          Calls,        \* messages, each with one exec_with_host
          OtherPaths,   \* paths a client of another make asks for
          Repeats,      \* second deliveries of a capsule
          MaxHostKeys   \* bound on the keys of a host

ASSUME PathAssumption ==
    /\ MaxHostKeys \in Nat \ {0}
    /\ None \notin Clients \cup Calls \cup Hosts
    /\ Calls \cap Repeats = {}
    /\ \A path \in OtherPaths : path \in Seq(Range(path))

VARIABLES
    call,      \* the calls, as their clients see them
    flight,    \* the capsules under way
    host_sk,   \* host -> the HPKE key it holds and has registered
    spent,     \* token -> None or the call and host it was spent on
    served     \* history: token -> the calls an upstream answered

pathVars == <<call, flight, host_sk, spent, served>>
vars == <<relayVars, gatewayVars, pathVars>>

ExecPath == <<"v1", "exec">>
KeyConfigPath == <<"v1", "key-config">>
SnapshotPath == <<"v1", "snapshot">>
Flights == Calls \cup Repeats
HostKeys == 1..MaxHostKeys

\* ClientError: "transport" is every failure on the way, "conflict" is Server(409)
\* and "server" is Server of any other status; the body of an error is dropped.
Outcomes == {"ok", "transport", "conflict", "server", "crypto"}

\* A call: its client and the gateway key in use, the snapshot entry chosen, and
\* in the end the outcome.
Call == [pc : {"idle", "connected", "keyed", "exec", "wait"} \cup Outcomes,
         by : Clients \cup {None}, kc : 0..MaxKeys, path : {ExecPath} \cup OtherPaths,
         host : Hosts \cup {None}, host_pk : HostKeys \cup {None},
         answer : (Hosts \X Calls) \cup {None}]
NoCall == [pc |-> "idle", by |-> None, kc |-> 0, path |-> ExecPath, host |-> None,
           host_pk |-> None, answer |-> None]

\* A hop's answer: an outer status, or an inner one with a body.
Answer == [status : {"relay", "conflict", "server"}]
            \cup [status : {"ok"},
                  resp : [to : Calls, answer : Hosts \X Calls, last : BOOLEAN]]

ASSUME NoAnswer == None \notin Answer

\* What relay and gateway answer to whatever went wrong at or behind them, the
\* broker's 409, and every other error of the origin: 502 for a host that cannot be
\* reached or failed, 500 for one that cannot be looked up.
RelayFailed == [status |-> "relay"]
Conflict == [status |-> "conflict"]
ServerError == [status |-> "server"]

\* The paths the origin is asked for: none yet, or what the parser made of one.
SentPaths == {<<>>} \cup {Normalized(path) : path \in {ExecPath} \cup OtherPaths}

Flight == [of : Calls \cup {None}, at : {"none", "gateway", "origin", "host", "done"},
           sent : SentPaths, reply : Answer \cup {None}]

NoFlight == [of |-> None, at |-> "none", sent |-> <<>>, reply |-> None]

\* What a token was spent on.
Spend == [call : Calls, host : Hosts]

ASSUME NoSpend == None \notin Spend

TypeOK ==
    /\ RelayTypeOK
    /\ GatewayTypeOK
    /\ call \in [Calls -> Call]
    /\ flight \in [Flights -> Flight]
    /\ host_sk \in [Hosts -> HostKeys]
    /\ spent \in [Clients -> Spend \cup {None}]
    /\ served \in [Clients -> Seq(Calls)]

Init ==
    /\ \E domain \in {"bootstrap", "snapshot"} : RelayInit(Signed(domain, 1))
    /\ GatewayInit
    /\ call = [c \in Calls |-> NoCall]
    /\ flight = [f \in Flights |-> NoFlight]
    /\ host_sk = [h \in Hosts |-> 1]
    /\ spent = [i \in Clients |-> None]
    /\ served = [i \in Clients |-> <<>>]

originVars == <<host_sk, spent, served>>

-----------------------------------------------------------------------------
(* What a client learns before an exec. *)

\* verify_bootstrap: signed by the registry, and as a bootstrap.
VerifyBootstrap(doc) == SignatureOk("bootstrap", doc)

\* fetch_bootstrap, straight from the relay.
FetchBootstrap(c, i) ==
    /\ call[c].pc = "idle"
    /\ VerifyBootstrap(mirror)
    /\ call' = [call EXCEPT ![c].pc = "connected", ![c].by = i, ![c].kc = mirror.body]
    /\ UNCHANGED <<relayVars, gatewayVars, flight, originVars>>

\* A GET comes back only if it passes the limiter, the gateway opens the capsule and
\* its list has the path, and may fail even so; then the call ends.
Get(c, path, pass, learned) ==
    /\ Allow(call[c].by, pass)
    /\ \/ /\ pass
          /\ OhttpDecapsulates(secret, [kc |-> call[c].kc])
          /\ Forwardable(path)
          /\ call' = [call EXCEPT ![c] = learned]
       \/ call' = [call EXCEPT ![c].pc = "transport"]
    /\ UNCHANGED <<gatewayVars, flight, originVars>>

\* key_config, accepted if it is the key the bootstrap pins.
KeyConfig(c, pass) ==
    /\ call[c].pc = "connected"
    /\ Get(c, KeyConfigPath, pass, [call[c] EXCEPT !.pc = "keyed"])

\* publish: the hosts with the keys they registered, signed (all are active here).
Publish == Signed("snapshot", host_sk)

\* verify_snapshot: signed by the registry, and as a snapshot.
VerifySnapshot(doc) == SignatureOk("snapshot", doc)

\* snapshot: of the hosts listed the client picks one.
Snapshot(c, h, pass) ==
    /\ call[c].pc = "keyed"
    /\ VerifySnapshot(Publish)
    /\ Get(c, SnapshotPath, pass,
           [call[c] EXCEPT !.pc = "exec", !.host = h, !.host_pk = Publish.body[h]])

-----------------------------------------------------------------------------
(* exec_with_host, up to the gateway. *)

\* The request of call c: the token is its client's, the session key its own.
Capsule(c) ==
    OhttpEncapsulate(call[c].kc, c,
        [path |-> call[c].path, token |-> call[c].by, host |-> call[c].host,
         sealed |-> E2eSeal(<<call[c].host, call[c].host_pk>>, call[c].by, c, c)])

Inner(f) == Capsule(flight[f].of).inner

\* The client seals and sends; the relay forwards the capsule or answers 429.
ExecSend(c, pass) ==
    /\ call[c].pc = "exec"
    /\ Allow(call[c].by, pass)
    /\ call' = [call EXCEPT ![c].pc = IF pass THEN "wait" ELSE "transport"]
    /\ flight' = [flight EXCEPT ![c] =
                    IF pass THEN [NoFlight EXCEPT !.of = c, !.at = "gateway"] ELSE @]
    /\ UNCHANGED <<gatewayVars, originVars>>

\* A client of another make sends a request of its own.
OtherSend(c, path, pass) ==
    /\ call[c].pc = "connected"
    /\ Allow(call[c].by, pass)
    /\ call' = [call EXCEPT ![c].pc = IF pass THEN "wait" ELSE "transport", ![c].path = path]
    /\ flight' = [flight EXCEPT ![c] =
                    IF pass THEN [NoFlight EXCEPT !.of = c, !.at = "gateway"] ELSE @]
    /\ UNCHANGED <<gatewayVars, originVars>>

\* The network delivers the capsule of an exec once more.
Redeliver(f, c) ==
    /\ f \in Repeats
    /\ flight[f].at = "none"
    /\ call[c].path = ExecPath
    /\ flight[c].at # "none"
    /\ flight' = [flight EXCEPT ![f] = [NoFlight EXCEPT !.of = c, !.at = "gateway"]]
    /\ UNCHANGED <<relayVars, gatewayVars, call, originVars>>

\* The flight moves on.
Moves(f, at) == flight' = [flight EXCEPT ![f].at = at]

\* The flight ends with an answer, unless one was given in its stead before.
Answered(f, answer) ==
    flight' = [flight EXCEPT ![f].at = "done",
                             ![f].reply = IF @ = None THEN answer ELSE @]

atGateway == <<relayVars, gatewayVars, call>>

\* process, up to the request it makes of the origin.
GatewayForwards(f) ==
    /\ flight[f].at = "gateway"
    /\ OhttpDecapsulates(secret, Capsule(flight[f].of))
    /\ Forwardable(Inner(f).path)
    /\ flight' = [flight EXCEPT ![f].sent = Normalized(Inner(f).path),
                                ![f].at = "origin"]
    /\ UNCHANGED <<atGateway, originVars>>

\* The uniform 502.  A client of another make may also use a method other than GET
\* and POST, which is refused whatever the path.
GatewayRefuses(f) ==
    /\ flight[f].at = "gateway"
    /\ \/ ~OhttpDecapsulates(secret, Capsule(flight[f].of))
       \/ ~Forwardable(Inner(f).path)
       \/ Inner(f).path # ExecPath
    /\ Answered(f, RelayFailed)
    /\ UNCHANGED <<atGateway, originVars>>

\* Mutant of GatewayTimesOut: the HTTP client has a timeout for connecting only.
GatewayTimesOutConnecting(f) ==
    /\ flight[f].at = "origin"
    /\ flight[f].reply = None
    /\ flight' = [flight EXCEPT ![f].reply = RelayFailed]
    /\ UNCHANGED <<atGateway, originVars>>

\* Thirty seconds without the origin's answer, or no connection to it: 502, while
\* the origin may go on.
GatewayTimesOut(f) ==
    /\ flight[f].at \in {"origin", "host"}
    /\ flight[f].reply = None
    /\ flight' = [flight EXCEPT ![f].reply = RelayFailed]
    /\ UNCHANGED <<atGateway, originVars>>

-----------------------------------------------------------------------------
(* The origin and the host. *)

\* exec is what the rest is about; any other route answers something.
ForExec(f) == flight[f].at = "origin" /\ flight[f].sent = ExecPath

OtherAnswers(f) ==
    /\ flight[f].at = "origin"
    /\ ~ForExec(f)
    /\ Answered(f, ServerError)
    /\ UNCHANGED <<atGateway, originVars>>

\* resolve_active_host comes first: a host nobody registered is refused.
HostKnown(f) == Inner(f).host \in Hosts

\* Mutant of BrokerSpends: the SPENT lookup is missing.
BrokerSpendsAgain(f) ==
    /\ ForExec(f)
    /\ HostKnown(f)
    /\ spent' = [spent EXCEPT ![Inner(f).token] =
                    [call |-> flight[f].of, host |-> Inner(f).host]]
    /\ Moves(f, "host")
    /\ UNCHANGED <<atGateway, host_sk, served>>

\* The spend transaction.
BrokerSpends(f) ==
    /\ ForExec(f)
    /\ HostKnown(f)
    /\ spent[Inner(f).token] = None
    /\ spent' = [spent EXCEPT ![Inner(f).token] =
                    [call |-> flight[f].of, host |-> Inner(f).host]]
    /\ Moves(f, "host")
    /\ UNCHANGED <<atGateway, host_sk, served>>

\* 409: spent before.
BrokerConflict(f) ==
    /\ ForExec(f)
    /\ HostKnown(f)
    /\ spent[Inner(f).token] # None
    /\ Answered(f, Conflict)
    /\ UNCHANGED <<atGateway, originVars>>

\* The host is not active, has no free slot (502) or cannot be looked up (500):
\* nothing is spent.
BrokerNoHost(f) ==
    /\ ForExec(f)
    /\ Answered(f, ServerError)
    /\ UNCHANGED <<atGateway, originVars>>

\* The transaction failed or tripped the wire and the spend is undone; the client is
\* told 409 all the same.
BrokerRollsBack(f) ==
    /\ ForExec(f)
    /\ HostKnown(f)
    /\ spent[Inner(f).token] = None
    /\ Answered(f, Conflict)
    /\ UNCHANGED <<atGateway, originVars>>

\* The host's key opens the request, with the spend id the broker forwards.
HostOpens(f) ==
    LET h == Inner(f).host
    IN E2eOpens(<<h, host_sk[h]>>, Inner(f).token, Inner(f).sealed)

\* serve_sealed: the upstream answers and the answer is sealed to the session; it
\* may be lost on its way to the broker.
HostServes(f, lost) ==
    /\ flight[f].at = "host"
    /\ HostOpens(f)
    /\ served' = [served EXCEPT ![Inner(f).token] = Append(@, flight[f].of)]
    /\ Answered(f, IF lost THEN ServerError
                   ELSE [status |-> "ok",
                         resp |-> ResponseSeal(Inner(f).sealed.reply_to,
                                      <<Inner(f).host, Inner(f).sealed.prompt>>, TRUE)])
    /\ UNCHANGED <<atGateway, host_sk, spent>>

\* The seal does not open, the upstream fails, the host is not reached, or its time
\* is up.
HostFails(f) ==
    /\ flight[f].at = "host"
    /\ Answered(f, ServerError)
    /\ UNCHANGED <<atGateway, originVars>>

\* A host restarts with another key and registers it before it serves.
HostRekeys(h) ==
    /\ Tick
    /\ host_sk[h] < MaxHostKeys
    /\ host_sk' = [host_sk EXCEPT ![h] = @ + 1]
    /\ UNCHANGED <<gatewayVars, call, flight, spent, served>>

-----------------------------------------------------------------------------
(* The answer on its way back. *)

\* What call c makes of an answer to the capsule of call d: round_trip opens the
\* outer layer, exec_with_host the inner one, and both insist on the final chunk.
Outcome(c, d, answer) ==
    LET sealed == OhttpSealChunk(d, answer, TRUE)
    IN IF answer.status = "relay" \/ ~(OhttpOpens(c, sealed) /\ sealed.last)
       THEN "transport"
       ELSE IF answer.status # "ok" THEN answer.status
       ELSE IF ResponseOpens(c, answer.resp) /\ answer.resp.last THEN "ok" ELSE "crypto"

\* An answer reaches the call, its own or not.
ClientReceives(c, f) ==
    /\ call[c].pc = "wait"
    /\ flight[f].reply # None
    /\ LET outcome == Outcome(c, flight[f].of, flight[f].reply)
       IN call' = [call EXCEPT ![c].pc = outcome,
                               ![c].answer = IF outcome = "ok"
                                             THEN flight[f].reply.resp.answer ELSE None]
    /\ UNCHANGED <<relayVars, gatewayVars, flight, originVars>>

\* The connection to the relay breaks; the request is under way.
ClientLoses(c) ==
    /\ call[c].pc = "wait"
    /\ call' = [call EXCEPT ![c].pc = "transport"]
    /\ UNCHANGED <<relayVars, gatewayVars, flight, originVars>>

-----------------------------------------------------------------------------
\* The gateway restarts, which takes a moment; the relay answers 502 for what was
\* under way there.
GatewayRestart ==
    /\ Tick
    /\ GatewayStarts
    /\ flight' = [f \in Flights |->
                    IF flight[f].at \in {"none", "done"} \/ flight[f].reply # None
                    THEN flight[f]
                    ELSE [flight[f] EXCEPT !.reply = RelayFailed,
                                           !.at = IF @ = "gateway" THEN "done" ELSE @]]
    /\ UNCHANGED <<call, originVars>>

\* The relay restarts with a bootstrap for the gateway's present key; the calls that
\* waited have lost their connection.
RelayRestart ==
    /\ RelayStarts(Signed("bootstrap", secret))
    /\ call' = [c \in Calls |-> IF call[c].pc = "wait"
                                THEN [call[c] EXCEPT !.pc = "transport"] ELSE call[c]]
    /\ UNCHANGED <<gatewayVars, flight, originVars>>

Next ==
    \/ Tick /\ UNCHANGED <<gatewayVars, pathVars>>
    \/ \E c \in Calls, i \in Clients : FetchBootstrap(c, i)
    \/ \E c \in Calls, pass \in BOOLEAN :
          \/ KeyConfig(c, pass)
          \/ \E h \in Hosts : Snapshot(c, h, pass)
          \/ ExecSend(c, pass)
          \/ \E path \in OtherPaths : OtherSend(c, path, pass)
    \/ \E f \in Flights, c \in Calls : Redeliver(f, c)
    \/ \E f \in Flights :
          \/ GatewayForwards(f) \/ GatewayRefuses(f) \/ GatewayTimesOut(f)
          \/ OtherAnswers(f)
          \/ BrokerSpends(f) \/ BrokerConflict(f) \/ BrokerNoHost(f)
          \/ BrokerRollsBack(f)
          \/ HostServes(f, TRUE) \/ HostServes(f, FALSE) \/ HostFails(f)
    \/ \E h \in Hosts : HostRekeys(h)
    \/ \E c \in Calls, f \in Flights : ClientReceives(c, f)
    \/ \E c \in Calls : ClientLoses(c)
    \/ GatewayRestart
    \/ RelayRestart

Spec == Init /\ [][Next]_vars

-----------------------------------------------------------------------------
\* What a call is told is about its own request, whatever is repeated or handed to
\* the wrong client: an answer is the chosen host's answer to this call's prompt,
\* for a token spent by this call and on that host, and an error of the origin is
\* one that was given to this call's own capsule (exec_with_host, round_trip, exec).
\* It is not said that a token told of a 409 is spent: a rolled-back spend is
\* answered with the same status.
AnswerIsOwn ==
    \A c \in Calls :
        /\ call[c].pc = "ok" =>
              /\ call[c].answer = <<call[c].host, c>>
              /\ spent[call[c].by] = [call |-> c, host |-> call[c].host]
        /\ call[c].pc \in {"conflict", "server"} =>
              \E f \in Flights : flight[f].of = c /\ flight[f].reply = [status |-> call[c].pc]

\* A token buys one run of an upstream at most, and for the call it was spent on,
\* through retries on other hosts, repeated capsules, timeouts and restarts.
ServedOnce ==
    \A i \in Clients :
        /\ Len(served[i]) <= 1
        /\ served[i] # <<>> => spent[i] # None /\ served[i][1] = spent[i].call

\* The origin sees exactly the path that was checked, and only at or below a
\* listed prefix: nothing the parser rewrites gets past the check (path_allowed:
\* "the two must be forced to agree").
SentAsChecked ==
    \A f \in Flights : flight[f].sent # <<>> =>
        /\ flight[f].sent = Inner(f).path
        /\ \E prefix \in allowed_prefixes : IsPrefix(prefix.segs, flight[f].sent)

\* Whatever has become of the origin and the host, the gateway can answer by itself
\* every capsule it was sent and has not answered: it still has to forward or refuse
\* it, or its HTTP client's timeout is running; and what was in its hands when it
\* restarted has been answered for it.  This is all that bounds the wait of a call,
\* since client and relay have no timeout of their own (router, process).
GatewayCanAnswer ==
    \A f \in Flights : flight[f].at # "none" /\ flight[f].reply = None =>
        ENABLED (GatewayForwards(f) \/ GatewayRefuses(f) \/ GatewayTimesOut(f))
=============================================================================
