------------------------------- MODULE Tunnel -------------------------------
(***************************************************************************)
(* The reverse tunnel (tunnel.rs of crates/lluma-broker and lluma-host): a *)
(* host behind a NAT keeps an outbound WebSocket to the broker, and the    *)
(* broker pushes exec jobs down it (service.rs, exec).                     *)
(*                                                                         *)
(* A member of Conns is one connection and the HostSocket it becomes; its  *)
(* handle_socket task, its writer task and the exec handlers run           *)
(* concurrently and meet in the directory, the socket's pending map, its   *)
(* job queue and its in-flight counter, each access to one of which is a   *)
(* step.  A member of Tasks is one exec whose host is reached by tunnel.   *)
(* The host has one session at a time (run), serves jobs concurrently and  *)
(* answers in any order on the connection they came by (serve_once);       *)
(* message contents are reduced to the task they answer.                   *)
(***************************************************************************)
EXTENDS Integers, Sequences, FiniteSets

CONSTANTS Conns, Tasks, Hosts,
          None,
          MAX_SOCKETS, MAX_INFLIGHT_PER_SOCKET, SEND_QUEUE,
          MAX_PREAUTH_HANDSHAKES,
          LinkFaults     \* what may befall a connection, of "silent", "stalled"

ASSUME TunnelAssumption ==
    /\ IsFiniteSet(Tasks)
    /\ None \notin Conns \cup Tasks \cup Hosts
    /\ MAX_SOCKETS \in Nat /\ MAX_INFLIGHT_PER_SOCKET \in Nat
    /\ SEND_QUEUE \in Nat \ {0} /\ MAX_PREAUTH_HANDSHAKES \in Nat \ {0}
    /\ LinkFaults \subseteq {"silent", "stalled"}

VARIABLES
    sockets,     \* TunnelRegistry.sockets: host -> its current connection
    conn,        \* connection -> where its handle_socket task stands
    account,     \* connection -> the host that dialed it
    session,     \* host -> the connection its serve_once is on
    old,         \* connection -> the connection it replaced
    writer,      \* connection -> its writer task
    sending,     \* connection -> the job its writer is putting on the wire
    open,        \* connection -> whether job_rx exists (job_tx.is_closed() is not so)
    link,        \* connection -> "up", "silent" (nothing arrives) or "stalled"
                 \*   (the peer reads nothing, so a write blocks)
    queue,       \* connection -> jobs in job_tx's channel, <<request id, task>>
    pending,     \* connection -> the pending map, as a set of <<request id, task>>
    inflight,    \* connection -> the in-flight counter
    next_rid,    \* connection -> next_request_id
    jobs,        \* connection -> jobs the host holds, or whose answers are under way
    exec,        \* task -> where its exec handler stands
    sock,        \* task -> the connection it reserved, or wants to
    cur,         \* task -> the counter value its reservation has loaded
    rid,         \* task -> its request id
    mailbox      \* task -> what its oneshot received: the task that is answered

connVars == <<conn, account, old, session>>
writerVars == <<writer, sending, open>>
taskVars == <<exec, sock, cur, rid, mailbox>>
vars == <<sockets, connVars, writerVars, link, queue, pending, inflight, next_rid,
          jobs, taskVars>>

Job == Nat \X Tasks
ConnPc == {"new", "handshake", "insert", "fail_old", "confirm", "serving",
           "unregister", "fail_own", "leaving", "closed"}
WriterPc == {"off", "idle", "busy", "closing", "aborted", "ended"}
ExecReply == {"ok", "upstream", "no_host", "refused", "cancelled"}
ExecPc == {"idle", "reserve", "spend", "dispatch", "send", "wait"} \cup ExecReply

TypeOK ==
    /\ sockets \in [Hosts -> Conns \cup {None}]
    /\ conn \in [Conns -> ConnPc]
    /\ account \in [Conns -> Hosts \cup {None}]
    /\ session \in [Hosts -> Conns \cup {None}]
    /\ old \in [Conns -> Conns \cup {None}]
    /\ writer \in [Conns -> WriterPc]
    /\ sending \in [Conns -> Job \cup {None}]
    /\ open \in [Conns -> BOOLEAN]
    /\ link \in [Conns -> {"up", "silent", "stalled"}]
    /\ queue \in [Conns -> Seq(Job)]
    /\ pending \in [Conns -> SUBSET Job]
    /\ inflight \in [Conns -> 0..MAX_INFLIGHT_PER_SOCKET]
    /\ next_rid \in [Conns -> Nat]
    /\ jobs \in [Conns -> SUBSET Job]
    /\ exec \in [Tasks -> ExecPc]
    /\ sock \in [Tasks -> Conns \cup {None}]
    /\ cur \in [Tasks -> 0..MAX_INFLIGHT_PER_SOCKET]
    /\ rid \in [Tasks -> Nat]
    /\ mailbox \in [Tasks -> Tasks \cup {None}]

Init ==
    /\ sockets = [h \in Hosts |-> None]
    /\ conn = [s \in Conns |-> "new"]
    /\ account = [s \in Conns |-> None]
    /\ session = [h \in Hosts |-> None]
    /\ old = [s \in Conns |-> None]
    /\ writer = [s \in Conns |-> "off"]
    /\ sending = [s \in Conns |-> None]
    /\ open = [s \in Conns |-> FALSE]
    /\ link = [s \in Conns |-> "up"]
    /\ queue = [s \in Conns |-> <<>>]
    /\ pending = [s \in Conns |-> {}]
    /\ inflight = [s \in Conns |-> 0]
    /\ next_rid = [s \in Conns |-> 0]
    /\ jobs = [s \in Conns |-> {}]
    /\ exec = [x \in Tasks |-> "idle"]
    /\ sock = [x \in Tasks |-> None]
    /\ cur = [x \in Tasks |-> 0]
    /\ rid = [x \in Tasks |-> 0]
    /\ mailbox = [x \in Tasks |-> None]

-----------------------------------------------------------------------------
(* The life of a connection: handle_socket. *)

Go(s, pc) == conn' = [conn EXCEPT ![s] = pc]

\* A host without a session dials; a pre-auth permit is taken and it says Hello.
Connect(s, h) ==
    /\ conn[s] = "new"
    /\ session[h] = None
    /\ Cardinality({c \in Conns : conn[c] = "handshake"}) < MAX_PREAUTH_HANDSHAKES
    /\ Go(s, "handshake")
    /\ account' = [account EXCEPT ![s] = h]
    /\ session' = [session EXCEPT ![h] = s]
    /\ UNCHANGED <<sockets, old, writerVars, link, queue, pending, inflight, next_rid,
                   jobs, taskVars>>

\* The handshake succeeds: the permit goes back and the HostSocket is built.
Authenticated(s) ==
    /\ conn[s] = "handshake"
    /\ Go(s, "insert")
    /\ open' = [open EXCEPT ![s] = TRUE]
    /\ UNCHANGED <<sockets, account, old, session, writer, sending, link, queue, pending,
                   inflight, next_rid, jobs, taskVars>>

\* It fails or misses its deadline: the connection is closed without an answer.
HandshakeFailed(s) ==
    /\ conn[s] = "handshake"
    /\ Go(s, "closed")
    /\ UNCHANGED <<sockets, account, old, session, writerVars, link, queue, pending,
                   inflight, next_rid, jobs, taskVars>>

\* TunnelRegistry::insert would exceed MAX_SOCKETS with a new account.
CapReached(s) ==
    /\ sockets[account[s]] = None
    /\ Cardinality({h \in Hosts : sockets[h] # None}) >= MAX_SOCKETS

Insert(s) ==
    /\ conn[s] = "insert"
    /\ ~CapReached(s)
    /\ sockets' = [sockets EXCEPT ![account[s]] = s]
    /\ old' = [old EXCEPT ![s] = sockets[account[s]]]
    /\ Go(s, IF sockets[account[s]] = None THEN "confirm" ELSE "fail_old")
    /\ UNCHANGED <<account, session, writerVars, link, queue, pending,
                   inflight, next_rid, jobs, taskVars>>

InsertRefused(s) ==
    /\ conn[s] = "insert"
    /\ CapReached(s)
    /\ open' = [open EXCEPT ![s] = FALSE]
    /\ Go(s, "closed")
    /\ UNCHANGED <<sockets, account, old, session, writer, sending, link, queue, pending,
                   inflight, next_rid, jobs, taskVars>>

\* old.fail_all_pending(): dropping the senders wakes the waiting tasks.
FailOld(s) ==
    /\ conn[s] = "fail_old"
    /\ pending' = [pending EXCEPT ![old[s]] = {}]
    /\ Go(s, "confirm")
    /\ UNCHANGED <<sockets, account, old, session, writerVars, link, queue, inflight,
                   next_rid, jobs, taskVars>>

\* AuthOk went out: the writer task starts and the reader loop begins.
Confirmed(s) ==
    /\ conn[s] = "confirm"
    /\ writer' = [writer EXCEPT ![s] = "idle"]
    /\ Go(s, "serving")
    /\ UNCHANGED <<sockets, account, old, session, sending, open, link, queue, pending,
                   inflight, next_rid, jobs, taskVars>>

\* AuthOk could not be sent.
ConfirmFailed(s) ==
    /\ conn[s] = "confirm"
    /\ Go(s, "unregister")
    /\ UNCHANGED <<sockets, account, old, session, writerVars, link, queue, pending,
                   inflight, next_rid, jobs, taskVars>>

\* The reader loop ends (the peer closed, an error, or the writer task ended) and
\* the writer is aborted; an aborted task is dropped some time later.
ReaderBreak(s) ==
    /\ conn[s] = "serving"
    /\ writer' = [writer EXCEPT ![s] = IF @ = "ended" THEN @ ELSE "aborted"]
    /\ Go(s, "unregister")
    /\ UNCHANGED <<sockets, account, old, session, sending, open, link, queue, pending,
                   inflight, next_rid, jobs, taskVars>>

\* Mutant of Unregister: removes whatever socket the account has.
UnregisterAny(s) ==
    /\ conn[s] = "unregister"
    /\ sockets' = [sockets EXCEPT ![account[s]] = None]
    /\ Go(s, "fail_own")
    /\ UNCHANGED <<account, old, session, writerVars, link, queue, pending,
                   inflight, next_rid, jobs, taskVars>>

\* remove_if_current
Unregister(s) ==
    /\ conn[s] = "unregister"
    /\ sockets' = [sockets EXCEPT ![account[s]] = IF @ = s THEN None ELSE @]
    /\ Go(s, "fail_own")
    /\ UNCHANGED <<account, old, session, writerVars, link, queue, pending,
                   inflight, next_rid, jobs, taskVars>>

\* sock.fail_all_pending()
FailOwn(s) ==
    /\ conn[s] = "fail_own"
    /\ pending' = [pending EXCEPT ![s] = {}]
    /\ Go(s, "leaving")
    /\ UNCHANGED <<sockets, account, old, session, writerVars, link, queue, inflight,
                   next_rid, jobs, taskVars>>

\* handle_socket returns; without a writer task it still owns job_rx.
Leave(s) ==
    /\ conn[s] = "leaving"
    /\ open' = [open EXCEPT ![s] = IF writer[s] = "off" THEN FALSE ELSE @]
    /\ Go(s, "closed")
    /\ UNCHANGED <<sockets, account, old, session, writer, sending, link, queue, pending,
                   inflight, next_rid, jobs, taskVars>>

ConnStep(s) ==
    \/ \E h \in Hosts : Connect(s, h)
    \/ Authenticated(s)
    \/ HandshakeFailed(s)
    \/ Insert(s)
    \/ InsertRefused(s)
    \/ FailOld(s)
    \/ Confirmed(s)
    \/ ConfirmFailed(s)
    \/ ReaderBreak(s)
    \/ Unregister(s)
    \/ FailOwn(s)
    \/ Leave(s)

-----------------------------------------------------------------------------
(* The writer task, the connection and the host at its other end. *)

WriterTake(s) ==
    /\ writer[s] = "idle"
    /\ queue[s] # <<>>
    /\ sending' = [sending EXCEPT ![s] = Head(queue[s])]
    /\ queue' = [queue EXCEPT ![s] = Tail(@)]
    /\ writer' = [writer EXCEPT ![s] = "busy"]
    /\ UNCHANGED <<sockets, connVars, open, link, pending, inflight, next_rid, jobs,
                   taskVars>>

\* Whether the host reads what is written: it is still on the connection, and that
\* carries it.
Reads(s) == link[s] = "up" /\ session[account[s]] = s

\* The frame is written; serve_once starts a task for the job if it gets there.
WriterSent(s) ==
    /\ writer[s] = "busy"
    /\ link[s] # "stalled"
    /\ jobs' = [jobs EXCEPT ![s] = IF Reads(s) THEN @ \cup {sending[s]} ELSE @]
    /\ sending' = [sending EXCEPT ![s] = None]
    /\ writer' = [writer EXCEPT ![s] = "idle"]
    /\ UNCHANGED <<sockets, connVars, open, link, queue, pending, inflight, next_rid,
                   taskVars>>

\* A write fails, or a ping tick finds MAX_MISSED_PONGS unanswered (pings are not
\* counted here: any tick may be the one).  A writer that is busy writing does
\* not look at its ping timer, so nothing bounds its write.
WriterBreak(s) ==
    /\ \/ writer[s] = "busy"
       \/ writer[s] = "idle"
    /\ writer' = [writer EXCEPT ![s] = "closing"]
    /\ sending' = [sending EXCEPT ![s] = None]
    /\ UNCHANGED <<sockets, connVars, open, link, queue, pending, inflight, next_rid,
                   jobs, taskVars>>

\* The writer task is gone and job_rx with it: it closed the sink, or its abort
\* took effect.
WriterEnd(s) ==
    /\ \/ writer[s] = "closing" /\ link[s] # "stalled"
       \/ writer[s] = "aborted"
    /\ writer' = [writer EXCEPT ![s] = "ended"]
    /\ sending' = [sending EXCEPT ![s] = None]
    /\ open' = [open EXCEPT ![s] = FALSE]
    /\ UNCHANGED <<sockets, connVars, link, queue, pending, inflight, next_rid, jobs,
                   taskVars>>

WriterStep(s) == WriterTake(s) \/ WriterSent(s) \/ WriterEnd(s)

LinkFault(s, f) ==
    /\ conn[s] = "serving"
    /\ link[s] = "up"
    /\ link' = [link EXCEPT ![s] = f]
    /\ UNCHANGED <<sockets, connVars, writerVars, queue, pending, inflight, next_rid,
                   jobs, taskVars>>

\* serve_once ends: nothing to read for READ_IDLE_TIMEOUT, a Close or an error, or
\* the handshake failed or took too long.  Its writer is aborted, so only answers
\* written by then still arrive.  run waits, and dials again.
HostLeaves(s, answered) ==
    /\ account[s] # None
    /\ session[account[s]] = s
    /\ session' = [session EXCEPT ![account[s]] = None]
    /\ jobs' = [jobs EXCEPT ![s] = answered]
    /\ UNCHANGED <<sockets, conn, account, old, writerVars, link, queue, pending,
                   inflight, next_rid, taskVars>>

\* Mutant of AnswersOn: whatever connection the host has by then.
AnswersOnCurrent(s) ==
    IF session[account[s]] # None THEN session[account[s]] ELSE s

\* A job's task answers through the out_tx of the connection the job came by.
AnswersOn(s) == s

\* A job is answered, with Done or Fail, and the reader loop that gets the frame
\* hands it to the waiter it finds under the request id (deliver).
HostAnswer(s, j, done) ==
    LET t == AnswersOn(s)
    IN /\ conn[t] = "serving"
       /\ link[t] # "silent"
       /\ j \in jobs[s]
       /\ jobs' = [jobs EXCEPT ![s] = @ \ {j}]
       /\ pending' = [pending EXCEPT ![t] = {p \in @ : p[1] # j[1]}]
       /\ mailbox' = [x \in Tasks |->
                         IF done /\ <<j[1], x>> \in pending[t] THEN j[2] ELSE mailbox[x]]
       /\ UNCHANGED <<sockets, connVars, writerVars, link, queue, inflight, next_rid,
                      exec, sock, cur, rid>>

-----------------------------------------------------------------------------
(* The exec handler's way through the tunnel. *)

ExecGo(x, r) == exec' = [exec EXCEPT ![x] = r]

\* reserve_tunnel found no live socket; the host's address is the tunnel sentinel.
ReserveNoSocket(x, h) ==
    /\ exec[x] = "idle"
    /\ \/ sockets[h] = None
       \/ sockets[h] # None /\ ~open[sockets[h]]
    /\ ExecGo(x, "no_host")
    /\ UNCHANGED <<sockets, connVars, writerVars, link, queue, pending, inflight,
                   next_rid, jobs, sock, cur, rid, mailbox>>

\* Mutant of Loaded: the cap is off by one.
LoadedPastCap(x, s) ==
    /\ cur' = [cur EXCEPT ![x] = inflight[s]]
    /\ ExecGo(x, IF inflight[s] > MAX_INFLIGHT_PER_SOCKET THEN "no_host" ELSE "reserve")

\* try_reserve loads the counter, and gives up at the cap.
Loaded(x, s) ==
    /\ cur' = [cur EXCEPT ![x] = inflight[s]]
    /\ ExecGo(x, IF inflight[s] >= MAX_INFLIGHT_PER_SOCKET THEN "no_host" ELSE "reserve")

ReserveLoad(x, h) ==
    /\ exec[x] = "idle"
    /\ sockets[h] # None
    /\ open[sockets[h]]
    /\ sock' = [sock EXCEPT ![x] = sockets[h]]
    /\ Loaded(x, sockets[h])
    /\ UNCHANGED <<sockets, connVars, writerVars, link, queue, pending, inflight,
                   next_rid, jobs, rid, mailbox>>

\* Mutant of ReserveCas: a plain store of the loaded value plus one.
ReserveStore(x) ==
    /\ exec[x] = "reserve"
    /\ inflight' = [inflight EXCEPT ![sock[x]] = cur[x] + 1]
    /\ ExecGo(x, "spend")
    /\ UNCHANGED <<sockets, connVars, writerVars, link, queue, pending, next_rid,
                   jobs, sock, cur, rid, mailbox>>

\* The compare-exchange: on success the slot is ours, else load again.
ReserveCas(x) ==
    /\ exec[x] = "reserve"
    /\ \/ /\ inflight[sock[x]] = cur[x]
          /\ inflight' = [inflight EXCEPT ![sock[x]] = @ + 1]
          /\ ExecGo(x, "spend")
          /\ UNCHANGED cur
       \/ /\ inflight[sock[x]] # cur[x]
          /\ Loaded(x, sock[x])
          /\ UNCHANGED inflight
    /\ UNCHANGED <<sockets, connVars, writerVars, link, queue, pending, next_rid,
                   jobs, sock, rid, mailbox>>

\* The spend transaction burned the token.
Spend(x) ==
    /\ exec[x] = "spend"
    /\ ExecGo(x, "dispatch")
    /\ UNCHANGED <<sockets, connVars, writerVars, link, queue, pending, inflight,
                   next_rid, jobs, sock, cur, rid, mailbox>>

\* The handler ends and its InflightGuard drops.
End(x, r) ==
    /\ ExecGo(x, r)
    /\ inflight' = [inflight EXCEPT ![sock[x]] = @ - 1]

\* The spend transaction refused it.
SpendRefused(x) ==
    /\ exec[x] = "spend"
    /\ End(x, "refused")
    /\ UNCHANGED <<sockets, connVars, writerVars, link, queue, pending, next_rid,
                   jobs, sock, cur, rid, mailbox>>

\* fetch_add on next_request_id
RequestId(s) == next_rid[s]

\* dispatch puts a oneshot sender into the pending map.
DispatchInsert(x) ==
    /\ exec[x] = "dispatch"
    /\ next_rid' = [next_rid EXCEPT ![sock[x]] = @ + 1]
    /\ rid' = [rid EXCEPT ![x] = RequestId(sock[x])]
    /\ pending' = [pending EXCEPT ![sock[x]] = @ \cup {<<RequestId(sock[x]), x>>}]
    /\ ExecGo(x, "send")
    /\ UNCHANGED <<sockets, connVars, writerVars, link, queue, inflight, jobs, sock,
                   cur, mailbox>>

\* job_tx.send: waits for room in the channel.
SendOk(x) ==
    /\ exec[x] = "send"
    /\ open[sock[x]]
    /\ Len(queue[sock[x]]) < SEND_QUEUE
    /\ queue' = [queue EXCEPT ![sock[x]] = Append(@, <<rid[x], x>>)]
    /\ ExecGo(x, "wait")
    /\ UNCHANGED <<sockets, connVars, writerVars, link, pending, inflight, next_rid,
                   jobs, sock, cur, rid, mailbox>>

RemovePending(x) ==
    pending' = [pending EXCEPT ![sock[x]] = {p \in @ : p[1] # rid[x]}]

SendClosed(x) ==
    /\ exec[x] = "send"
    /\ ~open[sock[x]]
    /\ RemovePending(x)
    /\ End(x, "upstream")
    /\ UNCHANGED <<sockets, connVars, writerVars, link, queue, next_rid, jobs, sock,
                   cur, rid, mailbox>>

Received(x) ==
    /\ exec[x] = "wait"
    /\ mailbox[x] # None
    /\ End(x, "ok")
    /\ UNCHANGED <<sockets, connVars, writerVars, link, queue, pending, next_rid,
                   jobs, sock, cur, rid, mailbox>>

\* Mutant of TimedOut: no request timeout, only a dropped sender ends the wait.
TimedOutNever(x) ==
    /\ exec[x] = "wait"
    /\ mailbox[x] = None
    /\ <<rid[x], x>> \notin pending[sock[x]]
    /\ RemovePending(x)
    /\ End(x, "upstream")
    /\ UNCHANGED <<sockets, connVars, writerVars, link, queue, next_rid, jobs, sock,
                   cur, rid, mailbox>>

\* Mutant of TimedOut: the pending entry stays.
TimedOutLeaky(x) ==
    /\ exec[x] = "wait"
    /\ mailbox[x] = None
    /\ End(x, "upstream")
    /\ UNCHANGED <<sockets, connVars, writerVars, link, queue, pending, next_rid,
                   jobs, sock, cur, rid, mailbox>>

\* The sender was dropped, or REQUEST_TIMEOUT passed without a response.
TimedOut(x) ==
    /\ exec[x] = "wait"
    /\ mailbox[x] = None
    /\ RemovePending(x)
    /\ End(x, "upstream")
    /\ UNCHANGED <<sockets, connVars, writerVars, link, queue, next_rid, jobs, sock,
                   cur, rid, mailbox>>

\* The client went away at an await point: the handler's future is dropped, the
\* guard with it, and the pending entry stays.
Cancelled(x) ==
    /\ exec[x] \in {"send", "wait"}
    /\ End(x, "cancelled")
    /\ UNCHANGED <<sockets, connVars, writerVars, link, queue, pending, next_rid,
                   jobs, sock, cur, rid, mailbox>>

ExecStep(x) ==
    \/ ReserveCas(x)
    \/ Spend(x)
    \/ SpendRefused(x)
    \/ DispatchInsert(x)
    \/ SendOk(x)
    \/ SendClosed(x)
    \/ Received(x)
    \/ TimedOut(x)

Next ==
    \/ \E s \in Conns : ConnStep(s) \/ WriterStep(s) \/ WriterBreak(s)
    \/ \E s \in Conns, f \in LinkFaults : LinkFault(s, f)
    \/ \E s \in Conns : \E answered \in SUBSET jobs[s] : HostLeaves(s, answered)
    \/ \E s \in Conns, done \in BOOLEAN : \E j \in jobs[s] : HostAnswer(s, j, done)
    \/ \E x \in Tasks, h \in Hosts : ReserveNoSocket(x, h) \/ ReserveLoad(x, h)
    \/ \E x \in Tasks : ExecStep(x) \/ Cancelled(x)

Spec == Init /\ [][Next]_vars

\* The steps of a connection's task that wait for nothing from the peer (AuthOk
\* is a short frame on a connection that has just answered).
ConnRun(s) ==
    \/ Insert(s)
    \/ InsertRefused(s)
    \/ FailOld(s)
    \/ Confirmed(s)
    \/ ConfirmFailed(s)
    \/ writer[s] = "ended" /\ ReaderBreak(s)
    \/ Unregister(s)
    \/ FailOwn(s)
    \/ Leave(s)

\* Runnable tasks run, and timers fire.  Nothing is assumed of the peer: a write
\* to a stalled connection need not end, a job need not be answered, and a
\* connection need not be closed.
FairSpec ==
    /\ Spec
    /\ \A x \in Tasks : WF_vars(ExecStep(x))
    /\ \A s \in Conns : WF_vars(WriterStep(s)) /\ WF_vars(ConnRun(s))

-----------------------------------------------------------------------------
\* Whether a task owns an InflightGuard of the socket.
Holds(x, s) == sock[x] = s /\ exec[x] \in {"spend", "dispatch", "send", "wait"}

\* The in-flight counter is the number of guards alive, and so within its cap:
\* no race of reservations and no exit path, a cancelled handler included,
\* leaks a slot or frees one twice (try_reserve, InflightGuard::drop).
SlotsExact ==
    \A s \in Conns :
        /\ inflight[s] = Cardinality({x \in Tasks : Holds(x, s)})
        /\ inflight[s] <= MAX_INFLIGHT_PER_SOCKET

\* A waiter only ever receives the answer to its own job, even when answers come
\* out of order or after the task that asked has timed out (dispatch, deliver).
Correlated == \A x \in Tasks : mailbox[x] \in {None, x}

\* The directory lists no socket whose task has unregistered, and a socket that
\* serves and was not replaced is listed: a late teardown never removes its
\* successor (insert, remove_if_current).
DirectoryCurrent ==
    /\ \A h \in Hosts : sockets[h] # None =>
          /\ conn[sockets[h]] \in {"fail_old", "confirm", "serving", "unregister"}
          /\ account[sockets[h]] = h
    /\ \A s \in Conns : conn[s] \in {"confirm", "serving"} =>
          \/ sockets[account[s]] = s
          \/ \E c \in Conns : old[c] = s

\* A pending entry belongs to a task that still waits under that id, or to a
\* cancelled one; a timeout or a closed queue leaves none behind (dispatch).
PendingOwned ==
    \A s \in Conns : \A p \in pending[s] :
        \/ /\ exec[p[2]] \in {"send", "wait"}
           /\ sock[p[2]] = s /\ rid[p[2]] = p[1]
        \/ exec[p[2]] = "cancelled"

\* "30 s per-request timeout": an exec that has begun to dispatch ends.
DispatchEnds ==
    \A x \in Tasks : exec[x] \in {"dispatch", "send", "wait"} ~> exec[x] \in ExecReply
=============================================================================
