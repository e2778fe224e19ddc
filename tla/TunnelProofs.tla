---------------------------- MODULE TunnelProofs ----------------------------
(***************************************************************************)
(* Theorems about the reverse tunnel, for every number of connections,     *)
(* exec tasks and hosts and every limit.                                   *)
(***************************************************************************)
EXTENDS Tunnel, FiniteSetTheorems, SequenceTheorems, TLAPS

-----------------------------------------------------------------------------
(* The inductive invariant. *)

\* A handler past reserve_tunnel has a socket, and one about to compare-exchange
\* has seen a counter below the cap.
TaskReady ==
    \A x \in Tasks :
        /\ exec[x] \in {"reserve", "spend", "dispatch", "send", "wait"} =>
              sock[x] \in Conns
        /\ exec[x] = "reserve" => cur[x] < MAX_INFLIGHT_PER_SOCKET

\* A connection that was dialed has an account, one about to fail its
\* predecessor has one, and a busy writer has a job in hand.
ConnReady ==
    \A s \in Conns :
        /\ conn[s] # "new" => account[s] \in Hosts
        /\ conn[s] = "fail_old" => old[s] \in Conns
        /\ conn[s] \in {"new", "handshake", "insert"} => old[s] = None
        /\ writer[s] = "busy" => sending[s] \in Job

\* The task was given a request id (dispatch): its socket and its id are final.
Dispatched(x) == exec[x] \in {"send", "wait", "ok", "upstream", "cancelled"}

\* No two dispatches on a socket share a request id.
IdsUnique ==
    \A x \in Tasks : Dispatched(x) =>
        /\ sock[x] \in Conns
        /\ rid[x] < next_rid[sock[x]]
        /\ \A y \in Tasks : Dispatched(y) /\ sock[y] = sock[x] /\ rid[y] = rid[x] => y = x

\* The job was handed to the task's own socket under the task's own id.
OwnJob(s, j) == Dispatched(j[2]) /\ sock[j[2]] = s /\ rid[j[2]] = j[1]

\* Wherever a job is (queue, writer, host, pending map), it is its task's own.
JobsOwned ==
    \A s \in Conns :
        /\ \A i \in DOMAIN queue[s] : OwnJob(s, queue[s][i])
        /\ writer[s] = "busy" => OwnJob(s, sending[s])
        /\ \A j \in jobs[s] : OwnJob(s, j)
        /\ \A j \in pending[s] : OwnJob(s, j)

\* A oneshot that was used is no longer in a pending map.
MailboxTaken ==
    \A x \in Tasks : mailbox[x] # None =>
        /\ Dispatched(x)
        /\ \A s \in Conns : \A p \in pending[s] : p[2] # x

\* A connection whose AuthOk is still to come is listed as well, or was replaced.
FreshListed ==
    \A s \in Conns : conn[s] \in {"fail_old", "confirm", "serving"} =>
        sockets[account[s]] = s \/ \E c \in Conns : old[c] = s

CountInv == TypeOK /\ TaskReady /\ ConnReady /\ SlotsExact
IdInv == IdsUnique /\ JobsOwned /\ MailboxTaken /\ Correlated /\ PendingOwned
DirInv == FreshListed /\ DirectoryCurrent

-----------------------------------------------------------------------------
(* Who takes a step. *)

\* What of Next is a step of a connection, its writer, its faults or its host.
PeerStep(s) ==
    \/ WriterStep(s) \/ WriterBreak(s)
    \/ \E f \in LinkFaults : LinkFault(s, f)
    \/ \E answered \in SUBSET jobs[s] : HostLeaves(s, answered)
    \/ \E j \in jobs[s], done \in BOOLEAN : HostAnswer(s, j, done)

\* What of Next is a step of an exec handler.
TaskStep(x) ==
    \/ \E h \in Hosts : ReserveNoSocket(x, h) \/ ReserveLoad(x, h)
    \/ ExecStep(x)
    \/ Cancelled(x)

-----------------------------------------------------------------------------
(* Types. *)

LEMMA TunnelInit == Init => CountInv /\ IdInv /\ DirInv
<1> SUFFICES ASSUME Init PROVE CountInv /\ IdInv /\ DirInv
    OBVIOUS
<1>1. TypeOK /\ TaskReady /\ ConnReady
    BY TunnelAssumption DEF Init, TypeOK, TaskReady, ConnReady, Job, ConnPc, WriterPc,
       ExecPc, ExecReply
<1>2. SlotsExact
  <2> SUFFICES ASSUME NEW s \in Conns
               PROVE  /\ inflight[s] = Cardinality({x \in Tasks : Holds(x, s)})
                      /\ inflight[s] <= MAX_INFLIGHT_PER_SOCKET
      BY DEF SlotsExact
  <2>1. {x \in Tasks : Holds(x, s)} = {}
      BY DEF Init, Holds
  <2>2. inflight[s] = 0
      BY DEF Init
  <2> QED BY <2>1, <2>2, FS_EmptySet, TunnelAssumption
<1>3. IdInv
    BY DEF Init, IdInv, IdsUnique, JobsOwned, MailboxTaken, Correlated, PendingOwned,
       Dispatched
<1>4. DirInv
    BY DEF Init, DirInv, FreshListed, DirectoryCurrent
<1> QED BY <1>1, <1>2, <1>3, <1>4 DEF CountInv

\* The steps of handle_socket keep the types.
LEMMA ConnType ==
    ASSUME CountInv, NEW s \in Conns, ConnStep(s)
    PROVE  TypeOK' /\ TaskReady' /\ ConnReady'
<1> USE DEF Go, connVars, writerVars, taskVars, CountInv, TypeOK, TaskReady, ConnReady,
            ConnPc, WriterPc
<1>1. ASSUME NEW h \in Hosts, Connect(s, h) PROVE TypeOK' /\ TaskReady' /\ ConnReady'
    BY <1>1 DEF Connect
<1>2. CASE Authenticated(s)
    BY <1>2 DEF Authenticated
<1>3. CASE HandshakeFailed(s)
    BY <1>3 DEF HandshakeFailed
<1>4. CASE Insert(s)
    BY <1>4 DEF Insert
<1>5. CASE InsertRefused(s)
    BY <1>5 DEF InsertRefused
<1>6. CASE FailOld(s)
    BY <1>6 DEF FailOld
<1>7. CASE Confirmed(s)
    BY <1>7 DEF Confirmed
<1>8. CASE ConfirmFailed(s)
    BY <1>8 DEF ConfirmFailed
<1>9. CASE ReaderBreak(s)
    BY <1>9 DEF ReaderBreak
<1>10. CASE Unregister(s)
    BY <1>10 DEF Unregister
<1>11. CASE FailOwn(s)
    BY <1>11 DEF FailOwn
<1>12. CASE Leave(s)
    BY <1>12 DEF Leave
<1> QED
  BY <1>1, <1>2, <1>3, <1>4, <1>5, <1>6, <1>7, <1>8, <1>9, <1>10, <1>11, <1>12
  DEF ConnStep

\* So do the writer, the connection's faults and the host.
LEMMA PeerType ==
    ASSUME CountInv, NEW s \in Conns,
           PeerStep(s)
    PROVE  TypeOK' /\ TaskReady' /\ ConnReady'
<1> USE DEF connVars, writerVars, taskVars, CountInv, TypeOK, TaskReady, ConnReady,
            ConnPc, WriterPc
<1>1. CASE WriterTake(s)
  <2>1. queue[s] \in Seq(Job) /\ queue[s] # <<>>
      BY <1>1 DEF WriterTake
  <2>2. Head(queue[s]) \in Job /\ Tail(queue[s]) \in Seq(Job)
      BY <2>1, HeadTailProperties
  <2> QED BY <1>1, <2>2 DEF WriterTake
<1>2. CASE WriterSent(s)
    BY <1>2 DEF WriterSent
<1>3. CASE WriterEnd(s)
    BY <1>3 DEF WriterEnd
<1>4. CASE WriterBreak(s)
    BY <1>4 DEF WriterBreak
<1>5. ASSUME NEW f \in LinkFaults, LinkFault(s, f) PROVE TypeOK' /\ TaskReady' /\ ConnReady'
    BY <1>5, TunnelAssumption DEF LinkFault
<1>6. ASSUME NEW a \in SUBSET jobs[s], HostLeaves(s, a)
      PROVE  TypeOK' /\ TaskReady' /\ ConnReady'
    BY <1>6 DEF HostLeaves
<1>7. ASSUME NEW j \in jobs[s], NEW done \in BOOLEAN, HostAnswer(s, j, done)
      PROVE  TypeOK' /\ TaskReady' /\ ConnReady'
  <2>1. j \in Nat \X Tasks
      BY DEF Job
  <2>2. mailbox' \in [Tasks -> Tasks \cup {None}]
      BY <1>7, <2>1 DEF HostAnswer
  <2> QED BY <1>7, <2>2 DEF HostAnswer, AnswersOn
<1> QED BY <1>1, <1>2, <1>3, <1>4, <1>5, <1>6, <1>7 DEF PeerStep, WriterStep

-----------------------------------------------------------------------------
(* Slots.  Holders(s) are the tasks that own a guard of socket s. *)

Holders(s) == {x \in Tasks : Holds(x, s)}

LEMMA HoldersFinite ==
    ASSUME NEW s
    PROVE  IsFiniteSet(Holders(s)) /\ Cardinality(Holders(s)) \in Nat
<1>1. Holders(s) \in SUBSET Tasks
    BY DEF Holders
<1> QED BY <1>1, TunnelAssumption, FS_Subset, FS_CardinalityType

\* A step that neither takes nor frees a guard.
LEMMA SlotsKept ==
    ASSUME SlotsExact, UNCHANGED inflight,
           \A x \in Tasks, s \in Conns : Holds(x, s)' = Holds(x, s)
    PROVE  SlotsExact'
<1> SUFFICES ASSUME NEW s \in Conns
             PROVE  /\ inflight'[s] = Cardinality({x \in Tasks : Holds(x, s)'})
                    /\ inflight'[s] <= MAX_INFLIGHT_PER_SOCKET
    BY DEF SlotsExact
<1>1. {x \in Tasks : Holds(x, s)'} = {x \in Tasks : Holds(x, s)}
    OBVIOUS
<1> QED BY <1>1 DEF SlotsExact

\* A task takes a guard of socket c and counts one.
LEMMA SlotTaken ==
    ASSUME TypeOK, SlotsExact, NEW x \in Tasks, NEW c \in Conns,
           ~Holds(x, c), Holds(x, c)',
           \A y \in Tasks, s \in Conns : y # x \/ s # c => Holds(y, s)' = Holds(y, s),
           inflight[c] < MAX_INFLIGHT_PER_SOCKET,
           inflight' = [inflight EXCEPT ![c] = @ + 1]
    PROVE  SlotsExact'
<1> SUFFICES ASSUME NEW s \in Conns
             PROVE  /\ inflight'[s] = Cardinality({y \in Tasks : Holds(y, s)'})
                    /\ inflight'[s] <= MAX_INFLIGHT_PER_SOCKET
    BY DEF SlotsExact
<1>1. /\ inflight[s] = Cardinality(Holders(s)) /\ inflight[s] \in Nat
      /\ inflight[s] <= MAX_INFLIGHT_PER_SOCKET /\ MAX_INFLIGHT_PER_SOCKET \in Nat
    BY TunnelAssumption DEF SlotsExact, Holders, TypeOK
<1>2. CASE s # c
  <2>1. {y \in Tasks : Holds(y, s)'} = Holders(s)
      BY <1>2 DEF Holders
  <2>2. inflight'[s] = inflight[s]
      BY <1>2 DEF TypeOK
  <2> QED BY <1>1, <2>1, <2>2
<1>3. CASE s = c
  <2>1. {y \in Tasks : Holds(y, s)'} = Holders(s) \cup {x} /\ x \notin Holders(s)
      BY <1>3 DEF Holders
  <2>2. Cardinality(Holders(s) \cup {x}) = Cardinality(Holders(s)) + 1
      BY <2>1, HoldersFinite, FS_AddElement
  <2>3. inflight'[s] = inflight[s] + 1
      BY <1>3 DEF TypeOK
  <2> QED BY <1>1, <1>3, <2>1, <2>2, <2>3, SMTT(30)
<1> QED BY <1>2, <1>3

\* A task's guard of socket c drops and counts one down, from at least one.
LEMMA SlotFreed ==
    ASSUME TypeOK, SlotsExact, NEW x \in Tasks, NEW c \in Conns,
           Holds(x, c), ~Holds(x, c)',
           \A y \in Tasks, s \in Conns : y # x \/ s # c => Holds(y, s)' = Holds(y, s),
           inflight' = [inflight EXCEPT ![c] = @ - 1]
    PROVE  SlotsExact' /\ inflight' \in [Conns -> 0..MAX_INFLIGHT_PER_SOCKET]
<1>1. ASSUME NEW s \in Conns
      PROVE  /\ inflight[s] = Cardinality(Holders(s)) /\ inflight[s] \in Nat
             /\ inflight[s] <= MAX_INFLIGHT_PER_SOCKET /\ MAX_INFLIGHT_PER_SOCKET \in Nat
    BY TunnelAssumption DEF SlotsExact, Holders, TypeOK
<1>2. ASSUME NEW s \in Conns
      PROVE  /\ inflight'[s] = Cardinality({y \in Tasks : Holds(y, s)'})
             /\ inflight'[s] \in 0..MAX_INFLIGHT_PER_SOCKET
  <2>1. CASE s # c
    <3>1. {y \in Tasks : Holds(y, s)'} = Holders(s)
        BY <2>1 DEF Holders
    <3>2. inflight'[s] = inflight[s]
        BY <2>1 DEF TypeOK
    <3> QED BY <1>1, <3>1, <3>2
  <2>2. CASE s = c
    <3>1. {y \in Tasks : Holds(y, s)'} = Holders(s) \ {x} /\ x \in Holders(s)
        BY <2>2 DEF Holders
    <3>2. Cardinality(Holders(s) \ {x}) = Cardinality(Holders(s)) - 1
        BY <3>1, HoldersFinite, FS_RemoveElement
    <3>3. Cardinality(Holders(s) \ {x}) \in Nat
        BY HoldersFinite, FS_RemoveElement, FS_CardinalityType
    <3>4. inflight'[s] = inflight[s] - 1
        BY <2>2 DEF TypeOK
    <3> QED BY <1>1, <3>1, <3>2, <3>3, <3>4
  <2> QED BY <2>1, <2>2
<1>3. SlotsExact'
    BY <1>2, TunnelAssumption DEF SlotsExact
<1>4. inflight' = [s \in Conns |-> inflight'[s]]
    BY DEF TypeOK
<1> QED BY <1>2, <1>3, <1>4

\* The end of a handler, whichever way it ends: InflightGuard::drop.
LEMMA EndFrees ==
    ASSUME CountInv, NEW x \in Tasks, NEW r \in ExecReply,
           exec[x] \in {"spend", "dispatch", "send", "wait"},
           End(x, r), UNCHANGED sock
    PROVE  /\ SlotsExact' /\ inflight' \in [Conns -> 0..MAX_INFLIGHT_PER_SOCKET]
           /\ exec' \in [Tasks -> ExecPc]
<1>1. sock[x] \in Conns
    BY DEF CountInv, TaskReady
<1>2. /\ exec' \in [Tasks -> ExecPc]
      /\ exec'[x] = r /\ \A y \in Tasks : y # x => exec'[y] = exec[y]
    BY DEF CountInv, TypeOK, End, ExecGo, ExecPc
<1>3. Holds(x, sock[x]) /\ ~Holds(x, sock[x])'
    BY <1>2 DEF Holds, ExecReply
<1>4. \A y \in Tasks, s \in Conns : y # x \/ s # sock[x] => Holds(y, s)' = Holds(y, s)
    BY <1>2 DEF Holds, ExecReply
<1>5. inflight' = [inflight EXCEPT ![sock[x]] = @ - 1]
    BY DEF End
<1> QED BY <1>1, <1>2, <1>3, <1>4, <1>5, SlotFreed DEF CountInv

\* The steps of the connections, their writers and the hosts touch no guard.
LEMMA PeerSlots ==
    ASSUME CountInv, UNCHANGED <<exec, sock, inflight>>
    PROVE  SlotsExact'
BY SlotsKept DEF CountInv, Holds

\* Every step of an exec handler keeps the types and the count.
LEMMA ExecCount ==
    ASSUME CountInv, NEW x \in Tasks,
           TaskStep(x)
    PROVE  CountInv'
<1> USE DEF connVars, writerVars, taskVars
<1>1. ASSUME NEW h \in Hosts, ReserveNoSocket(x, h) PROVE CountInv'
  <2>1. TypeOK' /\ TaskReady' /\ ConnReady'
      BY <1>1 DEF ReserveNoSocket, ExecGo, CountInv, TypeOK, TaskReady, ConnReady, ExecPc,
         ExecReply
  <2>2. \A y \in Tasks, s \in Conns : Holds(y, s)' = Holds(y, s)
      BY <1>1 DEF ReserveNoSocket, ExecGo, CountInv, TypeOK, Holds
  <2> QED BY <1>1, <2>1, <2>2, SlotsKept DEF CountInv, ReserveNoSocket
<1>2. ASSUME NEW h \in Hosts, ReserveLoad(x, h) PROVE CountInv'
  <2>1. sockets[h] \in Conns /\ inflight[sockets[h]] \in 0..MAX_INFLIGHT_PER_SOCKET
      BY <1>2 DEF ReserveLoad, CountInv, TypeOK
  <2>2. TypeOK' /\ TaskReady' /\ ConnReady'
      BY <1>2, <2>1, TunnelAssumption DEF ReserveLoad, Loaded, ExecGo, CountInv, TypeOK,
         TaskReady, ConnReady, ExecPc, ExecReply
  <2>3. \A y \in Tasks, s \in Conns : Holds(y, s)' = Holds(y, s)
      BY <1>2 DEF ReserveLoad, Loaded, ExecGo, CountInv, TypeOK, Holds
  <2> QED BY <1>2, <2>2, <2>3, SlotsKept DEF CountInv, ReserveLoad
<1>3. CASE ReserveCas(x)
  <2>1. /\ sock[x] \in Conns /\ inflight[sock[x]] \in 0..MAX_INFLIGHT_PER_SOCKET
        /\ cur[x] < MAX_INFLIGHT_PER_SOCKET
      BY <1>3 DEF ReserveCas, CountInv, TypeOK, TaskReady
  <2>2. CASE inflight[sock[x]] = cur[x]
    <3>1. /\ inflight' = [inflight EXCEPT ![sock[x]] = @ + 1]
          /\ exec' = [exec EXCEPT ![x] = "spend"]
        BY <1>3, <2>2 DEF ReserveCas, ExecGo
    <3>2. TypeOK' /\ TaskReady' /\ ConnReady'
        BY <1>3, <2>1, <2>2, <3>1, TunnelAssumption DEF ReserveCas, CountInv, TypeOK,
           TaskReady, ConnReady, ExecPc
    <3>3. /\ ~Holds(x, sock[x]) /\ Holds(x, sock[x])'
          /\ \A y \in Tasks, s \in Conns :
                y # x \/ s # sock[x] => Holds(y, s)' = Holds(y, s)
        BY <1>3, <3>1 DEF ReserveCas, CountInv, TypeOK, Holds
    <3>4. PICK c \in Conns : c = sock[x] /\ c = sock'[x]
        BY <1>3, <2>1 DEF ReserveCas
    <3>5. SlotsExact'
      <4>1. /\ inflight[c] < MAX_INFLIGHT_PER_SOCKET
            /\ inflight' = [inflight EXCEPT ![c] = @ + 1]
          BY <2>1, <2>2, <3>1, <3>4
      <4>2. /\ ~Holds(x, c) /\ Holds(x, c)'
            /\ \A y \in Tasks, s \in Conns : y # x \/ s # c => Holds(y, s)' = Holds(y, s)
          BY <3>3, <3>4
      <4> QED BY <4>1, <4>2, SlotTaken DEF CountInv
    <3> QED BY <3>2, <3>5 DEF CountInv
  <2>3. CASE inflight[sock[x]] # cur[x]
    <3>1. Loaded(x, sock[x]) /\ UNCHANGED inflight
        BY <1>3, <2>3 DEF ReserveCas
    <3>2. TypeOK' /\ TaskReady' /\ ConnReady'
        BY <1>3, <2>1, <3>1, TunnelAssumption DEF ReserveCas, Loaded, ExecGo, CountInv,
           TypeOK, TaskReady, ConnReady, ExecPc, ExecReply
    <3>3. \A y \in Tasks, s \in Conns : Holds(y, s)' = Holds(y, s)
        BY <1>3, <3>1 DEF ReserveCas, Loaded, ExecGo, CountInv, TypeOK, Holds
    <3> QED BY <3>1, <3>2, <3>3, SlotsKept DEF CountInv
  <2> QED BY <2>2, <2>3
<1>4. CASE Spend(x)
  <2>1. TypeOK' /\ TaskReady' /\ ConnReady'
      BY <1>4 DEF Spend, ExecGo, CountInv, TypeOK, TaskReady, ConnReady, ExecPc
  <2>2. \A y \in Tasks, s \in Conns : Holds(y, s)' = Holds(y, s)
      BY <1>4 DEF Spend, ExecGo, CountInv, TypeOK, Holds
  <2> QED BY <1>4, <2>1, <2>2, SlotsKept DEF CountInv, Spend
<1>5. CASE DispatchInsert(x)
  <2>1. sock[x] \in Conns /\ next_rid[sock[x]] \in Nat
      BY <1>5 DEF DispatchInsert, CountInv, TypeOK, TaskReady
  <2>2. <<next_rid[sock[x]], x>> \in Job
      BY <2>1 DEF Job
  <2>3. TypeOK' /\ TaskReady' /\ ConnReady'
    <3>1. next_rid' \in [Conns -> Nat] /\ rid' \in [Tasks -> Nat]
        BY <1>5, <2>1 DEF DispatchInsert, RequestId, CountInv, TypeOK
    <3>2. pending' \in [Conns -> SUBSET Job]
      <4>1. pending' = [pending EXCEPT ![sock[x]] = @ \cup {<<next_rid[sock[x]], x>>}]
          BY <1>5 DEF DispatchInsert, RequestId
      <4> QED BY <2>1, <2>2, <4>1 DEF CountInv, TypeOK
    <3>3. exec' \in [Tasks -> ExecPc]
        BY <1>5 DEF DispatchInsert, ExecGo, CountInv, TypeOK, ExecPc
    <3> QED BY <1>5, <2>1, <3>1, <3>2, <3>3 DEF DispatchInsert, ExecGo, CountInv, TypeOK, TaskReady,
            ConnReady
  <2>4. \A y \in Tasks, s \in Conns : Holds(y, s)' = Holds(y, s)
      BY <1>5 DEF DispatchInsert, ExecGo, CountInv, TypeOK, Holds
  <2> QED BY <1>5, <2>3, <2>4, SlotsKept DEF CountInv, DispatchInsert
<1>6. CASE SendOk(x)
  <2>1. sock[x] \in Conns /\ <<rid[x], x>> \in Job
      BY <1>6 DEF SendOk, CountInv, TypeOK, TaskReady, Job
  <2>2. Append(queue[sock[x]], <<rid[x], x>>) \in Seq(Job)
      BY <2>1, AppendProperties DEF CountInv, TypeOK
  <2>3. TypeOK' /\ TaskReady' /\ ConnReady'
      BY <1>6, <2>1, <2>2 DEF SendOk, ExecGo, CountInv, TypeOK, TaskReady, ConnReady, ExecPc
  <2>4. \A y \in Tasks, s \in Conns : Holds(y, s)' = Holds(y, s)
      BY <1>6 DEF SendOk, ExecGo, CountInv, TypeOK, Holds
  <2> QED BY <1>6, <2>3, <2>4, SlotsKept DEF CountInv, SendOk
<1>7. ASSUME NEW r \in ExecReply, End(x, r), UNCHANGED sock,
             exec[x] \in {"spend", "dispatch", "send", "wait"},
             RemovePending(x) \/ UNCHANGED pending,
             UNCHANGED <<sockets, connVars, writerVars, link, queue, next_rid, jobs, cur,
                         rid, mailbox>>
      PROVE  CountInv'
  <2>1. /\ SlotsExact' /\ inflight' \in [Conns -> 0..MAX_INFLIGHT_PER_SOCKET]
        /\ exec' \in [Tasks -> ExecPc]
      BY <1>7, EndFrees
  <2>2. pending' \in [Conns -> SUBSET Job]
    <3>1. sock[x] \in Conns /\ pending \in [Conns -> SUBSET Job]
        BY <1>7 DEF CountInv, TypeOK, TaskReady
    <3>2. CASE UNCHANGED pending
        BY <3>1, <3>2
    <3>3. CASE RemovePending(x)
        BY <3>1, <3>3 DEF RemovePending
    <3> QED BY <1>7, <3>2, <3>3
  <2>3. TypeOK' /\ ConnReady'
      BY <1>7, <2>1, <2>2 DEF CountInv, TypeOK, ConnReady
  <2>4. TaskReady'
      BY <1>7 DEF End, ExecGo, CountInv, TypeOK, TaskReady, ExecReply
  <2> QED BY <2>1, <2>3, <2>4 DEF CountInv
<1>8. CASE SpendRefused(x)
    BY <1>7, <1>8 DEF SpendRefused, ExecReply
<1>9. CASE SendClosed(x)
    BY <1>7, <1>9 DEF SendClosed, ExecReply
<1>10. CASE Received(x)
    BY <1>7, <1>10 DEF Received, ExecReply
<1>11. CASE TimedOut(x)
    BY <1>7, <1>11 DEF TimedOut, ExecReply
<1>12. CASE Cancelled(x)
    BY <1>7, <1>12 DEF Cancelled, ExecReply
<1> QED
  BY <1>1, <1>2, <1>3, <1>4, <1>5, <1>6, <1>8, <1>9, <1>10, <1>11, <1>12
  DEF TaskStep, ExecStep

LEMMA NextCases ==
    ASSUME [Next]_vars
    PROVE  \/ \E s \in Conns : ConnStep(s) \/ PeerStep(s)
           \/ \E x \in Tasks : TaskStep(x)
           \/ UNCHANGED vars
BY DEF Next, PeerStep, TaskStep

LEMMA PeerFrame ==
    ASSUME NEW s \in Conns, ConnStep(s) \/ PeerStep(s)
    PROVE  UNCHANGED <<exec, sock, cur, rid, inflight, next_rid>>
BY DEF ConnStep, Connect, Authenticated, HandshakeFailed, Insert, InsertRefused, FailOld,
   Confirmed, ConfirmFailed, ReaderBreak, Unregister, FailOwn, Leave, PeerStep, WriterStep,
   WriterTake, WriterSent, WriterEnd, WriterBreak, LinkFault, HostLeaves, HostAnswer, taskVars

LEMMA CountStep == CountInv /\ [Next]_vars => CountInv'
<1> SUFFICES ASSUME CountInv, [Next]_vars PROVE CountInv'
    OBVIOUS
<1>1. ASSUME NEW s \in Conns, ConnStep(s) \/ PeerStep(s) PROVE CountInv'
  <2>1. TypeOK' /\ TaskReady' /\ ConnReady'
      BY <1>1, ConnType, PeerType
  <2>2. SlotsExact'
      BY <1>1, PeerFrame, PeerSlots
  <2> QED BY <2>1, <2>2 DEF CountInv
<1>2. ASSUME NEW x \in Tasks, TaskStep(x) PROVE CountInv'
    BY <1>2, ExecCount
<1>3. CASE UNCHANGED vars
  <2>1. SlotsExact'
      BY <1>3, PeerSlots DEF vars, taskVars
  <2> QED BY <1>3, <2>1 DEF vars, connVars, writerVars, taskVars, CountInv, TypeOK, TaskReady,
          ConnReady
<1> QED BY <1>1, <1>2, <1>3, NextCases

-----------------------------------------------------------------------------
(* Request ids. *)

\* Which parts of the invariant a step keeps when it gives no task an id and fills
\* no pending map.
LEMMA IdsKept ==
    ASSUME IdInv, UNCHANGED <<exec, sock, rid, next_rid>>,
           \A s \in Conns : pending'[s] \subseteq pending[s]
    PROVE  /\ IdsUnique' /\ PendingOwned'
           /\ UNCHANGED mailbox => MailboxTaken' /\ Correlated'
<1>1. IdsUnique'
    BY DEF IdInv, IdsUnique, Dispatched
<1>2. PendingOwned'
    BY DEF IdInv, PendingOwned
<1>3. UNCHANGED mailbox => MailboxTaken' /\ Correlated'
    BY DEF IdInv, MailboxTaken, Correlated, Dispatched
<1> QED BY <1>1, <1>2, <1>3

\* The steps of handle_socket at most empty a pending map.
LEMMA ConnIds ==
    ASSUME CountInv, IdInv, NEW s \in Conns, ConnStep(s)
    PROVE  IdInv'
<1>1. /\ UNCHANGED <<queue, sending, jobs, exec, sock, rid, next_rid, mailbox>>
      /\ \/ UNCHANGED pending
         \/ pending' = [pending EXCEPT ![old[s]] = {}]
         \/ pending' = [pending EXCEPT ![s] = {}]
    BY DEF ConnStep, Connect, Authenticated, HandshakeFailed, Insert, InsertRefused, FailOld,
       Confirmed, ConfirmFailed, ReaderBreak, Unregister, FailOwn, Leave, writerVars, taskVars
<1>2. \A c \in Conns : pending'[c] \subseteq pending[c]
    BY <1>1 DEF CountInv, TypeOK
<1>3. \A c \in Conns : writer'[c] = "busy" => writer[c] = "busy"
    BY DEF CountInv, TypeOK, ConnStep, Connect, Authenticated, HandshakeFailed, Insert,
       InsertRefused, FailOld, Confirmed, ConfirmFailed, ReaderBreak, Unregister, FailOwn,
       Leave, writerVars
<1>4. JobsOwned'
    BY <1>1, <1>2, <1>3 DEF IdInv, JobsOwned, OwnJob, Dispatched
<1> QED BY <1>1, <1>2, <1>4, IdsKept DEF IdInv

\* A job moves from the queue to the writer, to the host and back as an answer,
\* and reaches the one waiter whose id it carries.
LEMMA PeerIds ==
    ASSUME CountInv, IdInv, NEW s \in Conns, PeerStep(s)
    PROVE  IdInv'
<1> USE DEF connVars, writerVars, taskVars
<1>1. UNCHANGED <<exec, sock, rid, next_rid>>
    BY PeerFrame
<1>3. ASSUME UNCHANGED <<pending, mailbox>>, JobsOwned' PROVE IdInv'
    BY <1>1, <1>3, IdsKept DEF IdInv
<1>4. CASE WriterTake(s)
  <2>1. queue[s] \in Seq(Job) /\ queue[s] # <<>>
      BY <1>4 DEF WriterTake, CountInv, TypeOK
  <2>2. /\ Head(queue[s]) = queue[s][1] /\ 1 \in DOMAIN queue[s]
        /\ \A i \in DOMAIN Tail(queue[s]) :
              i + 1 \in DOMAIN queue[s] /\ Tail(queue[s])[i] = queue[s][i + 1]
      BY <2>1
  <2>3. /\ sending'[s] = queue[s][1] /\ queue'[s] = Tail(queue[s])
        /\ \A c \in Conns : c # s => /\ sending'[c] = sending[c] /\ queue'[c] = queue[c]
                                    /\ writer'[c] = writer[c]
      BY <1>4, <2>2 DEF WriterTake, CountInv, TypeOK
  <2>4. ASSUME NEW c \in Conns, NEW i \in DOMAIN queue'[c] PROVE OwnJob(c, queue[c][i])'
    <3>1. CASE c = s
      <4>1. i + 1 \in DOMAIN queue[s] /\ queue'[c][i] = queue[s][i + 1]
          BY <2>2, <2>3, <2>4, <3>1
      <4>2. OwnJob(s, queue[s][i + 1])
          BY <4>1 DEF IdInv, JobsOwned
      <4> QED BY <1>1, <3>1, <4>1, <4>2 DEF OwnJob, Dispatched
    <3>2. CASE c # s
        BY <1>1, <2>3, <2>4, <3>2 DEF IdInv, JobsOwned, OwnJob, Dispatched
    <3> QED BY <3>1, <3>2
  <2>5. ASSUME NEW c \in Conns, writer'[c] = "busy" PROVE OwnJob(c, sending[c])'
      BY <1>1, <2>2, <2>3, <2>5 DEF IdInv, JobsOwned, OwnJob, Dispatched
  <2>6. UNCHANGED <<jobs, pending, mailbox>>
      BY <1>4 DEF WriterTake
  <2>7. JobsOwned'
      BY <1>1, <2>4, <2>5, <2>6 DEF IdInv, JobsOwned, OwnJob, Dispatched
  <2> QED BY <1>3, <2>6, <2>7
<1>5. CASE WriterSent(s)
  <2>1. UNCHANGED <<queue, pending, mailbox>>
      BY <1>5 DEF WriterSent
  <2>2. \A c \in Conns : writer'[c] = "busy" =>
            writer[c] = "busy" /\ sending'[c] = sending[c]
      BY <1>5 DEF WriterSent, CountInv, TypeOK
  <2>3. ASSUME NEW c \in Conns, NEW j \in jobs'[c] PROVE OwnJob(c, j)
    <3>1. \/ j \in jobs[c]
          \/ j = sending[s] /\ c = s
        BY <1>5, <2>3 DEF WriterSent, CountInv, TypeOK
    <3>2. writer[s] = "busy"
        BY <1>5 DEF WriterSent
    <3> QED BY <3>1, <3>2 DEF IdInv, JobsOwned
  <2>4. JobsOwned'
      BY <1>1, <2>1, <2>2, <2>3 DEF IdInv, JobsOwned, OwnJob, Dispatched
  <2> QED BY <1>3, <2>1, <2>4
<1>6. CASE WriterBreak(s) \/ WriterEnd(s)
  <2>1. UNCHANGED <<queue, pending, jobs, mailbox>>
      BY <1>6 DEF WriterBreak, WriterEnd
  <2>2. \A c \in Conns : writer'[c] = "busy" =>
            writer[c] = "busy" /\ sending'[c] = sending[c]
      BY <1>6 DEF WriterBreak, WriterEnd, CountInv, TypeOK
  <2>3. JobsOwned'
      BY <1>1, <2>1, <2>2 DEF IdInv, JobsOwned, OwnJob, Dispatched
  <2> QED BY <1>3, <2>1, <2>3
<1>7. ASSUME NEW f \in LinkFaults, LinkFault(s, f) PROVE IdInv'
  <2>1. UNCHANGED <<queue, sending, writer, jobs, pending, mailbox>>
      BY <1>7 DEF LinkFault
  <2>2. JobsOwned'
      BY <1>1, <2>1 DEF IdInv, JobsOwned, OwnJob, Dispatched
  <2> QED BY <1>3, <2>1, <2>2
<1>8. ASSUME NEW a \in SUBSET jobs[s], HostLeaves(s, a) PROVE IdInv'
  <2>1. UNCHANGED <<queue, sending, writer, pending, mailbox>>
      BY <1>8 DEF HostLeaves
  <2>2. \A c \in Conns : jobs'[c] \subseteq jobs[c]
      BY <1>8 DEF HostLeaves, CountInv, TypeOK
  <2>3. JobsOwned'
      BY <1>1, <2>1, <2>2 DEF IdInv, JobsOwned, OwnJob, Dispatched
  <2> QED BY <1>3, <2>1, <2>3
<1>9. ASSUME NEW j \in jobs[s], NEW done \in BOOLEAN, HostAnswer(s, j, done) PROVE IdInv'
  <2>1. UNCHANGED <<queue, sending, writer>>
      BY <1>9 DEF HostAnswer
  <2>2. /\ pending'[s] = {p \in pending[s] : p[1] # j[1]}
        /\ \A c \in Conns : jobs'[c] \subseteq jobs[c] /\ pending'[c] \subseteq pending[c]
      BY <1>9 DEF HostAnswer, AnswersOn, CountInv, TypeOK
  <2>3. JobsOwned'
      BY <1>1, <2>1, <2>2 DEF IdInv, JobsOwned, OwnJob, Dispatched
  <2>4. ASSUME NEW x \in Tasks
        PROVE  \/ mailbox'[x] = mailbox[x]
               \/ mailbox'[x] = j[2] /\ <<j[1], x>> \in pending[s]
      BY <1>9 DEF HostAnswer, AnswersOn
  <2>5. ASSUME NEW x \in Tasks, <<j[1], x>> \in pending[s]
        PROVE  x = j[2] /\ sock[x] = s /\ rid[x] = j[1] /\ Dispatched(x)
    <3>1. OwnJob(s, <<j[1], x>>) /\ OwnJob(s, j)
        BY <2>5 DEF IdInv, JobsOwned
    <3>2. j[2] \in Tasks
        BY DEF CountInv, TypeOK, Job
    <3> QED BY <3>1, <3>2 DEF OwnJob, IdInv, IdsUnique
  <2>6. Correlated'
      BY <2>4, <2>5 DEF IdInv, Correlated
  <2>7. ASSUME NEW x \in Tasks, mailbox'[x] # None,
               NEW c \in Conns, NEW p \in pending'[c]
        PROVE  Dispatched(x)' /\ p[2] # x
    <3>1. p \in pending[c]
        BY <2>2
    <3>2. CASE mailbox'[x] = mailbox[x]
        BY <1>1, <2>7, <3>1, <3>2 DEF IdInv, MailboxTaken, Dispatched
    <3>3. CASE <<j[1], x>> \in pending[s]
      <4>1. OwnJob(c, p)
          BY <3>1 DEF IdInv, JobsOwned
      <4>2. p[2] = x => c = s /\ p[1] = j[1]
          BY <2>5, <3>3, <4>1 DEF OwnJob
      <4> QED BY <1>1, <2>2, <2>5, <2>7, <3>3, <4>2 DEF Dispatched
    <3> QED BY <2>4, <3>2, <3>3
  <2>8. ASSUME NEW x \in Tasks, mailbox'[x] # None PROVE Dispatched(x)'
      BY <1>1, <2>4, <2>5, <2>8 DEF IdInv, MailboxTaken, Dispatched
  <2>9. MailboxTaken'
      BY <2>7, <2>8 DEF MailboxTaken
  <2> QED BY <1>1, <2>2, <2>3, <2>6, <2>9, IdsKept DEF IdInv
<1> QED BY <1>4, <1>5, <1>6, <1>7, <1>8, <1>9 DEF PeerStep, WriterStep

\* A step of a handler that dispatches nothing keeps every job with its owner and
\* every id unique.
LEMMA OwnersKept ==
    ASSUME CountInv, IdInv,
           \A y \in Tasks : Dispatched(y)' = Dispatched(y),
           \A y \in Tasks : Dispatched(y) => sock'[y] = sock[y] /\ rid'[y] = rid[y],
           UNCHANGED <<next_rid, sending, writer, jobs, mailbox>>,
           \A s \in Conns : pending'[s] \subseteq pending[s]
    PROVE  /\ IdsUnique' /\ MailboxTaken' /\ Correlated'
           /\ UNCHANGED queue => JobsOwned'
<1>1. IdsUnique'
    BY DEF IdInv, IdsUnique
<1>2. MailboxTaken' /\ Correlated'
    BY DEF IdInv, MailboxTaken, Correlated
<1>3. ASSUME NEW s \in Conns, NEW j \in Job, OwnJob(s, j) PROVE OwnJob(s, j)'
    BY <1>3 DEF OwnJob, Job
<1>4. ASSUME UNCHANGED queue PROVE JobsOwned'
  <2> SUFFICES ASSUME NEW s \in Conns
               PROVE  /\ \A i \in DOMAIN queue[s] : OwnJob(s, queue[s][i])'
                      /\ writer[s] = "busy" => OwnJob(s, sending[s])'
                      /\ \A j \in jobs[s] : OwnJob(s, j)'
                      /\ \A j \in pending'[s] : OwnJob(s, j)'
      BY <1>4 DEF JobsOwned
  <2>1. ASSUME NEW i \in DOMAIN queue[s] PROVE OwnJob(s, queue[s][i])'
    <3>1. queue[s][i] \in Job /\ OwnJob(s, queue[s][i])
        BY <2>1, ElementOfSeq DEF IdInv, JobsOwned, CountInv, TypeOK
    <3> QED BY <1>4, <3>1 DEF OwnJob, Job
  <2>2. ASSUME writer[s] = "busy" PROVE OwnJob(s, sending[s])'
    <3>1. sending[s] \in Job /\ OwnJob(s, sending[s])
        BY <2>2 DEF IdInv, JobsOwned, CountInv, ConnReady
    <3> QED BY <3>1 DEF OwnJob, Job
  <2>3. ASSUME NEW j \in jobs[s] \cup pending'[s] PROVE OwnJob(s, j)'
      BY <1>3, <2>3 DEF IdInv, JobsOwned, CountInv, TypeOK
  <2> QED BY <2>1, <2>2, <2>3
<1> QED BY <1>1, <1>2, <1>3, <1>4

\* Before its dispatch a task owns no pending entry.
LEMMA NotPending ==
    ASSUME CountInv, IdInv, NEW x \in Tasks, ~Dispatched(x),
           NEW s \in Conns, NEW p \in pending[s]
    PROVE  p[2] # x /\ p[2] \in Tasks
BY DEF CountInv, TypeOK, Job, IdInv, JobsOwned, OwnJob

LEMMA TaskIds ==
    ASSUME CountInv, IdInv, NEW x \in Tasks, TaskStep(x)
    PROVE  IdInv'
<1> USE DEF connVars, writerVars, taskVars
<1>1. exec \in [Tasks -> ExecPc] /\ sock \in [Tasks -> Conns \cup {None}]
      /\ rid \in [Tasks -> Nat]
    BY DEF CountInv, TypeOK
\* Steps before the dispatch.
<1>2. ASSUME ~Dispatched(x), ~Dispatched(x)',
             \A y \in Tasks : y # x => exec'[y] = exec[y] /\ sock'[y] = sock[y],
             UNCHANGED <<rid, next_rid, sending, writer, jobs, mailbox, pending, queue>>
      PROVE  IdInv'
  <2>1. \A y \in Tasks : Dispatched(y)' = Dispatched(y)
      BY <1>2 DEF Dispatched
  <2>2. \A y \in Tasks : Dispatched(y) => sock'[y] = sock[y] /\ rid'[y] = rid[y]
      BY <1>2
  <2>3. PendingOwned'
      BY <1>2, NotPending DEF IdInv, PendingOwned
  <2> QED BY <1>2, <2>1, <2>2, <2>3, OwnersKept DEF IdInv
<1>3. ASSUME NEW h \in Hosts, ReserveNoSocket(x, h) PROVE IdInv'
    BY <1>1, <1>2, <1>3 DEF ReserveNoSocket, ExecGo, Dispatched
<1>4. ASSUME NEW h \in Hosts, ReserveLoad(x, h) PROVE IdInv'
    BY <1>1, <1>2, <1>4 DEF ReserveLoad, Loaded, ExecGo, Dispatched
<1>5. CASE ReserveCas(x)
    BY <1>1, <1>2, <1>5 DEF ReserveCas, Loaded, ExecGo, Dispatched
<1>6. CASE Spend(x)
    BY <1>1, <1>2, <1>6 DEF Spend, ExecGo, Dispatched
<1>7. CASE SpendRefused(x)
    BY <1>1, <1>2, <1>7 DEF SpendRefused, End, ExecGo, Dispatched
<1>8. CASE DispatchInsert(x)
  <2> DEFINE c == sock[x]
             n == next_rid[c]
  <2>1. /\ c \in Conns /\ n \in Nat /\ exec[x] = "dispatch" /\ ~Dispatched(x)
      BY <1>8 DEF DispatchInsert, CountInv, TypeOK, TaskReady, Dispatched
  <2>2. /\ exec'[x] = "send" /\ rid'[x] = n /\ next_rid'[c] = n + 1
        /\ \A y \in Tasks : y # x => exec'[y] = exec[y] /\ rid'[y] = rid[y]
        /\ \A s \in Conns : s # c => next_rid'[s] = next_rid[s]
        /\ UNCHANGED <<sock, queue, sending, writer, jobs, mailbox>>
      BY <1>8, <2>1 DEF DispatchInsert, RequestId, ExecGo, CountInv, TypeOK
  <2>3. /\ pending'[c] = pending[c] \cup {<<n, x>>}
        /\ \A s \in Conns : s # c => pending'[s] = pending[s]
    <3>1. pending' = [pending EXCEPT ![c] = @ \cup {<<n, x>>}]
        BY <1>8 DEF DispatchInsert, RequestId
    <3> QED BY <2>1, <3>1 DEF CountInv, TypeOK
  <2>4. Dispatched(x)' /\ \A y \in Tasks : y # x => Dispatched(y)' = Dispatched(y)
      BY <2>2 DEF Dispatched
  <2>5. ASSUME NEW y \in Tasks, Dispatched(y)
        PROVE  y # x /\ sock[y] \in Conns /\ rid[y] < next_rid[sock[y]]
      BY <2>1, <2>5 DEF IdInv, IdsUnique
  <2>6. IdsUnique'
    <3>1. ASSUME NEW y \in Tasks, Dispatched(y)'
          PROVE  sock'[y] \in Conns /\ rid'[y] < next_rid'[sock'[y]]
      <4>1. CASE y = x
          BY <2>1, <2>2, <4>1
      <4>2. CASE y # x
        <5>1. rid[y] < next_rid[sock[y]] /\ sock[y] \in Conns /\ rid[y] \in Nat
              /\ next_rid[sock[y]] \in Nat
            BY <1>1, <2>4, <2>5, <3>1, <4>2 DEF CountInv, TypeOK
        <5> QED BY <2>1, <2>2, <4>2, <5>1
      <4> QED BY <4>1, <4>2
    <3>2. ASSUME NEW y \in Tasks, NEW z \in Tasks, Dispatched(y)', Dispatched(z)',
                 sock'[z] = sock'[y], rid'[z] = rid'[y]
          PROVE  z = y
      <4>1. ASSUME NEW w \in Tasks, w # x, Dispatched(w)', sock[w] = c PROVE rid'[w] # n
          BY <1>1, <2>1, <2>2, <2>4, <2>5, <4>1
      <4>2. CASE y = x \/ z = x
          BY <2>2, <3>2, <4>1, <4>2
      <4>3. CASE y # x /\ z # x
          BY <2>2, <2>4, <3>2, <4>3 DEF IdInv, IdsUnique
      <4> QED BY <4>2, <4>3
    <3> QED BY <3>1, <3>2 DEF IdsUnique
  <2>7. ASSUME NEW s \in Conns, NEW j \in Job, OwnJob(s, j) PROVE OwnJob(s, j)' /\ j[2] # x
      BY <2>1, <2>2, <2>4, <2>7 DEF OwnJob, Job
  <2>8. JobsOwned'
    <3> SUFFICES ASSUME NEW s \in Conns
                 PROVE  /\ \A i \in DOMAIN queue[s] : OwnJob(s, queue[s][i])'
                        /\ writer[s] = "busy" => OwnJob(s, sending[s])'
                        /\ \A j \in jobs[s] : OwnJob(s, j)'
                        /\ \A j \in pending'[s] : OwnJob(s, j)'
        BY <2>2 DEF JobsOwned
    <3>1. ASSUME NEW i \in DOMAIN queue[s] PROVE OwnJob(s, queue[s][i])'
      <4>1. PICK j \in Job : j = queue[s][i]
          BY <3>1, ElementOfSeq DEF CountInv, TypeOK
      <4>2. OwnJob(s, j)
          BY <4>1 DEF IdInv, JobsOwned
      <4> QED BY <2>2, <2>7, <4>1, <4>2 DEF OwnJob
    <3>2. ASSUME writer[s] = "busy" PROVE OwnJob(s, sending[s])'
      <4>1. PICK j \in Job : j = sending[s]
          BY <3>2 DEF CountInv, ConnReady
      <4>2. OwnJob(s, j)
          BY <3>2, <4>1 DEF IdInv, JobsOwned
      <4> QED BY <2>2, <2>7, <4>1, <4>2 DEF OwnJob
    <3>3. ASSUME NEW j \in jobs[s] \cup pending[s] PROVE OwnJob(s, j)'
        BY <2>7, <3>3 DEF IdInv, JobsOwned, CountInv, TypeOK
    <3>4. ASSUME NEW j \in pending'[s], j = <<n, x>>, s = c PROVE OwnJob(s, j)'
        BY <2>2, <2>4, <3>4 DEF OwnJob
    <3> QED BY <2>3, <3>1, <3>2, <3>3, <3>4
  <2>9. MailboxTaken' /\ Correlated'
    <3>1. mailbox[x] = None
        BY <2>1 DEF IdInv, MailboxTaken
    <3> QED BY <2>2, <2>3, <2>4, <3>1 DEF IdInv, MailboxTaken, Correlated
  <2>10. PendingOwned'
    <3> SUFFICES ASSUME NEW s \in Conns, NEW p \in pending'[s]
                 PROVE  \/ /\ exec'[p[2]] \in {"send", "wait"}
                           /\ sock'[p[2]] = s /\ rid'[p[2]] = p[1]
                        \/ exec'[p[2]] = "cancelled"
        BY DEF PendingOwned
    <3>1. CASE p \in pending[s]
        BY <2>1, <2>2, <3>1, NotPending DEF IdInv, PendingOwned
    <3>2. CASE p = <<n, x>> /\ s = c
        BY <2>2, <3>2
    <3> QED BY <2>3, <3>1, <3>2
  <2> QED BY <2>6, <2>8, <2>9, <2>10 DEF IdInv
\* Steps of a dispatched task.
<1>9. ASSUME Dispatched(x), Dispatched(x)',
             \A y \in Tasks : y # x => exec'[y] = exec[y],
             UNCHANGED <<sock, rid, next_rid, sending, writer, jobs, mailbox>>,
             \A s \in Conns : pending'[s] \subseteq pending[s],
             \/ exec'[x] = "wait" /\ exec[x] = "send"
             \/ exec'[x] = "cancelled"
             \/ \A s \in Conns : \A p \in pending'[s] : p[2] # x
      PROVE  /\ IdsUnique' /\ MailboxTaken' /\ Correlated' /\ PendingOwned'
             /\ UNCHANGED queue => IdInv'
  <2>1. \A y \in Tasks : Dispatched(y)' = Dispatched(y)
      BY <1>9 DEF Dispatched
  <2>2. PendingOwned'
    <3>1. ASSUME NEW s \in Conns, NEW p \in pending'[s] PROVE p \in pending[s] /\ p[2] \in Tasks
        BY <1>9, <3>1 DEF CountInv, TypeOK, Job
    <3> QED BY <1>9, <3>1 DEF IdInv, PendingOwned
  <2> QED BY <1>9, <2>1, <2>2, OwnersKept DEF IdInv
<1>10. CASE SendOk(x)
  <2>1. /\ IdsUnique' /\ MailboxTaken' /\ Correlated' /\ PendingOwned'
      BY <1>1, <1>9, <1>10 DEF SendOk, ExecGo, Dispatched
  <2>2. /\ sock[x] \in Conns /\ queue[sock[x]] \in Seq(Job) /\ <<rid[x], x>> \in Job
      BY <1>10 DEF SendOk, CountInv, TypeOK, TaskReady, Job
  <2>3. /\ queue'[sock[x]] = Append(queue[sock[x]], <<rid[x], x>>)
        /\ \A s \in Conns : s # sock[x] => queue'[s] = queue[s]
      BY <1>10, <2>2 DEF SendOk, CountInv, TypeOK
  <2>4. ASSUME NEW s \in Conns, NEW i \in DOMAIN queue'[s]
        PROVE  \/ i \in DOMAIN queue[s] /\ queue'[s][i] = queue[s][i]
               \/ s = sock[x] /\ queue'[s][i] = <<rid[x], x>>
    <3>1. CASE s = sock[x]
      <4>1. queue'[s] = Append(queue[s], <<rid[x], x>>) /\ queue[s] \in Seq(Job)
          BY <2>2, <2>3, <3>1
      <4> QED BY <2>2, <2>4, <3>1, <4>1, AppendProperties
    <3> QED BY <2>3, <2>4, <3>1
  <2>5. /\ exec[x] = "send" /\ exec' = [exec EXCEPT ![x] = "wait"]
        /\ UNCHANGED <<sock, rid, sending, writer, jobs, pending>>
      BY <1>10 DEF SendOk, ExecGo
  <2>6. \A y \in Tasks : Dispatched(y)' = Dispatched(y)
      BY <1>1, <2>5 DEF Dispatched
  <2>7. ASSUME NEW s \in Conns, NEW j \in Job, OwnJob(s, j) PROVE OwnJob(s, j)'
      BY <2>5, <2>6, <2>7 DEF OwnJob, Job
  <2>8. ASSUME NEW s \in Conns, NEW i \in DOMAIN queue'[s] PROVE OwnJob(s, queue[s][i])'
    <3>1. CASE i \in DOMAIN queue[s] /\ queue'[s][i] = queue[s][i]
      <4>1. PICK j \in Job : j = queue[s][i]
          BY <3>1, ElementOfSeq DEF CountInv, TypeOK
      <4>2. OwnJob(s, j)
          BY <3>1, <4>1 DEF IdInv, JobsOwned
      <4> QED BY <2>7, <3>1, <4>1, <4>2 DEF OwnJob
    <3>2. CASE s = sock[x] /\ queue'[s][i] = <<rid[x], x>>
        BY <1>1, <2>5, <3>2 DEF OwnJob, Dispatched
    <3> QED BY <2>4, <2>8, <3>1, <3>2
  <2>9. ASSUME NEW s \in Conns, writer[s] = "busy" PROVE OwnJob(s, sending[s])'
    <3>1. PICK j \in Job : j = sending[s]
        BY <2>9 DEF CountInv, ConnReady
    <3>2. OwnJob(s, j)
        BY <2>9, <3>1 DEF IdInv, JobsOwned
    <3> QED BY <2>5, <2>7, <3>1, <3>2 DEF OwnJob
  <2>10. ASSUME NEW s \in Conns, NEW j \in jobs[s] \cup pending[s] PROVE OwnJob(s, j)'
      BY <2>7, <2>10 DEF IdInv, JobsOwned, CountInv, TypeOK
  <2>11. JobsOwned'
      BY <2>5, <2>8, <2>9, <2>10 DEF JobsOwned
  <2> QED BY <2>1, <2>11 DEF IdInv
\* A task that gives up takes its entry with it.
<1>11. ASSUME Dispatched(x), RemovePending(x), NEW s \in Conns
       PROVE  pending'[s] \subseteq pending[s] /\ \A p \in pending'[s] : p[2] # x
  <2>1. sock[x] \in Conns
      BY <1>11 DEF IdInv, IdsUnique
  <2>2. /\ pending'[sock[x]] = {p \in pending[sock[x]] : p[1] # rid[x]}
        /\ s # sock[x] => pending'[s] = pending[s]
      BY <1>11, <2>1 DEF RemovePending, CountInv, TypeOK
  <2>3. \A p \in pending[s] : p[2] = x => s = sock[x] /\ p[1] = rid[x]
      BY DEF IdInv, JobsOwned, OwnJob
  <2> QED BY <2>2, <2>3
<1>12. CASE SendClosed(x)
    BY <1>1, <1>9, <1>11, <1>12 DEF SendClosed, End, ExecGo, Dispatched
<1>13. CASE TimedOut(x)
    BY <1>1, <1>9, <1>11, <1>13 DEF TimedOut, End, ExecGo, Dispatched
<1>14. CASE Received(x)
  <2>1. \A s \in Conns : \A p \in pending[s] : p[2] # x
      BY <1>14 DEF Received, IdInv, MailboxTaken
  <2> QED BY <1>1, <1>9, <1>14, <2>1 DEF Received, End, ExecGo, Dispatched
<1>15. CASE Cancelled(x)
    BY <1>1, <1>9, <1>15 DEF Cancelled, End, ExecGo, Dispatched
<1> QED
  BY <1>3, <1>4, <1>5, <1>6, <1>7, <1>8, <1>10, <1>12, <1>13, <1>14, <1>15
  DEF TaskStep, ExecStep

LEMMA IdStep == CountInv /\ IdInv /\ [Next]_vars => IdInv'
<1> SUFFICES ASSUME CountInv, IdInv, [Next]_vars PROVE IdInv'
    OBVIOUS
<1>1. CASE UNCHANGED vars
    BY <1>1 DEF vars, connVars, writerVars, taskVars, IdInv, IdsUnique, JobsOwned, MailboxTaken,
       Correlated, PendingOwned, OwnJob, Dispatched
<1> QED BY <1>1, ConnIds, PeerIds, TaskIds, NextCases

-----------------------------------------------------------------------------
(* The directory. *)

LEMMA DirFrame == DirInv /\ UNCHANGED <<sockets, conn, account, old>> => DirInv'
BY DEF DirInv, FreshListed, DirectoryCurrent

\* Only handle_socket's steps touch the directory.
LEMMA OthersFrame ==
    ASSUME \/ \E s \in Conns : PeerStep(s)
           \/ \E x \in Tasks : TaskStep(x)
           \/ UNCHANGED vars
    PROVE  UNCHANGED <<sockets, conn, account, old>>
BY DEF PeerStep, WriterStep, WriterTake, WriterSent, WriterEnd, WriterBreak, LinkFault,
   HostLeaves, HostAnswer, TaskStep, ExecStep, ReserveNoSocket, ReserveLoad, ReserveCas, Spend,
   SpendRefused, DispatchInsert, SendOk, SendClosed, Received, TimedOut, Cancelled, vars, connVars

LEMMA ConnDir ==
    ASSUME CountInv, DirInv, NEW s \in Conns, ConnStep(s)
    PROVE  DirInv'
<1> USE DEF CountInv, TypeOK, ConnReady
<1> DEFINE Listed(pc) == pc \in {"fail_old", "confirm", "serving", "unregister"}
           Fresh(pc) == pc \in {"fail_old", "confirm", "serving"}
\* Steps of a connection that is not listed, and steps within the listed states.
<1>1. ASSUME NEW pc, conn' = [conn EXCEPT ![s] = pc], UNCHANGED <<sockets, old>>,
             \A c \in Conns : c # s => account'[c] = account[c],
             account'[s] = account[s] \/ ~Listed(conn[s]),
             Listed(conn[s]) => Listed(pc), Fresh(pc) => Fresh(conn[s])
      PROVE  DirInv'
  <2>1. ASSUME NEW h \in Hosts, sockets[h] # None
        PROVE  Listed(conn'[sockets[h]]) /\ account'[sockets[h]] = h
    <3>1. sockets[h] \in Conns /\ Listed(conn[sockets[h]]) /\ account[sockets[h]] = h
        BY <2>1 DEF DirInv, DirectoryCurrent
    <3> QED BY <1>1, <3>1
  <2>2. ASSUME NEW c \in Conns, Fresh(conn'[c])
        PROVE  sockets[account'[c]] = c \/ \E d \in Conns : old[d] = c
    <3>1. Fresh(conn[c]) /\ account'[c] = account[c]
        BY <1>1, <2>2
    <3> QED BY <3>1 DEF DirInv, FreshListed
  <2> QED BY <1>1, <2>1, <2>2 DEF DirInv, DirectoryCurrent, FreshListed
<1>2. ASSUME NEW h \in Hosts, Connect(s, h) PROVE DirInv'
    BY <1>1, <1>2 DEF Connect, Go
<1>3. CASE Authenticated(s)
    BY <1>1, <1>3 DEF Authenticated, Go
<1>4. CASE HandshakeFailed(s)
    BY <1>1, <1>4 DEF HandshakeFailed, Go
<1>5. CASE InsertRefused(s)
    BY <1>1, <1>5 DEF InsertRefused, Go
<1>6. CASE FailOld(s)
    BY <1>1, <1>6 DEF FailOld, Go
<1>7. CASE Confirmed(s)
    BY <1>1, <1>7 DEF Confirmed, Go
<1>8. CASE ConfirmFailed(s)
    BY <1>1, <1>8 DEF ConfirmFailed, Go
<1>9. CASE ReaderBreak(s)
    BY <1>1, <1>9 DEF ReaderBreak, Go
<1>10. CASE FailOwn(s)
    BY <1>1, <1>10 DEF FailOwn, Go
<1>11. CASE Leave(s)
    BY <1>1, <1>11 DEF Leave, Go
\* A new connection takes its account's place and remembers the one it replaced.
<1>12. CASE Insert(s)
  <2>1. /\ conn[s] = "insert" /\ account[s] \in Hosts /\ old[s] = None
        /\ s # None /\ UNCHANGED account
      BY <1>12, TunnelAssumption DEF Insert
  <2>2. /\ sockets'[account[s]] = s /\ old'[s] = sockets[account[s]]
        /\ \A h \in Hosts : h # account[s] => sockets'[h] = sockets[h]
        /\ \A c \in Conns : c # s => old'[c] = old[c] /\ conn'[c] = conn[c]
        /\ conn'[s] \in {"confirm", "fail_old"}
      BY <1>12, <2>1 DEF Insert, Go
  <2>3. ASSUME NEW h \in Hosts, sockets'[h] # None
        PROVE  Listed(conn'[sockets'[h]]) /\ account'[sockets'[h]] = h
    <3>1. CASE h = account[s]
        BY <2>1, <2>2, <3>1
    <3>2. CASE h # account[s]
      <4>1. sockets[h] \in Conns /\ Listed(conn[sockets[h]]) /\ account[sockets[h]] = h
          BY <2>2, <2>3, <3>2 DEF DirInv, DirectoryCurrent
      <4> QED BY <2>1, <2>2, <3>2, <4>1
    <3> QED BY <3>1, <3>2
  <2>4. ASSUME NEW c \in Conns, Fresh(conn'[c])
        PROVE  sockets'[account'[c]] = c \/ \E d \in Conns : old'[d] = c
    <3>1. CASE c = s
        BY <2>1, <2>2, <3>1
    <3>2. CASE c # s
      <4>1. Fresh(conn[c]) /\ account[c] \in Hosts
          BY <2>2, <2>4, <3>2
      <4>2. CASE sockets[account[c]] = c
          BY <2>1, <2>2, <3>2, <4>1, <4>2
      <4>3. ASSUME NEW d \in Conns, old[d] = c PROVE old'[d] = c
          BY <2>1, <2>2, <4>3, TunnelAssumption
      <4> QED BY <4>1, <4>2, <4>3 DEF DirInv, FreshListed
    <3> QED BY <3>1, <3>2
  <2> QED BY <2>3, <2>4 DEF DirInv, DirectoryCurrent, FreshListed
\* A connection removes itself only: its successor stays listed.
<1>13. CASE Unregister(s)
  <2>1. /\ conn[s] = "unregister" /\ account[s] \in Hosts /\ UNCHANGED <<account, old>>
        /\ conn'[s] = "fail_own" /\ \A c \in Conns : c # s => conn'[c] = conn[c]
      BY <1>13 DEF Unregister, Go
  <2>2. /\ \A h \in Hosts : sockets'[h] # None => sockets'[h] = sockets[h] /\ sockets[h] # s
        /\ \A h \in Hosts : sockets[h] # s => sockets'[h] = sockets[h]
      BY <1>13, <2>1 DEF Unregister, DirInv, DirectoryCurrent
  <2>3. ASSUME NEW h \in Hosts, sockets'[h] # None
        PROVE  Listed(conn'[sockets'[h]]) /\ account'[sockets'[h]] = h
    <3>1. /\ sockets[h] \in Conns /\ sockets[h] # s /\ sockets'[h] = sockets[h]
          /\ Listed(conn[sockets[h]]) /\ account[sockets[h]] = h
        BY <2>2, <2>3 DEF DirInv, DirectoryCurrent
    <3> QED BY <2>1, <3>1
  <2>4. ASSUME NEW c \in Conns, Fresh(conn'[c])
        PROVE  sockets'[account'[c]] = c \/ \E d \in Conns : old'[d] = c
    <3>1. c # s /\ Fresh(conn[c]) /\ account[c] \in Hosts
        BY <2>1, <2>4
    <3> QED BY <2>1, <2>2, <3>1 DEF DirInv, FreshListed
  <2> QED BY <2>3, <2>4 DEF DirInv, DirectoryCurrent, FreshListed
<1> QED
  BY <1>2, <1>3, <1>4, <1>5, <1>6, <1>7, <1>8, <1>9, <1>10, <1>11, <1>12, <1>13 DEF ConnStep

LEMMA DirStep == CountInv /\ DirInv /\ [Next]_vars => DirInv'
BY ConnDir, OthersFrame, DirFrame, NextCases

-----------------------------------------------------------------------------
(* The theorems. *)

LEMMA TunnelInv == Spec => [](CountInv /\ IdInv /\ DirInv)
<1>1. CountInv /\ IdInv /\ DirInv /\ [Next]_vars => (CountInv /\ IdInv /\ DirInv)'
    BY CountStep, IdStep, DirStep
<1> QED BY <1>1, TunnelInit, PTL DEF Spec

\* Every variable keeps its type; in particular the in-flight counter, which the
\* code decrements without a check, never leaves 0..MAX_INFLIGHT_PER_SOCKET.
THEOREM TunnelTyped == Spec => []TypeOK
<1>1. CountInv => TypeOK
    BY DEF CountInv
<1> QED BY <1>1, TunnelInv, PTL

\* The in-flight counter is the number of guards alive, for any number of racing
\* reservations (try_reserve) and on every exit path (InflightGuard::drop).
THEOREM SlotsCounted == Spec => []SlotsExact
<1>1. CountInv => SlotsExact
    BY DEF CountInv
<1> QED BY <1>1, TunnelInv, PTL

\* A waiter only ever receives the answer to its own job (dispatch, deliver).
THEOREM AnswersCorrelated == Spec => []Correlated
<1>1. IdInv => Correlated
    BY DEF IdInv
<1> QED BY <1>1, TunnelInv, PTL

\* A timeout, a closed queue or an answer leaves no pending entry behind (dispatch).
THEOREM NoStrayPending == Spec => []PendingOwned
<1>1. IdInv => PendingOwned
    BY DEF IdInv
<1> QED BY <1>1, TunnelInv, PTL

\* The directory lists live sockets of their own account, and a late teardown never
\* removes the successor (insert, remove_if_current).
THEOREM DirectoryIsCurrent == Spec => []DirectoryCurrent
<1>1. DirInv => DirectoryCurrent
    BY DEF DirInv
<1> QED BY <1>1, TunnelInv, PTL
=============================================================================
