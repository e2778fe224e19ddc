------------------------------ MODULE Hosting -------------------------------
(***************************************************************************)
(* Contributing from the desktop app: host_start and host_stop of lib.rs,  *)
(* HostHandle of host.rs and the managed Ollama of ollama.rs.              *)
(*                                                                         *)
(* host_start reads what it needs under the mutex, provisions for minutes  *)
(* without it and takes it again to store the running host; a latch lets   *)
(* one start run at a time.  The configuration has an OpenAI upstream; an  *)
(* empty base means that a local server is to be found or provided.  The   *)
(* machine has one place where Ollama listens, taken by a server of the    *)
(* user's or by a child of the app, which outlives the app unless it is    *)
(* killed.  What the host serves is in Registry, Tunnel and Path.          *)
(***************************************************************************)
EXTENDS Wallet

CONSTANTS User,       \* a server of the user's
          Leftover,   \* what may seal host files of an earlier account
          MaxSpawns   \* bound on the servers the app spawns

ASSUME HostingAssumption ==
    /\ MaxSpawns \in Nat
    /\ Leftover \subseteq Passes \cup {None}

VARIABLES
    starting,    \* AppState.starting, as the command that set it
    host,        \* Inner.host: None or the handle
    host_key,    \* host_key.bin: None or the passphrase that seals it
    host_account, \* host_account.bin, likewise
    \* the machine
    listener,    \* who listens on port 11434: None, User or a child's number
    spawned,     \* how many children the app ever had
    installed,   \* whether an ollama binary is there
    \* history, read by the properties only
    stranded     \* why a child outlived the app that owned it

hostingVars == <<starting, host, host_key, host_account, listener, spawned, installed,
                 stranded>>

\* A running host: the child it owns, and the base URL it serves from.
HostHandle == [child : 0..MaxSpawns, base : {"ollama"}]

ASSUME NoHandle == None \notin HostHandle /\ {None, User} \cap (1..MaxSpawns) = {}

\* What a start carries; child 0 is none.
Start == [base : {"", "ollama"}, pass : Passes, consent : BOOLEAN, tunnel : BOOLEAN,
          child : 0..MaxSpawns]

HostingTypeOK ==
    /\ starting \in Cmds \cup {None}
    /\ host \in HostHandle \cup {None}
    /\ host_key \in Passes \cup {None}
    /\ host_account \in Passes \cup {None}
    /\ listener \in 1..MaxSpawns \/ listener \in {None, User}
    /\ spawned \in 0..MaxSpawns
    /\ installed \in BOOLEAN
    /\ stranded \in {"no", "crash", "busy", "rest"}
    /\ \A c \in Cmds :
          pc[c] \in {"detect", "provide", "serve", "spawn", "boot_child", "model", "key",
                     "identity", "up", "store"} => arg[c] \in Start

HostingInit ==
    /\ starting = None
    /\ host = None
    /\ host_key \in Leftover
    /\ host_account \in Leftover
    /\ listener = None
    /\ spawned = 0
    /\ installed = FALSE
    /\ stranded = "no"

machine == <<listener, spawned, installed>>
appRest == <<running, holder, settings, settings_file, verified, crossed, raced>>

-----------------------------------------------------------------------------
(* host_start *)

\* Mutant of StartLatch: no latch.
StartLatchOpen(c) ==
    /\ Invoked(c, "host_start")
    /\ starting' = c
    /\ Goes(c, "read", None)
    /\ UNCHANGED <<appRest, walletVars, host, host_key, host_account, machine, stranded>>

\* starting.swap(true): a second start is turned away.
StartLatch(c) ==
    /\ Invoked(c, "host_start")
    /\ starting = None
    /\ starting' = c
    /\ Goes(c, "read", None)
    /\ UNCHANGED <<appRest, walletVars, host, host_key, host_account, machine, stranded>>

\* Kill the child, if there is one; a child that lost the port is dead already.
Kill(child) == listener' = IF child # 0 /\ listener = child THEN None ELSE listener

\* Mutant of StartFails: the child is left running.
StartFailsUnreaped(c, child) ==
    /\ starting' = None
    /\ Ends(c)
    /\ UNCHANGED <<appRest, walletVars, host, host_key, host_account, listener, spawned,
                   installed, stranded>>

\* An error: the child is reaped and the guard clears the latch.
StartFails(c, child) ==
    /\ Kill(child)
    /\ starting' = None
    /\ Ends(c)
    /\ UNCHANGED <<appRest, walletVars, host, host_key, host_account, spawned, installed,
                   stranded>>

\* The start goes on without the mutex.
StartGoes(c, where, a) ==
    /\ Goes(c, where, a)
    /\ UNCHANGED <<appRest, walletVars, starting, host, host_key, host_account>>

\* Phase 1 finds no account, or a host that is already serving.
ReadRefused(c) ==
    /\ At(c, "read")
    /\ Unlocked
    /\ account = None \/ host # None
    /\ StartFails(c, 0)

ReadInner(c) ==
    /\ At(c, "read")
    /\ Unlocked
    /\ account # None
    /\ host = None
    /\ StartGoes(c, IF settings.base = "" THEN "detect" ELSE "key",
                 [base |-> settings.base, pass |-> passphrase,
                  consent |-> settings.consent,
                  tunnel |-> verified # None /\ verified.tunnel,
                  child |-> 0])
    /\ UNCHANGED <<machine, stranded>>

\* detect_local_openai found a server with a model; the model the user picked
\* may have to be pulled into it, which may fail.
DetectFound(c) ==
    /\ At(c, "detect")
    /\ listener # None
    /\ \/ /\ StartGoes(c, "key", [arg[c] EXCEPT !.base = "ollama"])
          /\ UNCHANGED <<machine, stranded>>
       \/ StartFails(c, 0)

\* find_binary finds one.
IsInstalled == installed

\* It found none: nothing listens, it did not answer in time, or has no model.
DetectNothing(c) ==
    /\ At(c, "detect")
    /\ StartGoes(c, IF IsInstalled THEN "serve" ELSE "provide", arg[c])
    /\ UNCHANGED <<machine, stranded>>

\* The installer runs, with consent given.
Install(c) ==
    /\ At(c, "provide")
    /\ arg[c].consent
    /\ installed' = TRUE
    /\ StartGoes(c, "serve", arg[c])
    /\ UNCHANGED <<listener, spawned, stranded>>

\* CONSENT_NEEDED, or the installer failed.
InstallFailed(c) == At(c, "provide") /\ StartFails(c, 0)

\* ensure_serving finds a server that is not ours to manage.
ServingAlready(c) ==
    /\ At(c, "serve")
    /\ listener # None
    /\ StartGoes(c, "model", arg[c])
    /\ UNCHANGED <<machine, stranded>>

\* It finds none, and will spawn one.
ServingNobody(c) ==
    /\ At(c, "serve")
    /\ listener = None
    /\ spawned < MaxSpawns
    /\ StartGoes(c, "spawn", arg[c])
    /\ UNCHANGED <<machine, stranded>>

\* ollama serve: if somebody else took the port since, the child exits at once.
Spawn(c) ==
    /\ At(c, "spawn")
    /\ spawned' = spawned + 1
    /\ listener' = IF listener = None THEN spawned + 1 ELSE listener
    /\ StartGoes(c, "boot_child", [arg[c] EXCEPT !.child = spawned + 1])
    /\ UNCHANGED <<installed, stranded>>

\* There is no binary after all, or it cannot be run.
SpawnFails(c) == At(c, "spawn") /\ StartFails(c, 0)

\* The poll sees a server answer, ours or not.
ChildReady(c) ==
    /\ At(c, "boot_child")
    /\ listener # None
    /\ StartGoes(c, "model", arg[c])
    /\ UNCHANGED <<machine, stranded>>

\* It did not become ready in time and is killed.
ChildNotReady(c) == At(c, "boot_child") /\ StartFails(c, arg[c].child)

\* ensure_model: the model is there, or is pulled.
ModelReady(c) ==
    /\ At(c, "model")
    /\ StartGoes(c, "key", [arg[c] EXCEPT !.base = "ollama"])
    /\ UNCHANGED <<machine, stranded>>

ModelFailed(c) == At(c, "model") /\ StartFails(c, arg[c].child)

\* load_or_create_host_key and load_or_create_host_account: a file is minted when
\* absent and must otherwise open under the passphrase.
Opens(file, p) == file \in {None, p}

HostKeyLoaded(c) ==
    /\ At(c, "key")
    /\ Opens(host_key, arg[c].pass)
    /\ host_key' = arg[c].pass
    /\ Goes(c, IF arg[c].tunnel THEN "identity" ELSE "up", arg[c])
    /\ UNCHANGED <<appRest, walletVars, starting, host, host_account, machine, stranded>>

HostKeyRefused(c) ==
    /\ At(c, "key")
    /\ ~Opens(host_key, arg[c].pass)
    /\ StartFails(c, arg[c].child)

\* A host behind the tunnel has an account of its own.
HostAccountLoaded(c) ==
    /\ At(c, "identity")
    /\ Opens(host_account, arg[c].pass)
    /\ host_account' = arg[c].pass
    /\ Goes(c, "up", arg[c])
    /\ UNCHANGED <<appRest, walletVars, starting, host, host_key, machine, stranded>>

HostAccountRefused(c) ==
    /\ At(c, "identity")
    /\ ~Opens(host_account, arg[c].pass)
    /\ StartFails(c, arg[c].child)

\* HostHandle::start or start_tunnel: the tasks run, with the child handed over.
HandleStarted(c) ==
    /\ At(c, "up")
    /\ StartGoes(c, "store", arg[c])
    /\ UNCHANGED <<machine, stranded>>

\* A bad ingress address, a port in use, or a refused registration.
HandleFailed(c) == At(c, "up") /\ StartFails(c, arg[c].child)

\* Phase 3: unless a host is there (then the new one is stopped), the resolved
\* configuration is saved and the handle stored.
Store(c) ==
    /\ At(c, "store")
    /\ Unlocked
    /\ host' = IF host = None THEN [child |-> arg[c].child, base |-> arg[c].base] ELSE host
    /\ IF host = None THEN Saved(c, [settings EXCEPT !.base = arg[c].base])
       ELSE UNCHANGED <<settings, settings_file, crossed>>
    /\ Kill(IF host = None THEN 0 ELSE arg[c].child)
    /\ starting' = None
    /\ Ends(c)
    /\ UNCHANGED <<running, holder, verified, raced, walletVars, host_key, host_account,
                   spawned, installed, stranded>>

-----------------------------------------------------------------------------
(* host_stop: the handle is taken under the mutex and stopped without it. *)

StopTake(c) ==
    /\ Invoked(c, "host_stop")
    /\ Unlocked
    /\ host # None
    /\ host' = None
    /\ Goes(c, "stop", host)
    /\ UNCHANGED <<appRest, walletVars, starting, host_key, host_account, machine,
                   stranded>>

Stopped(c) ==
    /\ At(c, "stop")
    /\ Kill(arg[c].child)
    /\ Ends(c)
    /\ UNCHANGED <<appRest, walletVars, starting, host, host_key, host_account, spawned,
                   installed, stranded>>

-----------------------------------------------------------------------------
\* The user starts or stops a server of their own.
UserServer ==
    /\ "user" \in Kinds
    /\ \/ listener = None /\ listener' = User
       \/ listener = User /\ listener' = None
    /\ UNCHANGED <<appVars, walletVars, starting, host, host_key, host_account, spawned,
                   installed, stranded>>

HostingNext ==
    \/ \E c \in Cmds :
          \/ StartLatch(c)
          \/ ReadRefused(c) \/ ReadInner(c)
          \/ DetectFound(c) \/ DetectNothing(c)
          \/ Install(c) \/ InstallFailed(c)
          \/ ServingAlready(c) \/ ServingNobody(c)
          \/ Spawn(c) \/ SpawnFails(c) \/ ChildReady(c) \/ ChildNotReady(c)
          \/ ModelReady(c) \/ ModelFailed(c)
          \/ HostKeyLoaded(c) \/ HostKeyRefused(c)
          \/ HostAccountLoaded(c) \/ HostAccountRefused(c)
          \/ HandleStarted(c) \/ HandleFailed(c)
          \/ Store(c)
          \/ StopTake(c) \/ Stopped(c)
    \/ UserServer

-----------------------------------------------------------------------------
StartSteps == {"read", "detect", "provide", "serve", "spawn", "boot_child", "model",
               "key", "identity", "up", "store"}

\* The children some part of the running app will stop: a start in progress, the
\* stored host, a stop in progress.
Owned ==
    {arg[c].child : c \in {d \in Cmds : pc[d] \in (StartSteps \ {"read"}) \cup {"stop"}}}
        \cup (IF host = None THEN {} ELSE {host.child})

\* The latch is held exactly while a start runs, so it is freed on every exit, and
\* it alone keeps a second host out: phase 3 never meets a stored one
\* ("belt-and-suspenders", host_start).
LatchSuffices ==
    \A c \in Cmds :
        /\ pc[c] \in StartSteps <=> starting = c
        /\ pc[c] \in StartSteps \ {"read"} => host = None

\* Every Ollama the app spawned that still runs has an owner that will stop it,
\* whichever way starts fail and stops interleave, unless the app that spawned it
\* went away ("EVERY subsequent early return must stop it", host_start).
ChildOwned ==
    running /\ listener \in 1..MaxSpawns => listener \in Owned \/ stranded # "no"

\* Quitting strands a child only while the mutex is held or a start or stop is in
\* progress; at rest the exit handler reaps it (run, kill_managed_now).
ExitAtRestReaps == stranded # "rest"
=============================================================================
