------------------------------ MODULE AppState ------------------------------
(***************************************************************************)
(* The desktop app's managed state and the commands that connect it        *)
(* (apps/lluma-desktop/src-tauri: lib.rs, settings.rs, anchor.rs and the   *)
(* trust part of client.rs).                                               *)
(*                                                                         *)
(* The front end invokes commands, which run as concurrent tasks.  What    *)
(* they share is behind one async mutex; a command that takes it, changes  *)
(* memory and returns without waiting is one step, enabled when the mutex  *)
(* is free.  A file is written by one call that other commands do not see  *)
(* half done, except that the app may die in it (Desktop).                 *)
(*                                                                         *)
(* Commands that only read (get_settings, account_status, host_status,     *)
(* network_status, claim_trial, hardware_report) change nothing here.      *)
(***************************************************************************)
CONSTANTS None,
          Cmds,       \* the commands that can be in progress at once
          Kinds,      \* the commands the front end invokes in an instance
          Relays,     \* relay URLs, DefaultRelay among them
          Bases,      \* base URLs the user enters for hosting
          DefaultRelay,
          TunnelOffered, \* whether signed bootstraps offer the tunnel
          Anchored    \* whether the build has a pinned registry key

ASSUME AppAssumption ==
    /\ DefaultRelay \in Relays
    /\ Bases \subseteq {"", "ollama"}
    /\ TunnelOffered \subseteq BOOLEAN
    /\ Anchored \in BOOLEAN
    /\ None \notin Cmds

VARIABLES
    running,        \* whether the app is running
    pc, arg,        \* of each command: where it is, what it carries
    holder,         \* the command that keeps the mutex across a wait
    settings,       \* Inner.settings
    settings_file,  \* settings.json
    verified,       \* Inner.verified
    \* history, read by the properties only
    crossed,        \* a save ran between set_settings' own save and its lock
    raced           \* the relay changed while auto_connect was fetching

appVars == <<running, pc, arg, holder, settings, settings_file, verified, crossed, raced>>

\* The fields of Settings that the commands tell apart; base is host.openai_base
\* and kc says whether the endpoint fields are filled in.
Settings == [relay : Relays, base : {"", "ollama"}, kc : BOOLEAN, consent : BOOLEAN]

\* Trusted parameters, the relay they were established for, and whether they
\* offer the tunnel.
VerifiedNet == [from : Relays, tunnel : BOOLEAN]

ASSUME NoSettings == None \notin Settings /\ None \notin VerifiedNet

\* Where a command can be between two of its steps, here, in Wallet and in Hosting.
Points == {"idle", "set", "boot", "account", "acquire", "hosts", "try", "save", "stop",
           "read", "detect", "provide", "serve", "spawn", "boot_child", "model", "key",
           "identity", "up", "store"}

DefaultSettings == [relay |-> DefaultRelay, base |-> "", kc |-> FALSE, consent |-> FALSE]

\* Manual entry: needs the endpoint fields, carries no tunnel parameters.
ManualVerified(s) == IF s.kc THEN [from |-> s.relay, tunnel |-> FALSE] ELSE None

\* Settings::load: a missing or corrupt file yields the defaults.
LoadedSettings(f) == IF f = None THEN DefaultSettings ELSE f

\* AppState::new: an anchored build starts without trust.
NewVerified(s) == IF Anchored THEN None ELSE ManualVerified(s)

AppInit ==
    /\ running = TRUE
    /\ pc = [c \in Cmds |-> "idle"]
    /\ arg = [c \in Cmds |-> None]
    /\ holder = None
    /\ settings = DefaultSettings
    /\ settings_file = None
    /\ verified = NewVerified(DefaultSettings)
    /\ crossed = FALSE
    /\ raced = FALSE

\* The front end invokes a command.
Invoked(c, kind) == running /\ kind \in Kinds /\ pc[c] = "idle"

At(c, where) == running /\ pc[c] = where

Unlocked == holder = None

\* The command goes on at another point, carrying a.
Goes(c, where, a) ==
    /\ pc' = [pc EXCEPT ![c] = where]
    /\ arg' = [arg EXCEPT ![c] = a]

Ends(c) == Goes(c, "idle", None)

\* A save by c overtakes a set_settings that has saved and waits for the mutex.
Overtakes(c) == \E d \in Cmds \ {c} : pc[d] = "set"

-----------------------------------------------------------------------------
\* The form, filled in over what get_settings returned, is saved at once.
SetSettingsSave(c, relay, base) ==
    /\ Invoked(c, "set_settings")
    /\ LET s == [settings EXCEPT !.relay = relay, !.base = base, !.kc = TRUE]
       IN /\ settings_file' = s
          /\ Goes(c, "set", s)
    /\ crossed' = (crossed \/ Overtakes(c))
    /\ UNCHANGED <<running, holder, settings, verified, raced>>

\* Mutant of TrustAfter: a changed relay keeps what was verified.
TrustAfterKept(s) == IF Anchored THEN verified ELSE ManualVerified(s)

\* What set_settings makes of the trusted parameters.
TrustAfter(s) ==
    IF ~Anchored THEN ManualVerified(s)
    ELSE IF s.relay # settings.relay THEN None ELSE verified

SetSettingsApply(c) ==
    /\ At(c, "set")
    /\ Unlocked
    /\ settings' = arg[c]
    /\ verified' = TrustAfter(arg[c])
    /\ Ends(c)
    /\ raced' = (raced \/ \E d \in Cmds : pc[d] = "boot" /\ arg[d] # arg[c].relay)
    /\ UNCHANGED <<running, holder, settings_file, crossed>>

-----------------------------------------------------------------------------
\* auto_connect reads the relay; without an anchor it only reports.
ConnectStart(c) ==
    /\ Invoked(c, "auto_connect")
    /\ Anchored
    /\ Unlocked
    /\ Goes(c, "boot", settings.relay)
    /\ UNCHANGED <<running, holder, settings, settings_file, verified, crossed, raced>>

\* The bootstrap could not be fetched or did not verify.
ConnectFailed(c) ==
    /\ At(c, "boot")
    /\ Ends(c)
    /\ UNCHANGED <<running, holder, settings, settings_file, verified, crossed, raced>>

\* Mutant of Saved: the file is left as it was.
SavedNot(c, s) ==
    /\ settings' = s
    /\ UNCHANGED <<settings_file, crossed>>

\* The settings in memory change and are saved, under the mutex.
Saved(c, s) ==
    /\ settings' = s
    /\ settings_file' = s
    /\ crossed' = (crossed \/ Overtakes(c))

\* The verified bootstrap is stored and the endpoint fields are cached.
ConnectVerified(c, tunnel) ==
    /\ At(c, "boot")
    /\ Unlocked
    /\ verified' = [from |-> arg[c], tunnel |-> tunnel]
    /\ Saved(c, [settings EXCEPT !.kc = TRUE])
    /\ Ends(c)
    /\ UNCHANGED <<running, holder, raced>>

GrantConsent(c) ==
    /\ Invoked(c, "grant_consent")
    /\ Unlocked
    /\ Saved(c, [settings EXCEPT !.consent = TRUE])
    /\ UNCHANGED <<running, pc, arg, holder, verified, raced>>

AppNext ==
    \E c \in Cmds :
        \/ \E r \in Relays, b \in Bases : SetSettingsSave(c, r, b)
        \/ SetSettingsApply(c)
        \/ ConnectStart(c)
        \/ ConnectFailed(c)
        \/ \E tunnel \in TunnelOffered : ConnectVerified(c, tunnel)
        \/ GrantConsent(c)

AppTypeOK ==
    /\ running \in BOOLEAN
    /\ holder \in Cmds \cup {None}
    /\ settings \in Settings
    /\ settings_file \in Settings \cup {None}
    /\ verified \in VerifiedNet \cup {None}
    /\ crossed \in BOOLEAN
    /\ raced \in BOOLEAN
    /\ pc \in [Cmds -> Points]
    /\ DOMAIN arg = Cmds

-----------------------------------------------------------------------------
\* What the comment in set_settings promises: trusted parameters bootstrapped from
\* another relay than the one in use are gone.  It does not hold: an auto_connect
\* that was fetching while the relay changed puts them back.
TrustFollowsRelay == running /\ verified # None => verified.from = settings.relay

\* That race is the only way to break TrustFollowsRelay: in whatever order the app
\* connects, changes settings, quits and is launched otherwise, the trusted
\* parameters are those of the relay in use (set_settings, auto_connect,
\* AppState::new).
TrustMatchesRelay ==
    running /\ verified # None /\ ~raced => verified.from = settings.relay

\* The settings on disk are the ones in memory once no set_settings is between
\* its save and the mutex, unless another save came between the two
\* (set_settings, auto_connect, grant_ollama_consent, host_start).
SettingsOnDisk ==
    (running /\ ~crossed /\ \A c \in Cmds : pc[c] # "set")
        => LoadedSettings(settings_file) = settings
=============================================================================
