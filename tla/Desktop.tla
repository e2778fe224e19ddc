------------------------------ MODULE Desktop -------------------------------
(***************************************************************************)
(* The desktop app as a whole: the commands of AppState, Wallet and        *)
(* Hosting over one mutex, and an app that quits, dies and is launched     *)
(* again.  Files, the machine and the origin outlive it.                   *)
(***************************************************************************)
EXTENDS Hosting

CONSTANT MaxLaunches   \* bound on the launches after the first

ASSUME DesktopAssumption == MaxLaunches \in Nat

VARIABLE launches

vars == <<appVars, walletVars, hostingVars, launches>>

TypeOK ==
    /\ AppTypeOK
    /\ WalletTypeOK
    /\ HostingTypeOK
    /\ launches \in 0..MaxLaunches

Init ==
    /\ AppInit
    /\ WalletInit
    /\ HostingInit
    /\ launches = 0

\* A child that nobody is left to stop, and why.
Stranded(why) ==
    stranded' = IF listener' \in 1..MaxSpawns /\ listener' \in Owned THEN why ELSE stranded

\* Everything in memory goes; a balance change that was not saved is lost.
MemoryGone ==
    /\ running' = FALSE
    /\ pc' = [c \in Cmds |-> "idle"]
    /\ arg' = [c \in Cmds |-> None]
    /\ holder' = None
    /\ account' = None /\ passphrase' = None /\ tokens' = <<>>
    /\ verified' = None
    /\ starting' = None
    /\ host' = None
    /\ mishaps' = IF \E c \in Cmds : pc[c] = "save" THEN mishaps \cup {"died"} ELSE mishaps
    /\ UNCHANGED <<settings, crossed, raced, burned, stray, minted, held, settled, swapped,
                   host_key, host_account, spawned, installed, launches>>

\* Mutant of ExitReap: the handle is only dropped.
ExitReapDropped == UNCHANGED listener

\* The exit handler kills the stored host's child if the mutex is free.
ExitReap ==
    IF holder = None /\ host # None THEN Kill(host.child) ELSE UNCHANGED listener

\* The user quits.
Exit ==
    /\ running
    /\ ExitReap
    /\ Stranded(IF holder # None \/ \E c \in Cmds : pc[c] \in StartSteps \cup {"stop"}
                THEN "busy" ELSE "rest")
    /\ MemoryGone
    /\ UNCHANGED <<files, settings_file>>

\* The app dies, perhaps in the middle of writing one of its files.
Die(torn) ==
    /\ running
    /\ "die" \in Kinds
    /\ \/ torn = "none" /\ UNCHANGED <<files, settings_file>>
       \/ /\ torn = "tokens"
          /\ \E c \in Cmds : pc[c] = "save"
          /\ tokens_file' = Torn
          /\ UNCHANGED <<keystore, settings_file>>
       \/ /\ torn = "keystore"
          /\ \E c \in Cmds : Invoked(c, "create_account")
          /\ keystore' = Torn
          /\ UNCHANGED <<tokens_file, settings_file>>
       \/ /\ torn = "settings"
          /\ \E c \in Cmds : Invoked(c, "set_settings")
          /\ settings_file' = None
          /\ UNCHANGED files
    /\ UNCHANGED listener
    /\ Stranded("crash")
    /\ MemoryGone

\* AppState::new
Launch ==
    /\ ~running
    /\ launches < MaxLaunches
    /\ launches' = launches + 1
    /\ running' = TRUE
    /\ settings' = LoadedSettings(settings_file)
    /\ verified' = NewVerified(settings')
    /\ crossed' = FALSE /\ raced' = FALSE /\ swapped' = FALSE
    /\ UNCHANGED <<pc, arg, holder, settings_file, files, inner, origin, minted, held,
                   settled, mishaps, hostingVars>>

Next ==
    \/ /\ AppNext
       /\ UNCHANGED <<walletVars, hostingVars, launches>>
    \/ WalletNext /\ UNCHANGED <<hostingVars, launches>>
    \/ HostingNext /\ UNCHANGED launches
    \/ Exit
    \/ \E torn \in {"none", "tokens", "keystore", "settings"} : Die(torn)
    \/ Launch

Spec == Init /\ [][Next]_vars
=============================================================================
