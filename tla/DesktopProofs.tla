--------------------------- MODULE DesktopProofs ----------------------------
(***************************************************************************)
(* Theorems about the desktop app's connection, settings and hosting, for  *)
(* every number of commands in progress, relays, accounts and launches.    *)
(***************************************************************************)
EXTENDS Desktop, SequenceTheorems, TLAPS

-----------------------------------------------------------------------------
(* The inductive invariant: which command is where, and with what. *)

\* Where a command keeps the mutex across a wait.
Holding == {"acquire", "hosts", "try", "save"}

\* Where a start has no child yet, and where it knows its upstream.
Childless == {"detect", "provide", "serve", "spawn"}
Resolved == {"key", "identity", "up", "store"}

\* What a command carries at each point.
CmdArg(where, a) ==
    /\ where = "set" => a \in Settings
    /\ where = "boot" => a \in Relays
    /\ where = "account" => a \in Identity
    /\ where = "try" => a \in [hosts : 1..MaxHosts]
    /\ where \in StartSteps \ {"read"} => a \in Start
    /\ where \in Childless => a.child = 0
    /\ where \in Resolved => a.base = "ollama"
    /\ where = "stop" => a \in HostHandle

\* One command at most keeps the mutex, and one at most is starting a host.
Control ==
    /\ pc \in [Cmds -> Points] /\ DOMAIN arg = Cmds
    /\ holder \in Cmds \cup {None} /\ starting \in Cmds \cup {None}
    /\ \A c \in Cmds :
          /\ CmdArg(pc[c], arg[c])
          /\ pc[c] \in Holding <=> holder = c
          /\ pc[c] \in StartSteps <=> starting = c

AppData ==
    /\ running \in BOOLEAN /\ crossed \in BOOLEAN /\ raced \in BOOLEAN
    /\ settings \in Settings
    /\ settings_file \in Settings \cup {None}
    /\ verified \in VerifiedNet \cup {None}

HostData ==
    /\ host \in HostHandle \cup {None}
    /\ host_key \in Passes \cup {None} /\ host_account \in Passes \cup {None}
    /\ listener \in 1..MaxSpawns \/ listener \in {None, User}
    /\ spawned \in 0..MaxSpawns
    /\ installed \in BOOLEAN
    /\ stranded \in {"no", "crash", "busy", "rest"}
    /\ launches \in 0..MaxLaunches

\* What is true of the rest of the state while commands are at certain points.
Linked ==
    /\ holder # None => account # None
    /\ account = None <=> passphrase = None
    /\ \A c \in Cmds : pc[c] \in {"hosts", "try"} => tokens # <<>>
    /\ \A c \in Cmds : pc[c] = "spawn" => spawned < MaxSpawns
    /\ \A c \in Cmds : pc[c] \in StartSteps \ {"read"} => host = None

\* An app that does not run remembers nothing.
Down ==
    ~running => /\ \A c \in Cmds : pc[c] = "idle"
                /\ host = None /\ account = None /\ verified = None

TypeInv == Control /\ AppData /\ WalletTypeOK /\ HostData /\ Linked /\ Down

-----------------------------------------------------------------------------
(* Types. *)

\* Where a command goes only that command is moved.
LEMMA GoesFacts ==
    ASSUME Control, NEW c \in Cmds, NEW w \in Points, NEW a, Goes(c, w, a)
    PROVE  /\ pc' \in [Cmds -> Points] /\ DOMAIN arg' = Cmds
           /\ pc'[c] = w /\ arg'[c] = a
           /\ \A d \in Cmds : d # c => pc'[d] = pc[d] /\ arg'[d] = arg[d]
BY DEF Control, Goes

\* A step of one command that takes, keeps or frees the mutex and the latch.
LEMMA CmdControl ==
    ASSUME Control, NEW c \in Cmds, NEW w \in Points, NEW a, Goes(c, w, a), CmdArg(w, a),
           \/ holder' = holder /\ (w \in Holding <=> pc[c] \in Holding)
           \/ holder = None /\ holder' = c /\ w \in Holding
           \/ holder' = None /\ pc[c] \in Holding /\ w \notin Holding,
           \/ starting' = starting /\ (w \in StartSteps <=> pc[c] \in StartSteps)
           \/ starting = None /\ starting' = c /\ w \in StartSteps
           \/ starting' = None /\ pc[c] \in StartSteps /\ w \notin StartSteps
    PROVE  Control'
<1>1. /\ pc' \in [Cmds -> Points] /\ DOMAIN arg' = Cmds
      /\ pc'[c] = w /\ arg'[c] = a
      /\ \A d \in Cmds : d # c => pc'[d] = pc[d] /\ arg'[d] = arg[d]
    BY GoesFacts
<1>2. holder' \in Cmds \cup {None} /\ starting' \in Cmds \cup {None}
    BY DEF Control
<1>3. \A d \in Cmds : CmdArg(pc'[d], arg'[d])
    BY <1>1 DEF Control
<1>4. \A d \in Cmds : pc'[d] \in Holding <=> holder' = d
  <2>1. CASE holder' = holder /\ (w \in Holding <=> pc[c] \in Holding)
      BY <1>1, <2>1 DEF Control
  <2>2. CASE holder = None /\ holder' = c /\ w \in Holding
      BY <1>1, <2>2, AppAssumption DEF Control
  <2>3. CASE holder' = None /\ pc[c] \in Holding /\ w \notin Holding
      BY <1>1, <2>3, AppAssumption DEF Control
  <2> QED BY <2>1, <2>2, <2>3
<1>5. \A d \in Cmds : pc'[d] \in StartSteps <=> starting' = d
  <2>1. CASE starting' = starting /\ (w \in StartSteps <=> pc[c] \in StartSteps)
      BY <1>1, <2>1 DEF Control
  <2>2. CASE starting = None /\ starting' = c /\ w \in StartSteps
      BY <1>1, <2>2, AppAssumption DEF Control
  <2>3. CASE starting' = None /\ pc[c] \in StartSteps /\ w \notin StartSteps
      BY <1>1, <2>3, AppAssumption DEF Control
  <2> QED BY <2>1, <2>2, <2>3
<1> QED BY <1>1, <1>2, <1>3, <1>4, <1>5 DEF Control

\* The points outside a chat and a start.
LEMMA QuietPoints ==
    ASSUME NEW w \in {"idle", "set", "boot", "account", "stop"}
    PROVE  w \in Points /\ w \notin Holding \cup StartSteps
BY DEF Points, Holding, StartSteps

\* A command that is idle, or at another point outside a chat and a start, goes on
\* or ends outside of them.
LEMMA QuietStep ==
    ASSUME TypeInv, NEW c \in Cmds, NEW w \in Points, NEW a, Goes(c, w, a), CmdArg(w, a),
           w \notin Holding \cup StartSteps, pc[c] \notin Holding \cup StartSteps,
           running, UNCHANGED <<running, holder, starting, spawned, host>>,
           UNCHANGED <<account, passphrase, tokens>>
              \/ (holder = None /\ (account' = None <=> passphrase' = None))
    PROVE  Control' /\ Linked' /\ Down'
<1>1. Control'
    BY CmdControl DEF TypeInv
<1>2. /\ pc'[c] = w /\ \A d \in Cmds : d # c => pc'[d] = pc[d]
    BY GoesFacts DEF TypeInv
<1>3. \A d \in Cmds : pc'[d] \in Holding \cup StartSteps => pc'[d] = pc[d]
    BY <1>2
<1>4. \A d \in Cmds : pc[d] \in {"hosts", "try"} => holder = d
    BY DEF TypeInv, Control, Holding
<1>5. \A d \in Cmds : pc'[d] \in {"hosts", "try"} => tokens' # <<>>
    BY <1>3, <1>4, AppAssumption DEF TypeInv, Linked, Holding
<1>6. Linked'
    BY <1>3, <1>5 DEF TypeInv, Linked, StartSteps
<1>7. Down'
    BY DEF Down
<1> QED BY <1>1, <1>6, <1>7

\* Steps of the app that leave every command where it is.
LEMMA StillStep ==
    ASSUME TypeInv, running,
           UNCHANGED <<running, pc, arg, holder, starting, spawned, host>>,
           UNCHANGED <<account, passphrase, tokens>>
              \/ (holder = None /\ (account' = None <=> passphrase' = None))
    PROVE  Control' /\ Linked' /\ Down'
<1>1. Control'
    BY DEF TypeInv, Control
<1>2. \A d \in Cmds : pc[d] \in {"hosts", "try"} => holder = d
    BY DEF TypeInv, Control, Holding
<1>3. Linked'
    BY <1>2, AppAssumption DEF TypeInv, Linked
<1> QED BY <1>1, <1>3 DEF Down

LEMMA WalletFrame == WalletTypeOK /\ UNCHANGED walletVars => WalletTypeOK'
BY DEF WalletTypeOK, walletVars

LEMMA HostFrame == HostData /\ UNCHANGED <<hostingVars, launches>> => HostData'
BY DEF HostData, hostingVars

\* The settings commands.
LEMMA AppTyped == TypeInv /\ AppNext /\ UNCHANGED <<walletVars, hostingVars, launches>> => TypeInv'
<1> SUFFICES ASSUME TypeInv, AppNext, UNCHANGED <<walletVars, hostingVars, launches>>
             PROVE  TypeInv'
    OBVIOUS
<1>1. PICK c \in Cmds :
          \/ \E r \in Relays, b \in Bases : SetSettingsSave(c, r, b)
          \/ SetSettingsApply(c)
          \/ ConnectStart(c)
          \/ ConnectFailed(c)
          \/ \E tunnel \in TunnelOffered : ConnectVerified(c, tunnel)
          \/ GrantConsent(c)
    BY DEF AppNext
<1>2. WalletTypeOK' /\ HostData'
    BY WalletFrame, HostFrame DEF TypeInv
<1>3. /\ running /\ UNCHANGED <<running, holder, starting, spawned, host>>
      /\ UNCHANGED <<account, passphrase, tokens>>
    BY <1>1 DEF SetSettingsSave, SetSettingsApply, ConnectStart, ConnectFailed, ConnectVerified,
       GrantConsent, Invoked, At, walletVars, hostingVars
<1>4. settings \in Settings /\ AppData
    BY DEF TypeInv, AppData
<1>5. ASSUME NEW s \in Settings, Saved(c, s), UNCHANGED raced, verified' \in VerifiedNet \cup {None}
      PROVE  AppData'
    BY <1>3, <1>4, <1>5 DEF Saved, AppData
<1>6. ASSUME NEW r \in Relays, NEW b \in Bases, SetSettingsSave(c, r, b) PROVE TypeInv'
  <2> DEFINE s == [settings EXCEPT !.relay = r, !.base = b, !.kc = TRUE]
  <2>1. s \in Settings
      BY <1>4, AppAssumption DEF Settings
  <2>2. Goes(c, "set", s) /\ settings_file' = s /\ pc[c] = "idle"
      BY <1>6 DEF SetSettingsSave, Invoked
  <2> HIDE DEF s
  <2>3. CmdArg("set", s)
      BY <2>1 DEF CmdArg, StartSteps, Childless, Resolved
  <2>4. AppData'
      BY <1>4, <1>6, <2>1, <2>2 DEF SetSettingsSave, AppData
  <2>5. Control' /\ Linked' /\ Down'
      BY <1>3, <2>2, <2>3, QuietStep, QuietPoints
  <2> QED BY <1>2, <2>4, <2>5 DEF TypeInv
<1>7. \A a : CmdArg("idle", a)
    BY DEF CmdArg, StartSteps, Childless, Resolved
<1>8. ASSUME Ends(c), pc[c] \notin Holding \cup StartSteps PROVE Control' /\ Linked' /\ Down'
    BY <1>3, <1>7, <1>8, QuietStep, QuietPoints DEF Ends
<1>9. CASE SetSettingsApply(c)
  <2>1. pc[c] = "set" /\ arg[c] \in Settings
      BY <1>9 DEF SetSettingsApply, At, TypeInv, Control, CmdArg
  <2>2. TrustAfter(arg[c]) \in VerifiedNet \cup {None}
      BY <1>4, <2>1 DEF TrustAfter, ManualVerified, VerifiedNet, Settings, AppData
  <2>3. AppData'
      BY <1>4, <1>9, <2>1, <2>2 DEF SetSettingsApply, AppData
  <2>4. Control' /\ Linked' /\ Down'
      BY <1>8, <1>9, <2>1 DEF SetSettingsApply, Holding, StartSteps
  <2> QED BY <1>2, <2>3, <2>4 DEF TypeInv
<1>10. CASE ConnectStart(c)
  <2>1. settings.relay \in Relays
      BY <1>4 DEF Settings
  <2>2. CmdArg("boot", settings.relay)
      BY <2>1 DEF CmdArg, StartSteps, Childless, Resolved
  <2>3. Goes(c, "boot", settings.relay) /\ pc[c] = "idle"
      BY <1>10 DEF ConnectStart, Invoked
  <2>4. Control' /\ Linked' /\ Down'
      BY <1>3, <2>2, <2>3, QuietStep, QuietPoints
  <2>5. AppData'
      BY <1>4, <1>10 DEF ConnectStart, AppData
  <2> QED BY <1>2, <2>4, <2>5 DEF TypeInv
<1>11. CASE ConnectFailed(c)
  <2>1. pc[c] = "boot" /\ Ends(c)
      BY <1>11 DEF ConnectFailed, At
  <2>2. Control' /\ Linked' /\ Down'
      BY <1>8, <2>1 DEF Holding, StartSteps
  <2>3. AppData'
      BY <1>4, <1>11 DEF ConnectFailed, AppData
  <2> QED BY <1>2, <2>2, <2>3 DEF TypeInv
<1>12. ASSUME NEW tunnel \in TunnelOffered, ConnectVerified(c, tunnel) PROVE TypeInv'
  <2>1. pc[c] = "boot" /\ Ends(c) /\ arg[c] \in Relays
      BY <1>12 DEF ConnectVerified, At, TypeInv, Control, CmdArg
  <2>2. Control' /\ Linked' /\ Down'
      BY <1>8, <2>1 DEF Holding, StartSteps
  <2>3. verified' \in VerifiedNet \cup {None}
      BY <1>12, <2>1, AppAssumption DEF ConnectVerified, VerifiedNet
  <2>4. [settings EXCEPT !.kc = TRUE] \in Settings
      BY <1>4 DEF Settings
  <2>5. AppData'
      BY <1>5, <1>12, <2>3, <2>4 DEF ConnectVerified
  <2> QED BY <1>2, <2>2, <2>5 DEF TypeInv
<1>13. CASE GrantConsent(c)
  <2>1. Control' /\ Linked' /\ Down'
      BY <1>3, <1>13, StillStep DEF GrantConsent
  <2>2. [settings EXCEPT !.consent = TRUE] \in Settings
      BY <1>4 DEF Settings
  <2>3. AppData'
    <3>1. verified' \in VerifiedNet \cup {None}
        BY <1>4, <1>13 DEF GrantConsent, AppData
    <3> QED BY <1>5, <1>13, <2>2, <3>1 DEF GrantConsent
  <2> QED BY <1>2, <2>1, <2>3 DEF TypeInv
<1> QED BY <1>1, <1>6, <1>9, <1>10, <1>11, <1>12, <1>13

\* What pop takes and leaves.
LEMMA PopFacts ==
    ASSUME NEW T, NEW s \in Seq(T), s # <<>>
    PROVE  /\ Front(s) \in Seq(T) /\ Last(s) \in T
           /\ Len(s) \in Nat \ {0} /\ Last(s) = s[Len(s)]
           /\ Len(Front(s)) = Len(s) - 1
           /\ \A i \in 1..(Len(s) - 1) : Front(s)[i] = s[i]
<1>1. Len(s) \in Nat /\ DOMAIN s = 1..Len(s)
    BY LenProperties
<1>2. Len(s) # 0
    BY EmptySeq
<1>3. \A i \in 1..Len(s) : s[i] \in T
    BY <1>1, ElementOfSeq
<1>4. \A i \in 1..(Len(s) - 1) : s[i] \in T
    BY <1>1, <1>3
<1>5. /\ SubSeq(s, 1, Len(s) - 1) \in Seq(T)
      /\ Len(SubSeq(s, 1, Len(s) - 1)) = IF 1 <= Len(s) - 1 THEN Len(s) - 1 - 1 + 1 ELSE 0
      /\ \A i \in 1..(Len(s) - 1 - 1 + 1) : SubSeq(s, 1, Len(s) - 1)[i] = s[1 + i - 1]
  <2>1. PICK k \in Nat : k = Len(s)
      BY <1>1
  <2>2. k - 1 \in Int
      OBVIOUS
  <2> QED BY <1>4, <2>1, <2>2, SubSeqProperties
<1>6. Len(Front(s)) = Len(s) - 1 /\ \A i \in 1..(Len(s) - 1) : Front(s)[i] = s[i]
    BY <1>1, <1>2, <1>5 DEF Front
<1> QED BY <1>1, <1>2, <1>3, <1>5, <1>6 DEF Front, Last

LEMMA LoadedType ==
    ASSUME WalletTypeOK, NEW p
    PROVE  Loaded(p) \in Seq(Tokens)
<1>1. tokens_file \notin {None, Torn} => tokens_file.toks \in Seq(Tokens)
    BY DEF WalletTypeOK, TokenFile
<1> QED BY <1>1, EmptySeq DEF Loaded, IsFile

\* A command that takes the mutex, keeps it, or returns with it.
LEMMA HoldStep ==
    ASSUME TypeInv, NEW c \in Cmds, NEW w \in Points, NEW a, Goes(c, w, a), CmdArg(w, a),
           w \notin StartSteps, pc[c] \notin StartSteps,
           \/ holder' = holder /\ w \in Holding /\ pc[c] \in Holding
           \/ holder = None /\ holder' = c /\ w \in Holding /\ account # None
           \/ holder' = None /\ pc[c] \in Holding /\ w \notin Holding,
           w \in {"hosts", "try"} => tokens' # <<>>,
           running, UNCHANGED <<running, starting, spawned, host, account, passphrase>>
    PROVE  Control' /\ Linked' /\ Down'
<1>1. Control'
    BY CmdControl DEF TypeInv
<1>2. /\ pc'[c] = w /\ \A d \in Cmds : d # c => pc'[d] = pc[d]
    BY GoesFacts DEF TypeInv
<1>3. \A d \in Cmds : pc'[d] \in StartSteps => pc'[d] = pc[d]
    BY <1>2
<1>4. \A d \in Cmds : d # c => pc[d] \notin Holding
    BY AppAssumption DEF TypeInv, Control
<1>5. \A d \in Cmds : pc'[d] \in {"hosts", "try"} => tokens' # <<>>
    BY <1>2, <1>4 DEF Holding
<1>6. holder' # None => account' # None
    BY DEF TypeInv, Control, Linked
<1>7. Linked'
    BY <1>3, <1>5, <1>6 DEF TypeInv, Linked, StartSteps
<1> QED BY <1>1, <1>7 DEF Down

LEMMA AppFrame ==
    ASSUME AppData, UNCHANGED <<running, settings, settings_file, verified, crossed, raced>>
    PROVE  AppData'
BY DEF AppData

\* The points of a chat and what their commands carry.
LEMMA HoldPoints ==
    /\ \A w \in Holding : w \in Points /\ w \notin StartSteps
    /\ \A w \in {"acquire", "hosts", "save", "idle"} : \A a : CmdArg(w, a)
BY DEF Holding, Points, StartSteps, CmdArg, Childless, Resolved

\* The account commands.
LEMMA AccountTyped ==
    ASSUME TypeInv, NEW c \in Cmds, UNCHANGED <<hostingVars, launches>>,
           \/ \E a \in Accts, p \in Passes : CreateAccount(c, a, p) \/ ImportAccount(c, a, p)
           \/ \E p \in Passes : Unlock(c, p)
           \/ AccountInstall(c) \/ Lock(c)
    PROVE  TypeInv'
<1>1. HostData' /\ UNCHANGED <<starting, spawned, host>>
    BY HostFrame DEF TypeInv, hostingVars
<1>2. AppData' /\ running /\ UNCHANGED <<running, holder>>
    BY AppFrame DEF TypeInv, CreateAccount, ImportAccount, Persisted, Unlock, AccountInstall, Lock,
       Invoked, At, appVars
<1>3. WalletTypeOK
    BY DEF TypeInv
<1>4. \A id \in Identity : CmdArg("account", id)
    BY DEF CmdArg, StartSteps, Childless, Resolved
<1>5. ASSUME NEW id \in Identity, pc[c] = "idle", Goes(c, "account", id),
             UNCHANGED <<account, passphrase, tokens>>, WalletTypeOK'
      PROVE  TypeInv'
  <2>1. Control' /\ Linked' /\ Down'
      BY <1>1, <1>2, <1>4, <1>5, QuietStep, QuietPoints
  <2> QED BY <1>1, <1>2, <1>5, <2>1 DEF TypeInv
<1>6. ASSUME NEW a \in Accts, NEW p \in Passes, Persisted(c, a, p), pc[c] = "idle"
      PROVE  TypeInv'
  <2>1. PICK id \in Identity : id = [acct |-> a, pass |-> p]
      BY DEF Identity
  <2>2. /\ Goes(c, "account", id) /\ UNCHANGED <<account, passphrase, tokens>>
        /\ keystore' = id /\ minted' = minted \cup {a} /\ swapped' \in BOOLEAN
        /\ UNCHANGED <<tokens_file, burned, stray, held, settled, mishaps>>
      BY <1>6, <2>1, <1>3 DEF Persisted, inner, origin, WalletTypeOK
  <2>3. WalletTypeOK'
      BY <1>3, <2>2 DEF WalletTypeOK
  <2> QED BY <1>5, <1>6, <2>2, <2>3
<1>7. ASSUME NEW p \in Passes, Unlock(c, p) PROVE TypeInv'
  <2>1. keystore \in Identity /\ Goes(c, "account", keystore) /\ pc[c] = "idle"
      BY <1>3, <1>7 DEF Unlock, KeystoreOpens, IsFile, WalletTypeOK, Invoked
  <2>2. UNCHANGED <<account, passphrase, tokens>> /\ WalletTypeOK'
      BY <1>3, <1>7, WalletFrame DEF Unlock, walletVars
  <2> QED BY <1>5, <2>1, <2>2
<1>8. CASE AccountInstall(c)
  <2>1. /\ pc[c] = "account" /\ arg[c] \in Identity /\ holder = None /\ Ends(c)
      BY <1>8 DEF AccountInstall, At, Unlocked, TypeInv, Control, CmdArg
  <2>2. /\ account' = arg[c].acct /\ passphrase' = arg[c].pass /\ tokens' = Loaded(arg[c].pass)
        /\ UNCHANGED <<keystore, tokens_file, burned, stray, minted, held, settled, swapped, mishaps>>
      BY <1>8 DEF AccountInstall, files, origin, history
  <2>3. arg[c].acct \in Accts /\ arg[c].pass \in Passes /\ Loaded(arg[c].pass) \in Seq(Tokens)
      BY <1>3, <2>1, LoadedType DEF Identity
  <2>4. WalletTypeOK'
      BY <1>3, <2>2, <2>3 DEF WalletTypeOK
  <2>5. account' # None /\ passphrase' # None
      BY <2>2, <2>3, NoFile
  <2>6. Control' /\ Linked' /\ Down'
      BY <1>1, <1>2, <2>1, <2>5, HoldPoints, QuietStep, QuietPoints DEF Ends
  <2> QED BY <1>1, <1>2, <2>4, <2>6 DEF TypeInv
<1>9. CASE Lock(c)
  <2>1. /\ holder = None /\ account' = None /\ passphrase' = None /\ tokens' = <<>>
        /\ UNCHANGED <<keystore, tokens_file, burned, stray, minted, held, settled, swapped, mishaps>>
        /\ UNCHANGED <<pc, arg>>
      BY <1>9 DEF Lock, Unlocked, appVars, files, origin, history
  <2>2. WalletTypeOK'
      BY <1>3, <2>1, EmptySeq DEF WalletTypeOK
  <2>3. Control' /\ Linked' /\ Down'
      BY <1>1, <1>2, <2>1, StillStep
  <2> QED BY <1>1, <1>2, <2>2, <2>3 DEF TypeInv
<1> QED BY <1>6, <1>7, <1>8, <1>9 DEF CreateAccount, ImportAccount, Invoked

\* Acquiring and spending.
LEMMA SpendTyped ==
    ASSUME TypeInv, NEW c \in Cmds, UNCHANGED <<hostingVars, launches>>,
           \/ AcquireStart(c) \/ AcquireFailed(c)
           \/ SendStart(c) \/ SendFailed(c)
           \/ TryOk(c) \/ Try409(c)
           \/ Save(c) \/ SaveFailed(c, tokens_file) \/ SaveFailed(c, Torn)
           \/ \E t \in Tokens : Acquired(c, t)
           \/ \E n \in 1..MaxHosts : SendHosts(c, n)
           \/ \E spent, late \in BOOLEAN : TryNext(c, spent, late)
    PROVE  TypeInv'
<1>1. HostData' /\ UNCHANGED <<starting, spawned, host>>
    BY HostFrame DEF TypeInv, hostingVars
<1>2. AppData' /\ running /\ UNCHANGED running
    BY AppFrame DEF TypeInv, AcquireStart, AcquireFailed, SendStart, SendFailed, TryOk, Try409, Save,
       SaveFailed, Acquired, SendHosts, TryNext, Takes, Returns, Continues, Invoked, At
<1>3. WalletTypeOK
    BY DEF TypeInv
<1>4. ASSUME NEW w \in {"acquire", "hosts"}, Takes(c, w), pc[c] = "idle",
             w = "hosts" => tokens # <<>>
      PROVE  TypeInv'
  <2>1. /\ holder = None /\ holder' = c /\ account # None /\ Goes(c, w, None)
        /\ UNCHANGED <<account, passphrase, tokens>> /\ WalletTypeOK'
      BY <1>3, <1>4, WalletFrame DEF Takes, Unlocked, Ready, walletVars
  <2>2. w \in Holding /\ CmdArg(w, None) /\ w # "try"
      BY HoldPoints DEF Holding
  <2>3. Control' /\ Linked' /\ Down'
      BY <1>1, <1>2, <1>4, <2>1, <2>2, HoldStep, HoldPoints, QuietPoints
  <2> QED BY <1>1, <1>2, <2>1, <2>3 DEF TypeInv
<1>5. ASSUME Returns(c), pc[c] \in Holding, UNCHANGED <<account, passphrase>>, WalletTypeOK'
      PROVE  TypeInv'
  <2>1. holder' = None /\ Goes(c, "idle", None)
      BY <1>5 DEF Returns, Ends
  <2>2. "idle" \notin Holding /\ CmdArg("idle", None) /\ "idle" \in Points /\ "idle" \notin StartSteps
      BY HoldPoints, QuietPoints
  <2>3. Control' /\ Linked' /\ Down'
      BY <1>1, <1>2, <1>5, <2>1, <2>2, HoldStep, HoldPoints
  <2> QED BY <1>1, <1>2, <1>5, <2>3 DEF TypeInv
<1>6. ASSUME NEW w \in {"try", "save"}, NEW a, Continues(c, w, a), pc[c] \in Holding, CmdArg(w, a),
             UNCHANGED <<account, passphrase>>, WalletTypeOK', w = "try" => tokens' # <<>>
      PROVE  TypeInv'
  <2>1. holder' = holder /\ Goes(c, w, a)
      BY <1>6 DEF Continues
  <2>2. w \in Holding /\ w # "hosts"
      BY DEF Holding
  <2>3. Control' /\ Linked' /\ Down'
      BY <1>1, <1>2, <1>6, <2>1, <2>2, HoldStep, HoldPoints
  <2> QED BY <1>1, <1>2, <1>6, <2>3 DEF TypeInv
<1>7. {"acquire", "hosts", "try", "save"} \subseteq Holding /\ CmdArg("save", None)
    BY HoldPoints DEF Holding
<1>8. CASE AcquireStart(c) \/ SendStart(c)
    BY <1>4, <1>8 DEF AcquireStart, SendStart, Invoked
<1>9. CASE AcquireFailed(c) \/ SendFailed(c)
  <2>1. UNCHANGED <<account, passphrase>> /\ WalletTypeOK'
      BY <1>3, <1>9, WalletFrame DEF AcquireFailed, SendFailed, walletVars
  <2> QED BY <1>5, <1>7, <1>9, <2>1 DEF AcquireFailed, SendFailed, At
<1>10. ASSUME NEW t \in Tokens, Acquired(c, t) PROVE TypeInv'
  <2>1. /\ pc[c] \in Holding /\ Continues(c, "save", None)
        /\ tokens' = Append(tokens, t) /\ held' = held \cup {t}
        /\ UNCHANGED <<keystore, tokens_file, account, passphrase, burned, stray, minted, settled,
                       swapped, mishaps>>
      BY <1>7, <1>10 DEF Acquired, At, files, origin
  <2>2. Append(tokens, t) \in Seq(Tokens)
      BY <1>3, AppendProperties DEF WalletTypeOK
  <2>3. WalletTypeOK'
      BY <1>3, <2>1, <2>2 DEF WalletTypeOK
  <2> QED BY <1>6, <1>7, <2>1, <2>3
<1>11. ASSUME NEW n \in 1..MaxHosts, SendHosts(c, n) PROVE TypeInv'
  <2>1. PICK a \in [hosts : 1..MaxHosts] : a = [hosts |-> n]
      OBVIOUS
  <2>2. pc[c] = "hosts" /\ Continues(c, "try", a) /\ UNCHANGED walletVars
      BY <1>11, <2>1 DEF SendHosts, At
  <2>3. CmdArg("try", a)
      BY DEF CmdArg, StartSteps, Childless, Resolved
  <2>4. UNCHANGED <<account, passphrase>> /\ WalletTypeOK' /\ tokens' # <<>>
      BY <1>3, <2>2, WalletFrame DEF walletVars, TypeInv, Linked
  <2> QED BY <1>6, <1>7, <2>2, <2>3, <2>4
<1>12. ASSUME pc[c] = "try"
       PROVE  /\ tokens # <<>> /\ tokens \in Seq(Tokens)
              /\ Front(tokens) \in Seq(Tokens) /\ Last(tokens) \in Tokens
              /\ arg[c] \in [hosts : 1..MaxHosts]
  <2>1. tokens # <<>> /\ tokens \in Seq(Tokens)
      BY <1>3, <1>12 DEF TypeInv, Linked, WalletTypeOK
  <2>2. arg[c] \in [hosts : 1..MaxHosts]
      BY <1>12 DEF TypeInv, Control, CmdArg
  <2> QED BY <2>1, <2>2, PopFacts
<1>13. CASE TryOk(c) \/ Try409(c)
  <2>1. /\ pc[c] = "try" /\ Continues(c, "save", None)
        /\ tokens' = Front(tokens)
        /\ burned' = burned \/ burned' = burned \cup {Last(tokens)}
        /\ settled' = settled \/ settled' = settled \cup {Last(tokens)}
        /\ mishaps' = mishaps \/ mishaps' = mishaps \cup {"refused"}
        /\ UNCHANGED <<keystore, tokens_file, account, passphrase, stray, minted, held, swapped>>
      BY <1>13 DEF TryOk, Try409, At, files, origin, Popped
  <2>2. burned' \subseteq Tokens /\ settled' \subseteq Tokens /\ mishaps' \subseteq Mishaps
      BY <1>3, <1>12, <2>1 DEF WalletTypeOK, Mishaps
  <2>3. WalletTypeOK'
      BY <1>3, <1>12, <2>1, <2>2 DEF WalletTypeOK
  <2> QED BY <1>6, <1>7, <2>1, <2>3
<1>14. ASSUME NEW spent \in BOOLEAN, NEW late \in BOOLEAN, TryNext(c, spent, late) PROVE TypeInv'
  <2>1. /\ pc[c] = "try"
        /\ burned' = burned \/ burned' = burned \cup {Last(tokens)}
        /\ stray' = stray \/ stray' = stray \cup {Last(tokens)}
        /\ UNCHANGED <<keystore, tokens_file, account, passphrase, tokens, minted, held, settled,
                       swapped, mishaps>>
      BY <1>14 DEF TryNext, At, files, inner, history
  <2>2. burned' \subseteq Tokens /\ stray' \subseteq Tokens
      BY <1>3, <1>12, <2>1 DEF WalletTypeOK
  <2>3. WalletTypeOK'
      BY <1>3, <2>1, <2>2 DEF WalletTypeOK
  <2>4. CASE Continues(c, "save", None)
      BY <1>6, <1>7, <2>1, <2>3, <2>4
  <2>5. CASE arg[c].hosts > 1 /\ Continues(c, "try", [hosts |-> arg[c].hosts - 1])
    <3>1. arg[c].hosts - 1 \in 1..MaxHosts
        BY <1>12, <2>1, <2>5, WalletAssumption
    <3>2. PICK a \in [hosts : 1..MaxHosts] : a = [hosts |-> arg[c].hosts - 1]
        BY <3>1
    <3>3. CmdArg("try", a)
        BY DEF CmdArg, StartSteps, Childless, Resolved
    <3> QED BY <1>6, <1>7, <1>12, <2>1, <2>3, <2>5, <3>2, <3>3
  <2> QED BY <1>14, <2>4, <2>5 DEF TryNext
<1>15. CASE Save(c) \/ SaveFailed(c, tokens_file) \/ SaveFailed(c, Torn)
  <2>1. /\ pc[c] = "save" /\ Returns(c)
        /\ \/ tokens_file' = [pass |-> passphrase, toks |-> tokens]
           \/ tokens_file' \in {tokens_file, Torn}
        /\ mishaps' = mishaps \/ (\E m \in {"disk", "overwritten"} : mishaps' = mishaps \cup {m})
        /\ UNCHANGED <<keystore, account, passphrase, tokens, burned, stray, minted, held, settled,
                       swapped>>
      BY <1>15 DEF Save, SaveFailed, At, inner, origin
  <2>2. passphrase \in Passes /\ tokens \in Seq(Tokens)
    <3>1. holder = c
        BY <1>7, <2>1 DEF TypeInv, Control
    <3> QED BY <1>3, <3>1, AppAssumption DEF TypeInv, Linked, WalletTypeOK
  <2>3. tokens_file' \in {None, Torn} \/ tokens_file' \in TokenFile
      BY <1>3, <2>1, <2>2 DEF TokenFile, WalletTypeOK
  <2>4. mishaps' \subseteq Mishaps
      BY <1>3, <2>1 DEF WalletTypeOK, Mishaps
  <2>5. WalletTypeOK'
      BY <1>3, <2>1, <2>3, <2>4 DEF WalletTypeOK
  <2> QED BY <1>5, <1>7, <2>1, <2>5
<1> QED BY <1>8, <1>9, <1>10, <1>11, <1>13, <1>14, <1>15

\* The origin gets to a spend, whether or not the app runs.
LEMMA LateTyped ==
    ASSUME TypeInv, UNCHANGED <<hostingVars, launches>>, NEW t \in Tokens, LateSpend(t)
    PROVE  TypeInv'
<1>1. /\ burned' = burned \cup {t}
      /\ UNCHANGED <<appVars, hostingVars, keystore, tokens_file, account, passphrase, tokens, stray,
                     minted, held, settled, swapped, mishaps>>
    BY DEF LateSpend, files, inner, history
<1>2. WalletTypeOK'
    BY <1>1 DEF TypeInv, WalletTypeOK
<1>3. Control' /\ AppData' /\ HostData'
    BY <1>1, HostFrame DEF TypeInv, Control, AppData, appVars, hostingVars
<1>4. Linked' /\ Down'
    BY <1>1 DEF TypeInv, Linked, Down, appVars, hostingVars
<1> QED BY <1>2, <1>3, <1>4 DEF TypeInv

LEMMA WalletTyped == TypeInv /\ WalletNext /\ UNCHANGED <<hostingVars, launches>> => TypeInv'
BY AccountTyped, SpendTyped, LateTyped DEF WalletNext

-----------------------------------------------------------------------------
(* The types of host_start and host_stop. *)

\* The start in progress is the only one.
LEMMA OnlyStart ==
    ASSUME Control, NEW c \in Cmds, pc[c] \in StartSteps
    PROVE  starting = c /\ \A d \in Cmds : d # c => pc[d] \notin StartSteps
BY DEF Control

\* A start goes on.
LEMMA StartStep ==
    ASSUME TypeInv, NEW c \in Cmds, NEW w \in StartSteps \ {"read"}, NEW a \in Start,
           Goes(c, w, a), pc[c] \in StartSteps, running,
           w \in Childless => a.child = 0, w \in Resolved => a.base = "ollama",
           w = "spawn" => spawned' < MaxSpawns, host = None,
           UNCHANGED <<running, holder, starting, host, account, passphrase, tokens>>
    PROVE  Control' /\ Linked' /\ Down'
<1>1. w \in Points /\ w \notin Holding
    BY DEF StartSteps, Points, Holding
<1>2. CmdArg(w, a)
    BY DEF CmdArg, StartSteps
<1>3. pc[c] \notin Holding
    BY DEF StartSteps, Holding
<1>4. Control'
    BY <1>1, <1>2, <1>3, CmdControl DEF TypeInv
<1>5. pc'[c] = w /\ \A d \in Cmds : d # c => pc'[d] = pc[d]
    BY <1>1, GoesFacts DEF TypeInv
<1>6. \A d \in Cmds : pc'[d] = "spawn" => d = c
    BY <1>5, OnlyStart DEF TypeInv, StartSteps
<1>7. \A d \in Cmds : pc'[d] \in {"hosts", "try"} => pc[d] = pc'[d]
    BY <1>1, <1>5 DEF Holding
<1>8. Linked'
    BY <1>5, <1>6, <1>7 DEF TypeInv, Linked
<1> QED BY <1>4, <1>8 DEF Down

\* A start ends, one way or the other.
LEMMA StartEnds ==
    ASSUME TypeInv, NEW c \in Cmds, Ends(c), pc[c] \in StartSteps, running, starting' = None,
           UNCHANGED <<running, holder, account, passphrase, tokens>>
    PROVE  Control' /\ Linked' /\ Down'
<1>1. /\ "idle" \in Points /\ "idle" \notin Holding /\ "idle" \notin StartSteps
      /\ CmdArg("idle", None) /\ pc[c] \notin Holding
  <2>1. pc[c] \notin Holding
      BY DEF StartSteps, Holding
  <2> QED BY <2>1, QuietPoints, HoldPoints
<1>2. Control'
    BY <1>1, CmdControl DEF TypeInv, Ends
<1>3. pc'[c] = "idle" /\ \A d \in Cmds : d # c => pc'[d] = pc[d]
    BY <1>1, GoesFacts DEF TypeInv, Ends
<1>4. \A d \in Cmds : pc'[d] \notin StartSteps
    BY <1>1, <1>3, OnlyStart DEF TypeInv
<1>5. \A d \in Cmds : pc'[d] \in {"hosts", "try"} => pc[d] = pc'[d]
    BY <1>3
<1>6. Linked'
    BY <1>4, <1>5 DEF TypeInv, Linked, StartSteps
<1> QED BY <1>2, <1>6 DEF Down

\* What a start carries.
LEMMA StartArg ==
    ASSUME TypeInv, NEW c \in Cmds, pc[c] \in StartSteps \ {"read"}
    PROVE  /\ arg[c] \in Start /\ host = None
           /\ pc[c] \in Childless => arg[c].child = 0
           /\ pc[c] \in Resolved => arg[c].base = "ollama"
           /\ arg[c].child \in 0..MaxSpawns /\ arg[c].base \in {"", "ollama"}
           /\ arg[c].pass \in Passes /\ arg[c].consent \in BOOLEAN /\ arg[c].tunnel \in BOOLEAN
<1>1. arg[c] \in Start /\ host = None
    BY DEF TypeInv, Control, CmdArg, Linked
<1>2. /\ pc[c] \in Childless => arg[c].child = 0
      /\ pc[c] \in Resolved => arg[c].base = "ollama"
    BY DEF TypeInv, Control, CmdArg
<1> QED BY <1>1, <1>2 DEF Start

\* The port after a kill.
LEMMA KillType ==
    ASSUME HostData, NEW child, Kill(child)
    PROVE  listener' \in 1..MaxSpawns \/ listener' \in {None, User}
BY DEF HostData, Kill

\* The steps of a start that only read or fail.
LEMMA StartTyped ==
    ASSUME TypeInv, NEW c \in Cmds, UNCHANGED launches,
           \/ StartLatch(c) \/ ReadRefused(c) \/ ReadInner(c)
           \/ DetectFound(c) \/ DetectNothing(c)
           \/ Install(c) \/ InstallFailed(c)
           \/ ServingAlready(c) \/ ServingNobody(c)
           \/ Spawn(c) \/ SpawnFails(c) \/ ChildReady(c) \/ ChildNotReady(c)
           \/ ModelReady(c) \/ ModelFailed(c)
           \/ HostKeyLoaded(c) \/ HostKeyRefused(c)
           \/ HostAccountLoaded(c) \/ HostAccountRefused(c)
           \/ HandleStarted(c) \/ HandleFailed(c)
    PROVE  TypeInv'
<1>1. HostData /\ AppData /\ WalletTypeOK /\ Control
    BY DEF TypeInv
<1>2. ASSUME UNCHANGED <<appRest, walletVars>>
      PROVE  /\ AppData' /\ WalletTypeOK'
             /\ UNCHANGED <<running, holder, account, passphrase, tokens>>
    BY <1>1, <1>2, AppFrame, WalletFrame DEF appRest, walletVars
<1>3. ASSUME NEW child, StartFails(c, child), At(c, pc[c]), pc[c] \in StartSteps PROVE TypeInv'
  <2>1. UNCHANGED <<appRest, walletVars>> /\ starting' = None /\ Ends(c) /\ running
      BY <1>3 DEF StartFails, At
  <2>2. HostData'
      BY <1>1, <1>3, KillType DEF StartFails, HostData
  <2> QED BY <1>2, <1>3, <2>1, <2>2, StartEnds DEF TypeInv
<1>4. ASSUME NEW w \in StartSteps \ {"read"}, NEW a \in Start, Goes(c, w, a), running,
             pc[c] \in StartSteps, UNCHANGED <<appRest, walletVars, starting, host>>, host = None,
             w \in Childless => a.child = 0, w \in Resolved => a.base = "ollama",
             w = "spawn" => spawned' < MaxSpawns, HostData'
      PROVE  TypeInv'
    BY <1>2, <1>4, StartStep DEF TypeInv
<1>5. CASE StartLatch(c)
  <2>1. /\ pc[c] = "idle" /\ starting = None /\ starting' = c /\ Goes(c, "read", None) /\ running
        /\ UNCHANGED <<appRest, walletVars, host, host_key, host_account, listener, spawned,
                       installed, stranded>>
      BY <1>5 DEF StartLatch, Invoked, machine
  <2>2. "read" \in Points /\ "read" \in StartSteps /\ CmdArg("read", None) /\ "read" \notin Holding
        /\ "idle" \notin Holding
      BY DEF Points, StartSteps, CmdArg, Childless, Resolved, Holding
  <2>3. Control'
      BY <1>1, <1>2, <2>1, <2>2, CmdControl
  <2>4. pc'[c] = "read" /\ \A d \in Cmds : d # c => pc'[d] = pc[d]
      BY <1>1, <2>1, <2>2, GoesFacts
  <2>5. Linked' /\ Down'
      BY <1>2, <2>1, <2>4 DEF TypeInv, Linked, Down
  <2>6. HostData'
      BY <1>1, <2>1 DEF HostData
  <2> QED BY <1>2, <2>1, <2>3, <2>5, <2>6 DEF TypeInv
<1>6. ASSUME UNCHANGED <<host, host_key, host_account, machine, stranded>> PROVE HostData'
    BY <1>1, <1>6 DEF HostData, machine
<1>7. CASE ReadInner(c)
  <2> DEFINE w == IF settings.base = "" THEN "detect" ELSE "key"
             a == [base |-> settings.base, pass |-> passphrase, consent |-> settings.consent,
                   tunnel |-> verified # None /\ verified.tunnel, child |-> 0]
  <2>1. /\ Goes(c, w, a) /\ running /\ pc[c] = "read" /\ host = None
        /\ UNCHANGED <<appRest, walletVars, starting, host, host_key, host_account, machine, stranded>>
      BY <1>7 DEF ReadInner, StartGoes, At
  <2>2. /\ settings.base \in {"", "ollama"} /\ settings.consent \in BOOLEAN
        /\ passphrase \in Passes
    <3>1. account # None
        BY <1>7 DEF ReadInner
    <3> QED BY <1>1, <3>1 DEF TypeInv, Linked, AppData, Settings, WalletTypeOK
  <2>3. (verified # None /\ verified.tunnel) \in BOOLEAN
    <3>1. verified # None => verified.tunnel \in BOOLEAN
        BY <1>1 DEF AppData, VerifiedNet
    <3> QED BY <3>1
  <2>4. 0 \in 0..MaxSpawns
      BY HostingAssumption
  <2>5. a \in Start /\ a.child = 0 /\ a.base = settings.base
      BY <2>2, <2>3, <2>4 DEF Start
  <2>6. w \in StartSteps \ {"read"} /\ w # "spawn" /\ (w \in Resolved => settings.base = "ollama")
      BY <2>2 DEF StartSteps, Resolved
  <2> HIDE DEF w, a
  <2>7. "read" \in StartSteps
      BY DEF StartSteps
  <2> QED BY <1>4, <1>6, <2>1, <2>5, <2>6, <2>7
<1>8. /\ {"detect", "provide", "serve", "spawn", "boot_child", "model", "key", "identity", "up",
          "store"} \subseteq StartSteps \ {"read"}
      /\ "read" \in StartSteps
      /\ {"serve", "spawn", "detect", "provide"} = Childless
      /\ {"key", "identity", "up", "store"} = Resolved
    BY DEF StartSteps, Childless, Resolved
<1>9. CASE \/ ReadRefused(c) \/ InstallFailed(c) \/ SpawnFails(c) \/ ChildNotReady(c) \/ ModelFailed(c)
           \/ HostKeyRefused(c) \/ HostAccountRefused(c) \/ HandleFailed(c)
    BY <1>3, <1>8, <1>9 DEF ReadRefused, InstallFailed, SpawnFails, ChildNotReady, ModelFailed,
       HostKeyRefused, HostAccountRefused, HandleFailed, At
<1>10. ASSUME NEW w \in StartSteps \ {"read"}, StartGoes(c, w, arg[c]), running,
              pc[c] \in StartSteps \ {"read"},
              w \in Childless => pc[c] \in Childless, w \in Resolved => pc[c] \in Resolved,
              w = "spawn" => spawned' < MaxSpawns, HostData'
       PROVE  TypeInv'
  <2>1. /\ arg[c] \in Start /\ host = None
        /\ w \in Childless => arg[c].child = 0
        /\ w \in Resolved => arg[c].base = "ollama"
      BY <1>10, StartArg
  <2> QED BY <1>4, <1>10, <2>1 DEF StartGoes
<1>11. ASSUME StartGoes(c, "key", [arg[c] EXCEPT !.base = "ollama"]), running,
              pc[c] \in StartSteps \ {"read"}, UNCHANGED <<machine, stranded>>
       PROVE  TypeInv'
  <2> DEFINE a == [arg[c] EXCEPT !.base = "ollama"]
  <2>1. arg[c] \in Start /\ host = None
      BY <1>11, StartArg
  <2>2. a \in Start /\ a.base = "ollama"
      BY <2>1 DEF Start
  <2>3. Goes(c, "key", a) /\ UNCHANGED <<appRest, walletVars, starting, host, host_key, host_account>>
      BY <1>11 DEF StartGoes
  <2>4. HostData'
      BY <1>6, <1>11, <2>3
  <2>5. "key" \notin Childless /\ "key" \in StartSteps \ {"read"}
      BY <1>8
  <2> HIDE DEF a
  <2> QED BY <1>4, <1>11, <2>1, <2>2, <2>3, <2>4, <2>5
<1>12. CASE DetectFound(c)
    BY <1>3, <1>8, <1>11, <1>12 DEF DetectFound, At
<1>13. CASE ModelReady(c)
    BY <1>8, <1>11, <1>13 DEF ModelReady, At
<1>14. CASE DetectNothing(c)
  <2>1. PICK w \in {"serve", "provide"} : StartGoes(c, w, arg[c])
      BY <1>14 DEF DetectNothing
  <2>2. HostData' /\ pc[c] = "detect" /\ running
      BY <1>6, <1>14 DEF DetectNothing, StartGoes, At
  <2>3. w \in StartSteps \ {"read"} /\ w \notin Resolved /\ w # "spawn"
      BY DEF StartSteps, Resolved
  <2> QED BY <1>8, <1>10, <2>1, <2>2, <2>3
<1>15. CASE Install(c)
  <2>1. HostData' /\ StartGoes(c, "serve", arg[c]) /\ pc[c] = "provide" /\ running
      BY <1>1, <1>15 DEF Install, StartGoes, At, HostData
  <2>2. "serve" \notin Resolved
      BY <1>8
  <2> QED BY <1>8, <1>10, <2>1, <2>2
<1>16. CASE ServingAlready(c) \/ ChildReady(c)
  <2>1. HostData' /\ StartGoes(c, "model", arg[c]) /\ pc[c] \in {"serve", "boot_child"} /\ running
      BY <1>6, <1>16 DEF ServingAlready, ChildReady, StartGoes, At
  <2>2. "model" \notin Resolved \cup Childless
      BY <1>8
  <2> QED BY <1>8, <1>10, <2>1, <2>2
<1>17. CASE ServingNobody(c)
  <2>1. /\ HostData' /\ StartGoes(c, "spawn", arg[c]) /\ pc[c] = "serve" /\ running
        /\ spawned' < MaxSpawns
      BY <1>6, <1>17 DEF ServingNobody, StartGoes, At, machine
  <2>2. "spawn" \notin Resolved
      BY <1>8
  <2> QED BY <1>8, <1>10, <2>1, <2>2
<1>18. CASE HandleStarted(c)
  <2>1. HostData' /\ StartGoes(c, "store", arg[c]) /\ pc[c] = "up" /\ running
      BY <1>6, <1>18 DEF HandleStarted, StartGoes, At
  <2>2. "store" \notin Childless
      BY <1>8
  <2> QED BY <1>8, <1>10, <2>1, <2>2
<1>19. CASE Spawn(c)
  <2> DEFINE a == [arg[c] EXCEPT !.child = spawned + 1]
  <2>1. pc[c] = "spawn" /\ running /\ arg[c] \in Start /\ host = None
      BY <1>8, <1>19, StartArg DEF Spawn, At
  <2>2. spawned \in 0..MaxSpawns /\ spawned < MaxSpawns /\ spawned + 1 \in 1..MaxSpawns
        /\ spawned + 1 \in 0..MaxSpawns
      BY <1>1, <2>1, HostingAssumption DEF TypeInv, Linked, HostData
  <2>3. a \in Start
      BY <2>1, <2>2 DEF Start
  <2>4. /\ Goes(c, "boot_child", a) /\ spawned' = spawned + 1
        /\ listener' \in {spawned + 1, listener}
        /\ UNCHANGED <<appRest, walletVars, starting, host, host_key, host_account, installed,
                       stranded>>
      BY <1>19 DEF Spawn, StartGoes
  <2>5. HostData'
      BY <1>1, <2>2, <2>4 DEF HostData
  <2>6. "boot_child" \in StartSteps \ {"read"} /\ "boot_child" \notin Childless \cup Resolved
      BY <1>8
  <2> HIDE DEF a
  <2> QED BY <1>4, <1>8, <2>1, <2>3, <2>4, <2>5, <2>6
<1>20. CASE HostKeyLoaded(c) \/ HostAccountLoaded(c)
  <2>1. PICK w \in {"identity", "up"} :
            /\ Goes(c, w, arg[c]) /\ pc[c] \in {"key", "identity"} /\ running
            /\ UNCHANGED <<appRest, walletVars, starting, host, listener, spawned, installed,
                           stranded>>
            /\ host_key' \in {host_key, arg[c].pass} /\ host_account' \in {host_account, arg[c].pass}
      BY <1>20 DEF HostKeyLoaded, HostAccountLoaded, At, machine
  <2>2. /\ arg[c] \in Start /\ host = None /\ arg[c].base = "ollama" /\ arg[c].pass \in Passes
      BY <1>8, <2>1, StartArg
  <2>3. HostData'
      BY <1>1, <2>1, <2>2 DEF HostData
  <2>4. w \in StartSteps \ {"read"} /\ w \notin Childless /\ w # "spawn"
      BY <1>8
  <2> QED BY <1>4, <1>8, <2>1, <2>2, <2>3, <2>4
<1> QED BY <1>5, <1>7, <1>9, <1>12, <1>13, <1>14, <1>15, <1>16, <1>17, <1>18, <1>19, <1>20

\* The handle is stored, taken and stopped.
LEMMA HandleTyped ==
    ASSUME TypeInv, NEW c \in Cmds, UNCHANGED launches,
           Store(c) \/ StopTake(c) \/ Stopped(c)
    PROVE  TypeInv'
<1>1. HostData /\ AppData /\ WalletTypeOK /\ Control
    BY DEF TypeInv
<1>2. WalletTypeOK' /\ running /\ UNCHANGED <<running, holder, account, passphrase, tokens>>
    BY <1>1, WalletFrame DEF Store, StopTake, Stopped, At, Invoked, appRest, walletVars
<1>3. CASE Store(c)
  <2>1. pc[c] = "store" /\ pc[c] \in StartSteps /\ pc[c] \in StartSteps \ {"read"}
        /\ pc[c] \in Resolved
      BY <1>3 DEF Store, At, StartSteps, Resolved
  <2>2. arg[c] \in Start /\ host = None /\ arg[c].base = "ollama" /\ arg[c].child \in 0..MaxSpawns
      BY <2>1, StartArg
  <2>3. PICK h \in HostHandle : h = [child |-> arg[c].child, base |-> arg[c].base]
      BY <2>2 DEF HostHandle
  <2>4. PICK s \in Settings : s = [settings EXCEPT !.base = arg[c].base]
      BY <1>1, <2>2 DEF AppData, Settings
  <2>5. /\ host' = h /\ Saved(c, s) /\ Kill(0) /\ starting' = None /\ Ends(c)
        /\ UNCHANGED <<running, verified, raced, host_key, host_account, spawned, installed, stranded>>
      BY <1>3, <2>2, <2>3, <2>4 DEF Store
  <2>6. Control' /\ Linked' /\ Down'
      BY <1>2, <2>1, <2>5, StartEnds
  <2>7. AppData'
      BY <1>1, <2>5 DEF AppData, Saved
  <2>8. HostData'
      BY <1>1, <2>5, KillType DEF HostData
  <2> QED BY <1>2, <2>6, <2>7, <2>8 DEF TypeInv
<1>4. CASE StopTake(c)
  <2>1. /\ pc[c] = "idle" /\ host \in HostHandle /\ host' = None /\ Goes(c, "stop", host)
        /\ UNCHANGED <<starting, host_key, host_account, listener, spawned, installed, stranded>>
        /\ UNCHANGED appRest
      BY <1>1, <1>4 DEF StopTake, Invoked, machine, HostData
  <2>2. CmdArg("stop", host)
      BY <2>1 DEF CmdArg, StartSteps, Childless, Resolved
  <2>3. pc[c] \notin Holding \cup StartSteps /\ "stop" \notin Holding \cup StartSteps
        /\ "stop" \in Points
      BY <2>1, QuietPoints
  <2>4. Control'
      BY <1>1, <1>2, <2>1, <2>2, <2>3, CmdControl
  <2>5. pc'[c] = "stop" /\ \A d \in Cmds : d # c => pc'[d] = pc[d]
      BY <1>1, <2>1, <2>3, GoesFacts
  <2>6. Linked' /\ Down'
      BY <1>2, <2>1, <2>5 DEF TypeInv, Linked, Down
  <2>7. AppData' /\ HostData'
      BY <1>1, <2>1, AppFrame DEF appRest, HostData
  <2> QED BY <1>2, <2>4, <2>6, <2>7 DEF TypeInv
<1>5. CASE Stopped(c)
  <2>1. /\ pc[c] = "stop" /\ Kill(arg[c].child) /\ Goes(c, "idle", None)
        /\ UNCHANGED <<starting, host, host_key, host_account, spawned, installed, stranded>>
        /\ UNCHANGED appRest
      BY <1>5 DEF Stopped, At, Ends
  <2>2. Control' /\ Linked' /\ Down'
      BY <1>2, <2>1, QuietStep, QuietPoints, HoldPoints
  <2>3. AppData' /\ HostData'
      BY <1>1, <2>1, AppFrame, KillType DEF appRest, HostData
  <2> QED BY <1>2, <2>2, <2>3 DEF TypeInv
<1> QED BY <1>3, <1>4, <1>5

LEMMA HostingTyped == TypeInv /\ HostingNext /\ UNCHANGED launches => TypeInv'
<1> SUFFICES ASSUME TypeInv, HostingNext, UNCHANGED launches PROVE TypeInv'
    OBVIOUS
<1>1. CASE UserServer
  <2>1. UNCHANGED <<appVars, walletVars, starting, host, host_key, host_account, spawned, installed,
                    stranded>> /\ listener' \in {None, User}
      BY <1>1 DEF UserServer
  <2>2. AppData' /\ WalletTypeOK' /\ HostData'
      BY <2>1, AppFrame, WalletFrame DEF TypeInv, HostData, appVars
  <2>3. Control'
      BY <2>1 DEF TypeInv, Control, appVars
  <2>4. Linked' /\ Down'
      BY <2>1 DEF TypeInv, Linked, Down, appVars, walletVars
  <2> QED BY <2>2, <2>3, <2>4 DEF TypeInv
<1> QED BY <1>1, StartTyped, HandleTyped DEF HostingNext

\* Quitting, dying and being launched.
LEMMA LifeTyped ==
    ASSUME TypeInv,
           \/ Exit \/ Launch
           \/ \E torn \in {"none", "tokens", "keystore", "settings"} : Die(torn)
    PROVE  TypeInv'
<1>1. HostData /\ AppData /\ WalletTypeOK /\ Control
    BY DEF TypeInv
<1>2. \A a : CmdArg("idle", a)
    BY HoldPoints
<1>3. ASSUME MemoryGone, settings_file' \in Settings \cup {None},
             keystore' \in {keystore, Torn}, tokens_file' \in {tokens_file, Torn},
             listener' \in {listener, None},
             \E why \in {"busy", "rest", "crash"} : Stranded(why)
      PROVE  TypeInv'
  <2>1. /\ running' = FALSE /\ pc' = [c \in Cmds |-> "idle"] /\ arg' = [c \in Cmds |-> None]
        /\ holder' = None /\ account' = None /\ passphrase' = None /\ tokens' = <<>>
        /\ verified' = None /\ starting' = None /\ host' = None
        /\ mishaps' \in {mishaps, mishaps \cup {"died"}}
        /\ UNCHANGED <<settings, crossed, raced, burned, stray, minted, held, settled, swapped,
                       host_key, host_account, spawned, installed, launches>>
      BY <1>3 DEF MemoryGone
  <2>2. "idle" \in Points /\ "idle" \notin Holding \cup StartSteps
      BY QuietPoints
  <2>3. Control'
      BY <1>2, <2>1, <2>2, AppAssumption DEF Control
  <2>4. AppData'
      BY <1>1, <1>3, <2>1 DEF AppData
  <2>5. mishaps' \subseteq Mishaps
      BY <1>1, <2>1 DEF WalletTypeOK, Mishaps
  <2>6. WalletTypeOK'
      BY <1>1, <1>3, <2>1, <2>5, EmptySeq DEF WalletTypeOK
  <2>7. HostData'
      BY <1>1, <1>3, <2>1 DEF HostData, Stranded
  <2>8. Linked' /\ Down'
      BY <2>1, <2>2 DEF Linked, Down
  <2> QED BY <2>3, <2>4, <2>6, <2>7, <2>8 DEF TypeInv
<1>4. CASE Exit
  <2>1. MemoryGone /\ UNCHANGED <<keystore, tokens_file, settings_file>>
      BY <1>4 DEF Exit, files
  <2>2. settings_file' \in Settings \cup {None}
      BY <1>1, <2>1 DEF AppData
  <2>3. listener' \in {listener, None}
      BY <1>4 DEF Exit, ExitReap, Kill
  <2>4. \E why \in {"busy", "rest", "crash"} : Stranded(why)
      BY <1>4 DEF Exit
  <2> QED BY <1>3, <2>1, <2>2, <2>3, <2>4
<1>5. ASSUME NEW torn \in {"none", "tokens", "keystore", "settings"}, Die(torn) PROVE TypeInv'
  <2>1. MemoryGone /\ UNCHANGED listener /\ Stranded("crash")
      BY <1>5 DEF Die
  <2>2. settings_file' \in {settings_file, None} /\ keystore' \in {keystore, Torn}
        /\ tokens_file' \in {tokens_file, Torn}
      BY <1>5 DEF Die, files
  <2>3. settings_file' \in Settings \cup {None}
      BY <1>1, <2>2 DEF AppData
  <2> QED BY <1>3, <2>1, <2>2, <2>3
<1>6. CASE Launch
  <2>1. /\ ~running /\ running' = TRUE /\ settings' = LoadedSettings(settings_file)
        /\ launches < MaxLaunches /\ launches' = launches + 1
        /\ verified' = NewVerified(settings') /\ crossed' = FALSE /\ raced' = FALSE
        /\ swapped' = FALSE
        /\ UNCHANGED <<pc, arg, holder, settings_file, keystore, tokens_file, account, passphrase,
                       tokens, burned, stray, minted, held, settled, mishaps>>
        /\ UNCHANGED <<starting, host, host_key, host_account, listener, spawned, installed, stranded>>
      BY <1>6 DEF Launch, files, inner, origin, hostingVars
  <2>2. DefaultSettings \in Settings
      BY AppAssumption DEF DefaultSettings, Settings
  <2>3. settings' \in Settings
      BY <1>1, <2>1, <2>2 DEF LoadedSettings, AppData
  <2>4. verified' \in VerifiedNet \cup {None}
      BY <2>1, <2>3 DEF NewVerified, ManualVerified, VerifiedNet, Settings
  <2>5. AppData'
      BY <1>1, <2>1, <2>3, <2>4 DEF AppData
  <2>6. launches' \in 0..MaxLaunches
      BY <1>1, <2>1, DesktopAssumption DEF HostData
  <2>7. HostData'
      BY <1>1, <2>1, <2>6 DEF HostData
  <2>8. WalletTypeOK'
      BY <1>1, <2>1 DEF WalletTypeOK
  <2>9. Control' /\ Linked' /\ Down'
    <3>1. Control'
        BY <1>1, <2>1 DEF Control
    <3> QED BY <2>1, <3>1 DEF TypeInv, Linked, Down
  <2> QED BY <2>5, <2>7, <2>8, <2>9 DEF TypeInv
<1> QED BY <1>4, <1>5, <1>6

LEMMA TypeStart == Init => TypeInv
<1> SUFFICES ASSUME Init PROVE TypeInv
    OBVIOUS
<1>1. DefaultSettings \in Settings
    BY AppAssumption DEF DefaultSettings, Settings
<1>2. AppData
  <2>1. NewVerified(DefaultSettings) \in VerifiedNet \cup {None}
      BY <1>1 DEF NewVerified, ManualVerified, VerifiedNet, Settings
  <2> QED BY <1>1, <2>1 DEF Init, AppInit, AppData
<1>3. WalletTypeOK
    BY EmptySeq DEF Init, WalletInit, WalletTypeOK
<1>4. HostData
  <2>1. host_key \in Passes \cup {None} /\ host_account \in Passes \cup {None}
      BY HostingAssumption DEF Init, HostingInit
  <2>2. spawned \in 0..MaxSpawns /\ launches \in 0..MaxLaunches
      BY HostingAssumption, DesktopAssumption DEF Init, HostingInit
  <2> QED BY <2>1, <2>2 DEF Init, HostingInit, HostData
<1>5. Control
  <2>1. /\ "idle" \in Points /\ "idle" \notin Holding \cup StartSteps
        /\ \A a : CmdArg("idle", a)
      BY QuietPoints, HoldPoints
  <2> QED BY <2>1, AppAssumption DEF Init, AppInit, HostingInit, Control
<1>6. Linked /\ Down
  <2>1. \A c \in Cmds : pc[c] = "idle" /\ pc[c] \notin StartSteps
      BY QuietPoints DEF Init, AppInit
  <2> QED BY <2>1 DEF Init, AppInit, WalletInit, HostingInit, Linked, Down
<1> QED BY <1>2, <1>3, <1>4, <1>5, <1>6 DEF TypeInv

LEMMA TypeStep == TypeInv /\ [Next]_vars => TypeInv'
<1> SUFFICES ASSUME TypeInv, [Next]_vars PROVE TypeInv'
    OBVIOUS
<1>1. CASE UNCHANGED vars
  <2>1. UNCHANGED <<appVars, walletVars, hostingVars, launches>>
      BY <1>1 DEF vars
  <2>2. AppData' /\ WalletTypeOK' /\ HostData'
      BY <2>1, AppFrame, WalletFrame, HostFrame DEF TypeInv, appVars
  <2>3. Control'
      BY <2>1 DEF TypeInv, Control, appVars, hostingVars
  <2>4. Linked' /\ Down'
      BY <2>1 DEF TypeInv, Linked, Down, appVars, walletVars, hostingVars
  <2> QED BY <2>2, <2>3, <2>4 DEF TypeInv
<1> QED BY <1>1, AppTyped, WalletTyped, HostingTyped, LifeTyped DEF Next

LEMMA TypeInvariant == Spec => []TypeInv
BY TypeStart, TypeStep, PTL DEF Spec

-----------------------------------------------------------------------------
(* Children. *)

\* Where a command has a child to stop.
Owner(c) == pc[c] \in (StartSteps \ {"read"}) \cup {"stop"}

\* A child of the app that runs has an owner, or was stranded.
Children == listener \in 1..MaxSpawns => listener \in Owned \/ stranded # "no"

\* What ChildOwned and ExitAtRestReaps rest on.
ChildInv == Children /\ ExitAtRestReaps

LEMMA OwnedBy ==
    \A x : x \in Owned <=> \/ \E c \in Cmds : Owner(c) /\ arg[c].child = x
                           \/ host # None /\ host.child = x
BY DEF Owned, Owner

LEMMA OwnedByNext ==
    \A x : x \in Owned' <=> \/ \E c \in Cmds : Owner(c)' /\ arg'[c].child = x
                            \/ host' # None /\ host'.child = x
BY DEF Owned, Owner

\* A step after which whoever owned the child that listens still does.
LEMMA ChildStep ==
    ASSUME ChildInv, stranded' = stranded,
           listener' \in 1..MaxSpawns => listener' = listener,
           listener' \in 1..MaxSpawns =>
               /\ \A d \in Cmds : Owner(d) /\ arg[d].child = listener' =>
                     \/ Owner(d)' /\ arg'[d].child = listener'
                     \/ host' # None /\ host'.child = listener'
               /\ host # None /\ host.child = listener' =>
                     \/ host' # None /\ host'.child = listener'
                     \/ \E d \in Cmds : Owner(d)' /\ arg'[d].child = listener'
    PROVE  ChildInv'
<1>1. ExitAtRestReaps'
    BY DEF ChildInv, ExitAtRestReaps
<1>2. ASSUME listener' \in 1..MaxSpawns, stranded' = "no" PROVE listener' \in Owned'
  <2>1. listener' \in Owned
      BY <1>2 DEF ChildInv, Children
  <2> QED BY <1>2, <2>1, OwnedBy, OwnedByNext
<1> QED BY <1>1, <1>2 DEF ChildInv, Children

\* Steps that leave the owners and the machine alone.
LEMMA ChildFrame ==
    ASSUME ChildInv, UNCHANGED <<host, stranded, listener>>,
           \A d \in Cmds : Owner(d) => pc'[d] = pc[d] /\ arg'[d] = arg[d]
    PROVE  ChildInv'
<1>1. \A d \in Cmds : Owner(d) => Owner(d)' /\ arg'[d].child = arg[d].child
    BY DEF Owner
<1> QED BY <1>1, ChildStep

\* The commands of AppState and Wallet move none that has a child.
LEMMA OthersStay ==
    ASSUME TypeInv, AppNext \/ WalletNext
    PROVE  \A d \in Cmds : Owner(d) => pc'[d] = pc[d] /\ arg'[d] = arg[d]
<1>1. ASSUME NEW c \in Cmds, NEW w \in Points, NEW a, Goes(c, w, a),
             pc[c] \in {"idle", "set", "boot", "account", "acquire", "hosts", "try", "save"}
      PROVE  \A d \in Cmds : Owner(d) => pc'[d] = pc[d] /\ arg'[d] = arg[d]
  <2>1. ~Owner(c)
      BY <1>1 DEF Owner, StartSteps
  <2>2. \A d \in Cmds : d # c => pc'[d] = pc[d] /\ arg'[d] = arg[d]
      BY <1>1, GoesFacts DEF TypeInv
  <2> QED BY <2>1, <2>2
<1>2. {"idle", "set", "boot", "account", "acquire", "hosts", "try", "save"} \subseteq Points
    BY DEF Points
<1>3. CASE UNCHANGED <<pc, arg>>
    BY <1>3
<1>4. ASSUME AppNext PROVE \A d \in Cmds : Owner(d) => pc'[d] = pc[d] /\ arg'[d] = arg[d]
  <2>1. PICK c \in Cmds :
            \/ \E r \in Relays, b \in Bases : SetSettingsSave(c, r, b)
            \/ SetSettingsApply(c)
            \/ ConnectStart(c)
            \/ ConnectFailed(c)
            \/ \E tunnel \in TunnelOffered : ConnectVerified(c, tunnel)
            \/ GrantConsent(c)
      BY <1>4 DEF AppNext
  <2>2. \/ UNCHANGED <<pc, arg>>
        \/ /\ pc[c] \in {"idle", "set", "boot"}
           /\ \E a : Goes(c, "set", a) \/ Goes(c, "boot", a) \/ Goes(c, "idle", a)
      BY <2>1 DEF SetSettingsSave, SetSettingsApply, ConnectStart, ConnectFailed, ConnectVerified,
         GrantConsent, Invoked, At, Ends
  <2> QED BY <1>1, <1>2, <1>3, <2>2
<1>5. ASSUME WalletNext PROVE \A d \in Cmds : Owner(d) => pc'[d] = pc[d] /\ arg'[d] = arg[d]
  <2>1. CASE \E c \in Cmds, a \in Accts, p \in Passes : CreateAccount(c, a, p) \/ ImportAccount(c, a, p)
      BY <1>1, <1>2, <2>1 DEF CreateAccount, ImportAccount, Persisted, Invoked
  <2>2. CASE \E c \in Cmds, p \in Passes : Unlock(c, p)
      BY <1>1, <1>2, <2>2 DEF Unlock, Invoked
  <2>3. CASE \E c \in Cmds : AccountInstall(c) \/ Lock(c)
      BY <1>1, <1>2, <1>3, <2>3 DEF AccountInstall, Lock, At, Ends, appVars
  <2>4. CASE \E c \in Cmds : AcquireStart(c) \/ SendStart(c)
      BY <1>1, <1>2, <2>4 DEF AcquireStart, SendStart, Takes, Invoked
  <2>5. CASE \E c \in Cmds : \/ AcquireFailed(c) \/ SendFailed(c) \/ Save(c)
                             \/ SaveFailed(c, tokens_file) \/ SaveFailed(c, Torn)
      BY <1>1, <1>2, <2>5 DEF AcquireFailed, SendFailed, Save, SaveFailed, Returns, Ends, At
  <2>6. CASE \E c \in Cmds : TryOk(c) \/ Try409(c) \/ (\E t \in Tokens : Acquired(c, t))
      BY <1>1, <1>2, <2>6 DEF TryOk, Try409, Acquired, Continues, At
  <2>7. CASE \E c \in Cmds : (\E n \in 1..MaxHosts : SendHosts(c, n))
                             \/ (\E spent, late \in BOOLEAN : TryNext(c, spent, late))
      BY <1>1, <1>2, <2>7 DEF SendHosts, TryNext, Continues, At
  <2>8. CASE \E t \in Tokens : LateSpend(t)
      BY <1>3, <2>8 DEF LateSpend, appVars
  <2> QED BY <1>5, <2>1, <2>2, <2>3, <2>4, <2>5, <2>6, <2>7, <2>8 DEF WalletNext
<1> QED BY <1>4, <1>5

\* A child that is killed, if it listened, listens no more.
LEMMA KillFacts ==
    ASSUME NEW child, Kill(child)
    PROVE  listener' \in 1..MaxSpawns => listener' = listener /\ (child # listener \/ child = 0)
BY NoHandle DEF Kill

\* host_start and host_stop.
LEMMA ChildHosting == TypeInv /\ ChildInv /\ HostingNext => ChildInv'
<1> SUFFICES ASSUME TypeInv, ChildInv, HostingNext PROVE ChildInv'
    OBVIOUS
<1>1. \A c \in Cmds, w \in Points : \A a : Goes(c, w, a) =>
          /\ pc'[c] = w /\ arg'[c] = a
          /\ \A d \in Cmds : d # c => pc'[d] = pc[d] /\ arg'[d] = arg[d]
    BY GoesFacts DEF TypeInv
<1>2. 0 \notin 1..MaxSpawns
    OBVIOUS
<1>3. {"idle", "read", "detect", "provide", "serve", "spawn", "boot_child", "model", "key",
       "identity", "up", "store", "stop"} \subseteq Points
    BY DEF Points
<1>4. ASSUME NEW c \in Cmds, NEW w \in StartSteps \ {"read"}, NEW a, Goes(c, w, a),
             Owner(c) => a.child = arg[c].child, UNCHANGED <<host, listener, stranded>>
      PROVE  ChildInv'
  <2>1. w \in Points
      BY DEF StartSteps, Points
  <2>2. /\ pc'[c] = w /\ arg'[c] = a
        /\ \A d \in Cmds : d # c => pc'[d] = pc[d] /\ arg'[d] = arg[d]
      BY <1>1, <1>4, <2>1
  <2>3. \A d \in Cmds : Owner(d) => Owner(d)' /\ arg'[d].child = arg[d].child
      BY <1>4, <2>2 DEF Owner
  <2> QED BY <1>4, <2>3, ChildStep
<1>5. ASSUME NEW c \in Cmds, NEW child, Kill(child), Ends(c),
             Owner(c) => child = arg[c].child, UNCHANGED <<host, stranded>>
      PROVE  ChildInv'
  <2>1. \A d \in Cmds : d # c => pc'[d] = pc[d] /\ arg'[d] = arg[d]
      BY <1>1, <1>3, <1>5 DEF Ends
  <2>2. listener' \in 1..MaxSpawns => listener' = listener /\ (child # listener \/ child = 0)
      BY <1>5, KillFacts
  <2>3. \A d \in Cmds : Owner(d) /\ d # c => Owner(d)' /\ arg'[d].child = arg[d].child
      BY <2>1 DEF Owner
  <2>4. listener' \in 1..MaxSpawns => listener' = listener /\ (Owner(c) => arg[c].child # listener')
      BY <1>2, <1>5, <2>2
  <2> QED BY <1>5, <2>3, <2>4, ChildStep
<1>6. ASSUME NEW c \in Cmds, StartLatch(c) PROVE ChildInv'
  <2>1. ~Owner(c)
      BY <1>6 DEF StartLatch, Invoked, Owner, StartSteps
  <2>2. \A d \in Cmds : d # c => pc'[d] = pc[d] /\ arg'[d] = arg[d]
      BY <1>1, <1>3, <1>6 DEF StartLatch
  <2> QED BY <1>6, <2>1, <2>2, ChildFrame DEF StartLatch, machine
<1>7. ASSUME NEW c \in Cmds, pc[c] \in Childless PROVE arg[c].child = 0 /\ Owner(c)
    BY <1>7 DEF TypeInv, Control, CmdArg, Owner, Childless, StartSteps
<1>8. {"detect", "provide", "serve", "spawn"} = Childless
      /\ {"boot_child", "model", "key", "identity", "up", "store"} \cup Childless
            = StartSteps \ {"read"}
    BY DEF Childless, StartSteps
<1>9. ASSUME NEW c \in Cmds,
             \/ ReadRefused(c) \/ InstallFailed(c) \/ SpawnFails(c)
             \/ (DetectFound(c) /\ StartFails(c, 0))
      PROVE  ChildInv'
  <2>1. pc[c] = "read" \/ pc[c] \in Childless
      BY <1>8, <1>9 DEF ReadRefused, InstallFailed, SpawnFails, DetectFound, At
  <2>2. pc[c] = "read" => ~Owner(c)
      BY DEF Owner
  <2>3. Kill(0) /\ Ends(c) /\ UNCHANGED <<host, stranded>>
      BY <1>9 DEF ReadRefused, InstallFailed, SpawnFails, StartFails
  <2> QED BY <1>5, <1>7, <2>1, <2>2, <2>3
<1>10. ASSUME NEW c \in Cmds,
              \/ ChildNotReady(c) \/ ModelFailed(c) \/ HostKeyRefused(c) \/ HostAccountRefused(c)
              \/ HandleFailed(c) \/ Stopped(c)
       PROVE  ChildInv'
  <2>1. Kill(arg[c].child) /\ Ends(c) /\ UNCHANGED <<host, stranded>>
      BY <1>10 DEF ChildNotReady, ModelFailed, HostKeyRefused, HostAccountRefused, HandleFailed,
         Stopped, StartFails
  <2> QED BY <1>5, <2>1
<1>11. ASSUME NEW c \in Cmds, ReadInner(c) PROVE ChildInv'
  <2>1. pc[c] = "read" /\ ~Owner(c)
      BY <1>11 DEF ReadInner, At, Owner
  <2>2. PICK w \in {"detect", "key"} : \E a : Goes(c, w, a)
      BY <1>11 DEF ReadInner, StartGoes
  <2>3. PICK a : Goes(c, w, a)
      BY <2>2
  <2>4. UNCHANGED <<host, listener, stranded>>
      BY <1>11 DEF ReadInner, StartGoes, machine
  <2> QED BY <1>4, <1>8, <2>1, <2>2, <2>3, <2>4
<1>12. ASSUME NEW c \in Cmds,
              (DetectFound(c) /\ ~StartFails(c, 0)) \/ ModelReady(c)
       PROVE  ChildInv'
  <2>1. pc[c] \in StartSteps \ {"read"}
      BY <1>8, <1>12 DEF DetectFound, ModelReady, At
  <2>2. arg[c] \in Start
      BY <2>1, StartArg
  <2> DEFINE a == [arg[c] EXCEPT !.base = "ollama"]
  <2>3. a.child = arg[c].child
      BY <2>2 DEF Start
  <2>4. Goes(c, "key", a) /\ UNCHANGED <<host, listener, stranded>>
      BY <1>12 DEF DetectFound, ModelReady, StartGoes, machine
  <2> HIDE DEF a
  <2> QED BY <1>4, <1>8, <2>3, <2>4
<1>13. ASSUME NEW c \in Cmds,
              \/ DetectNothing(c) \/ Install(c) \/ ServingAlready(c) \/ ServingNobody(c)
              \/ ChildReady(c) \/ HostKeyLoaded(c) \/ HostAccountLoaded(c) \/ HandleStarted(c)
       PROVE  ChildInv'
  <2>1. PICK w \in {"serve", "provide", "model", "spawn", "identity", "up", "store"} :
            Goes(c, w, arg[c])
      BY <1>13 DEF DetectNothing, Install, ServingAlready, ServingNobody, ChildReady, HostKeyLoaded,
         HostAccountLoaded, HandleStarted, StartGoes
  <2>2. UNCHANGED <<host, listener, stranded>>
      BY <1>13 DEF DetectNothing, Install, ServingAlready, ServingNobody, ChildReady, HostKeyLoaded,
         HostAccountLoaded, HandleStarted, StartGoes, machine
  <2> QED BY <1>4, <1>8, <2>1, <2>2
<1>14. ASSUME NEW c \in Cmds, Spawn(c) PROVE ChildInv'
  <2>1. pc[c] = "spawn" /\ arg[c].child = 0 /\ Owner(c) /\ arg[c] \in Start
      BY <1>7, <1>8, <1>14, StartArg DEF Spawn, At
  <2> DEFINE a == [arg[c] EXCEPT !.child = spawned + 1]
  <2>2. spawned + 1 \in 0..MaxSpawns
      BY <2>1, HostingAssumption DEF TypeInv, Linked, HostData
  <2>3. a.child = spawned + 1
      BY <2>1, <2>2 DEF Start
  <2>4. /\ Goes(c, "boot_child", a) /\ UNCHANGED <<host, stranded>>
        /\ listener' = IF listener = None THEN spawned + 1 ELSE listener
      BY <1>14 DEF Spawn, StartGoes
  <2> HIDE DEF a
  <2>5. /\ pc'[c] = "boot_child" /\ arg'[c] = a
        /\ \A d \in Cmds : d # c => pc'[d] = pc[d] /\ arg'[d] = arg[d]
      BY <1>1, <1>3, <2>4
  <2>6. Owner(c)'
      BY <2>5 DEF Owner, StartSteps
  <2>7. CASE listener = None
    <3>1. listener' \in Owned'
        BY <2>3, <2>4, <2>5, <2>6, <2>7, OwnedByNext
    <3> QED BY <2>4, <3>1 DEF ChildInv, Children, ExitAtRestReaps
  <2>8. CASE listener # None
    <3>1. \A d \in Cmds : Owner(d) /\ d # c => Owner(d)' /\ arg'[d].child = arg[d].child
        BY <2>5 DEF Owner
    <3> QED BY <1>2, <2>1, <2>4, <2>8, <3>1, ChildStep
  <2> QED BY <2>7, <2>8
<1>15. ASSUME NEW c \in Cmds, Store(c) PROVE ChildInv'
  <2>1. pc[c] \in StartSteps \ {"read"}
      BY <1>8, <1>15 DEF Store, At
  <2>2. host = None /\ arg[c] \in Start /\ arg[c].child \in 0..MaxSpawns
      BY <2>1, StartArg
  <2>3. PICK h : h = [child |-> arg[c].child, base |-> arg[c].base]
      OBVIOUS
  <2>4. host' = h /\ Kill(0) /\ Ends(c) /\ UNCHANGED stranded
      BY <1>15, <2>2, <2>3 DEF Store
  <2>5. h # None /\ h.child = arg[c].child
    <3>1. arg[c].base = "ollama"
        BY <1>15, <2>1, StartArg DEF Store, At, Resolved
    <3> QED BY <2>2, <2>3, <3>1, NoHandle DEF HostHandle
  <2>6. \A d \in Cmds : d # c => pc'[d] = pc[d] /\ arg'[d] = arg[d]
      BY <1>1, <1>3, <2>4 DEF Ends
  <2>7. \A d \in Cmds : Owner(d) /\ d # c => Owner(d)' /\ arg'[d].child = arg[d].child
      BY <2>6 DEF Owner
  <2>8. listener' = listener
      BY <2>4 DEF Kill
  <2> QED BY <2>2, <2>4, <2>5, <2>7, <2>8, ChildStep
<1>16. ASSUME NEW c \in Cmds, StopTake(c) PROVE ChildInv'
  <2>1. pc[c] = "idle" /\ ~Owner(c)
      BY <1>16 DEF StopTake, Invoked, Owner, StartSteps
  <2>2. Goes(c, "stop", host) /\ UNCHANGED <<listener, stranded>> /\ host' = None
      BY <1>16 DEF StopTake, machine
  <2>3. /\ pc'[c] = "stop" /\ arg'[c] = host
        /\ \A d \in Cmds : d # c => pc'[d] = pc[d] /\ arg'[d] = arg[d]
      BY <1>1, <1>3, <2>2
  <2>4. Owner(c)' /\ \A d \in Cmds : Owner(d) => Owner(d)' /\ arg'[d].child = arg[d].child
      BY <2>1, <2>3 DEF Owner
  <2> QED BY <2>2, <2>3, <2>4, ChildStep
<1>17. CASE UserServer
  <2>1. UNCHANGED <<pc, arg, host, stranded>> /\ listener' \notin 1..MaxSpawns
      BY <1>17, NoHandle DEF UserServer, appVars
  <2> QED BY <2>1, ChildStep
<1> QED BY <1>6, <1>9, <1>10, <1>11, <1>12, <1>13, <1>14, <1>15, <1>16, <1>17 DEF HostingNext

\* An app that goes strands what it owns, and the exit handler leaves nothing at rest.
LEMMA ChildLife ==
    ASSUME TypeInv, ChildInv,
           \/ Exit \/ Launch
           \/ \E torn \in {"none", "tokens", "keystore", "settings"} : Die(torn)
    PROVE  ChildInv'
<1>1. ASSUME NEW why \in {"busy", "rest", "crash"}, Stranded(why), listener' \in {listener, None},
             why = "rest" => ~(listener' \in 1..MaxSpawns /\ listener' \in Owned)
      PROVE  ChildInv'
  <2>1. listener' \in 1..MaxSpawns => listener' = listener
      BY <1>1, NoHandle
  <2>2. listener' \in 1..MaxSpawns => stranded' # "no"
      BY <1>1, <2>1 DEF Stranded, ChildInv, Children
  <2>3. stranded' # "rest"
      BY <1>1 DEF Stranded, ChildInv, ExitAtRestReaps
  <2> QED BY <2>2, <2>3 DEF ChildInv, Children, ExitAtRestReaps
<1>2. CASE Exit
  <2> DEFINE busy == holder # None \/ \E c \in Cmds : pc[c] \in StartSteps \cup {"stop"}
  <2>1. /\ Stranded(IF busy THEN "busy" ELSE "rest") /\ listener' \in {listener, None}
      BY <1>2 DEF Exit, ExitReap, Kill
  <2>2. CASE busy
      BY <1>1, <2>1, <2>2
  <2>3. CASE ~busy
    <3>1. \A c \in Cmds : ~Owner(c)
        BY <2>3 DEF Owner
    <3>2. listener' \in Owned => host # None /\ host.child = listener'
        BY <3>1, OwnedBy
    <3>3. host # None => Kill(host.child)
        BY <1>2, <2>3 DEF Exit, ExitReap
    <3>4. ~(listener' \in 1..MaxSpawns /\ listener' \in Owned)
        BY <3>2, <3>3, KillFacts
    <3> QED BY <1>1, <2>1, <2>3, <3>4
  <2> QED BY <2>2, <2>3
<1>3. ASSUME NEW torn \in {"none", "tokens", "keystore", "settings"}, Die(torn) PROVE ChildInv'
    BY <1>1, <1>3 DEF Die
<1>4. CASE Launch
  <2>1. UNCHANGED <<pc, arg, host, listener, stranded>>
      BY <1>4 DEF Launch, hostingVars
  <2> QED BY <2>1, ChildFrame
<1> QED BY <1>2, <1>3, <1>4

LEMMA ChildrenStep == TypeInv /\ ChildInv /\ [Next]_vars => ChildInv'
<1> SUFFICES ASSUME TypeInv, ChildInv, [Next]_vars PROVE ChildInv'
    OBVIOUS
<1>1. CASE (AppNext \/ WalletNext) /\ UNCHANGED hostingVars
    BY <1>1, OthersStay, ChildFrame DEF hostingVars
<1>2. CASE UNCHANGED vars
    BY <1>2, ChildFrame DEF vars, appVars, hostingVars
<1> QED BY <1>1, <1>2, ChildHosting, ChildLife DEF Next

-----------------------------------------------------------------------------
(* Trust and settings. *)

\* What an auto_connect in progress will store is about the relay in use as well.
TrustInv ==
    /\ verified # None /\ ~raced => verified.from = settings.relay
    /\ \A c \in Cmds : pc[c] = "boot" /\ ~raced => arg[c] = settings.relay

\* A set_settings that waits for the mutex is alone, and its form is the file.
DiskInv ==
    running /\ ~crossed =>
        /\ \A c \in Cmds : pc[c] = "set" =>
              /\ settings_file = arg[c]
              /\ \A d \in Cmds : pc[d] = "set" => d = c
        /\ (\A c \in Cmds : pc[c] # "set") => LoadedSettings(settings_file) = settings

\* The commands of Wallet and Hosting move none that is connecting or saving.
LEMMA SettersStay ==
    ASSUME TypeInv, WalletNext \/ HostingNext
    PROVE  \A d \in Cmds : pc[d] \in {"set", "boot"} \/ pc'[d] \in {"set", "boot"} =>
               pc'[d] = pc[d] /\ arg'[d] = arg[d]
<1> DEFINE Stay == \A d \in Cmds : pc[d] \in {"set", "boot"} \/ pc'[d] \in {"set", "boot"} =>
                       pc'[d] = pc[d] /\ arg'[d] = arg[d]
<1>1. ASSUME NEW c \in Cmds, NEW w \in Points \ {"set", "boot"}, NEW a, Goes(c, w, a),
             pc[c] \notin {"set", "boot"}
      PROVE  Stay
  <2>1. pc'[c] = w /\ \A d \in Cmds : d # c => pc'[d] = pc[d] /\ arg'[d] = arg[d]
      BY <1>1, GoesFacts DEF TypeInv
  <2> QED BY <1>1, <2>1
<1>2. {"idle", "account", "acquire", "hosts", "try", "save", "stop", "read", "detect", "provide",
       "serve", "spawn", "boot_child", "model", "key", "identity", "up", "store"}
          = Points \ {"set", "boot"}
    BY DEF Points
<1>3. ASSUME UNCHANGED <<pc, arg>> PROVE Stay
    BY <1>3
<1> HIDE DEF Stay
<1>4. ASSUME WalletNext PROVE Stay
  <2>1. CASE \E c \in Cmds, a \in Accts, p \in Passes : CreateAccount(c, a, p) \/ ImportAccount(c, a, p)
      BY <1>1, <1>2, <2>1 DEF CreateAccount, ImportAccount, Persisted, Invoked
  <2>2. CASE \E c \in Cmds, p \in Passes : Unlock(c, p)
      BY <1>1, <1>2, <2>2 DEF Unlock, Invoked
  <2>3. CASE \E c \in Cmds : AccountInstall(c) \/ Lock(c)
      BY <1>1, <1>2, <1>3, <2>3 DEF AccountInstall, Lock, At, Ends, appVars
  <2>4. CASE \E c \in Cmds : AcquireStart(c) \/ SendStart(c)
      BY <1>1, <1>2, <2>4 DEF AcquireStart, SendStart, Takes, Invoked
  <2>5. CASE \E c \in Cmds : \/ AcquireFailed(c) \/ SendFailed(c) \/ Save(c)
                             \/ SaveFailed(c, tokens_file) \/ SaveFailed(c, Torn)
      BY <1>1, <1>2, <2>5 DEF AcquireFailed, SendFailed, Save, SaveFailed, Returns, Ends, At
  <2>6. CASE \E c \in Cmds : TryOk(c) \/ Try409(c) \/ (\E t \in Tokens : Acquired(c, t))
      BY <1>1, <1>2, <2>6 DEF TryOk, Try409, Acquired, Continues, At
  <2>7. CASE \E c \in Cmds : (\E n \in 1..MaxHosts : SendHosts(c, n))
                             \/ (\E spent, late \in BOOLEAN : TryNext(c, spent, late))
      BY <1>1, <1>2, <2>7 DEF SendHosts, TryNext, Continues, At
  <2>8. CASE \E t \in Tokens : LateSpend(t)
      BY <1>3, <2>8 DEF LateSpend, appVars
  <2> QED BY <1>4, <2>1, <2>2, <2>3, <2>4, <2>5, <2>6, <2>7, <2>8 DEF WalletNext
<1>5. ASSUME HostingNext PROVE Stay
  <2>1. ASSUME NEW c \in Cmds,
               \/ ReadRefused(c) \/ InstallFailed(c) \/ SpawnFails(c) \/ ChildNotReady(c)
               \/ ModelFailed(c) \/ HostKeyRefused(c) \/ HostAccountRefused(c) \/ HandleFailed(c)
               \/ (DetectFound(c) /\ StartFails(c, 0)) \/ Store(c) \/ Stopped(c)
        PROVE  Stay
    <3>1. Goes(c, "idle", None) /\ pc[c] \notin {"set", "boot"}
        BY <2>1 DEF ReadRefused, InstallFailed, SpawnFails, ChildNotReady, ModelFailed,
           HostKeyRefused, HostAccountRefused, HandleFailed, DetectFound, Store, Stopped, StartFails,
           Ends, At
    <3> QED BY <1>1, <1>2, <3>1
  <2>2. ASSUME NEW c \in Cmds,
               \/ StartLatch(c) \/ ReadInner(c) \/ StopTake(c) \/ Spawn(c)
               \/ (DetectFound(c) /\ ~StartFails(c, 0)) \/ ModelReady(c)
        PROVE  Stay
    <3>1. /\ \E w \in {"read", "detect", "key", "boot_child", "stop"} : \E a : Goes(c, w, a)
          /\ pc[c] \notin {"set", "boot"}
        BY <2>2 DEF StartLatch, ReadInner, StopTake, Spawn, DetectFound, ModelReady, StartGoes, At,
           Invoked
    <3> QED BY <1>1, <1>2, <3>1
  <2>3. ASSUME NEW c \in Cmds,
               \/ DetectNothing(c) \/ Install(c) \/ ServingAlready(c) \/ ServingNobody(c)
               \/ ChildReady(c) \/ HostKeyLoaded(c) \/ HostAccountLoaded(c) \/ HandleStarted(c)
        PROVE  Stay
    <3>1. /\ \E w \in {"serve", "provide", "model", "spawn", "identity", "up", "store"} :
                Goes(c, w, arg[c])
          /\ pc[c] \notin {"set", "boot"}
        BY <2>3 DEF DetectNothing, Install, ServingAlready, ServingNobody, ChildReady, HostKeyLoaded,
           HostAccountLoaded, HandleStarted, StartGoes, At
    <3> QED BY <1>1, <1>2, <3>1
  <2>4. CASE UserServer
      BY <1>3, <2>4 DEF UserServer, appVars
  <2> QED BY <1>5, <2>1, <2>2, <2>3, <2>4 DEF HostingNext
<1> QED BY <1>4, <1>5 DEF Stay

\* Wallet leaves settings and trust alone; so does Hosting, except when it stores.
LEMMA SettingsStay ==
    ASSUME WalletNext \/ (HostingNext /\ ~\E c \in Cmds : Store(c))
    PROVE  UNCHANGED <<running, settings, settings_file, verified, crossed, raced>>
<1>1. ASSUME WalletNext PROVE UNCHANGED <<running, settings, settings_file, verified, crossed, raced>>
    BY <1>1 DEF WalletNext, CreateAccount, ImportAccount, Persisted, Unlock, AccountInstall, Lock,
       AcquireStart, SendStart, Takes, AcquireFailed, SendFailed, Save, SaveFailed, Returns, TryOk,
       Try409, Acquired, SendHosts, TryNext, Continues, LateSpend, appVars
<1>2. ASSUME HostingNext, ~\E c \in Cmds : Store(c)
      PROVE  UNCHANGED <<running, settings, settings_file, verified, crossed, raced>>
    BY <1>2 DEF HostingNext, ReadRefused, InstallFailed, SpawnFails, ChildNotReady, ModelFailed,
       HostKeyRefused, HostAccountRefused, HandleFailed, DetectFound, Stopped, StartFails, StartLatch,
       ReadInner, StopTake, Spawn, ModelReady, DetectNothing, Install, ServingAlready, ServingNobody,
       ChildReady, HostKeyLoaded, HostAccountLoaded, HandleStarted, StartGoes, UserServer, appRest,
       appVars
<1> QED BY <1>1, <1>2

\* Steps after which trust is about the same relay.
LEMMA TrustFrame ==
    ASSUME TrustInv, UNCHANGED <<verified, raced>>, settings'.relay = settings.relay,
           \A d \in Cmds : pc'[d] = "boot" => pc[d] = "boot" /\ arg'[d] = arg[d]
    PROVE  TrustInv'
BY DEF TrustInv

\* Steps that leave settings, their file and the commands that save them alone.
LEMMA DiskFrame ==
    ASSUME DiskInv, running, UNCHANGED <<settings, settings_file, crossed>>,
           \A d \in Cmds : pc[d] = "set" \/ pc'[d] = "set" => pc'[d] = pc[d] /\ arg'[d] = arg[d]
    PROVE  DiskInv'
BY DEF DiskInv, LoadedSettings

\* A save under the mutex that overtakes no form leaves no form waiting.
LEMMA DiskSaved ==
    ASSUME TypeInv, NEW c \in Cmds, NEW s \in Settings, Saved(c, s), pc[c] # "set",
           \A d \in Cmds : pc'[d] = "set" => pc[d] = "set"
    PROVE  DiskInv'
<1> SUFFICES ASSUME ~crossed'
             PROVE  /\ \A d \in Cmds : pc'[d] # "set"
                    /\ LoadedSettings(settings_file') = settings'
    BY DEF DiskInv
<1>1. \A d \in Cmds : pc[d] # "set"
    BY DEF Saved, Overtakes
<1> QED BY <1>1, NoSettings DEF Saved, LoadedSettings

\* The settings commands.
LEMMA SettingsSteps ==
    ASSUME TypeInv, TrustInv, DiskInv, AppNext
    PROVE  TrustInv' /\ DiskInv'
<1>1. PICK c \in Cmds :
          \/ \E r \in Relays, b \in Bases : SetSettingsSave(c, r, b)
          \/ SetSettingsApply(c)
          \/ ConnectStart(c)
          \/ ConnectFailed(c)
          \/ \E tunnel \in TunnelOffered : ConnectVerified(c, tunnel)
          \/ GrantConsent(c)
    BY DEF AppNext
<1>2. \A w \in Points : \A a : Goes(c, w, a) =>
          /\ pc'[c] = w /\ arg'[c] = a
          /\ \A d \in Cmds : d # c => pc'[d] = pc[d] /\ arg'[d] = arg[d]
    BY GoesFacts DEF TypeInv
<1>3. running /\ UNCHANGED running
    BY <1>1 DEF SetSettingsSave, SetSettingsApply, ConnectStart, ConnectFailed, ConnectVerified,
       GrantConsent, Invoked, At
<1>4. settings \in Settings /\ {"idle", "set", "boot"} \subseteq Points
    BY DEF TypeInv, AppData, Points
<1>5. ASSUME NEW r \in Relays, NEW b \in Bases, SetSettingsSave(c, r, b)
      PROVE  TrustInv' /\ DiskInv'
  <2>1. PICK s : /\ Goes(c, "set", s) /\ settings_file' = s
                 /\ crossed' = (crossed \/ Overtakes(c))
                 /\ UNCHANGED <<settings, verified, raced>>
      BY <1>5 DEF SetSettingsSave
  <2>2. /\ pc'[c] = "set" /\ arg'[c] = s
        /\ \A d \in Cmds : d # c => pc'[d] = pc[d] /\ arg'[d] = arg[d]
      BY <1>2, <1>4, <2>1
  <2>3. TrustInv'
      BY <2>1, <2>2, TrustFrame
  <2>4. ~crossed' => \A d \in Cmds : pc'[d] = "set" => d = c
      BY <2>1, <2>2 DEF Overtakes
  <2>5. DiskInv'
      BY <2>1, <2>2, <2>4 DEF DiskInv
  <2> QED BY <2>3, <2>5
<1>6. CASE SetSettingsApply(c)
  <2>1. /\ pc[c] = "set" /\ settings' = arg[c] /\ verified' = TrustAfter(arg[c])
        /\ raced' = (raced \/ \E d \in Cmds : pc[d] = "boot" /\ arg[d] # arg[c].relay)
        /\ Goes(c, "idle", None) /\ UNCHANGED <<settings_file, crossed>>
      BY <1>6 DEF SetSettingsApply, At, Ends
  <2>2. /\ pc'[c] = "idle" /\ \A d \in Cmds : d # c => pc'[d] = pc[d] /\ arg'[d] = arg[d]
      BY <1>2, <1>4, <2>1
  <2>3. arg[c] \in Settings
      BY <2>1 DEF TypeInv, Control, CmdArg
  <2>4. ~raced' => ~raced /\ \A d \in Cmds : pc[d] = "boot" => arg[d] = arg[c].relay
      BY <2>1
  <2>5. verified' # None /\ ~raced' => verified'.from = arg[c].relay
    <3>1. CASE ~Anchored
      <4>1. verified' = ManualVerified(arg[c])
          BY <2>1, <3>1 DEF TrustAfter
      <4> QED BY <4>1 DEF ManualVerified
    <3>2. CASE Anchored /\ arg[c].relay # settings.relay
        BY <2>1, <3>2 DEF TrustAfter
    <3>3. CASE Anchored /\ arg[c].relay = settings.relay
      <4>1. verified' = verified
          BY <2>1, <3>3 DEF TrustAfter
      <4> QED BY <2>4, <3>3, <4>1 DEF TrustInv
    <3> QED BY <3>1, <3>2, <3>3
  <2>6. TrustInv'
      BY <2>1, <2>2, <2>4, <2>5 DEF TrustInv
  <2>7. ~crossed => settings_file = arg[c] /\ \A d \in Cmds : pc[d] = "set" => d = c
      BY <1>3, <2>1 DEF DiskInv
  <2>8. DiskInv'
    <3>1. ~crossed => LoadedSettings(settings_file) = arg[c]
        BY <2>3, <2>7, NoSettings DEF LoadedSettings
    <3>2. ~crossed => \A d \in Cmds : pc'[d] # "set"
        BY <2>2, <2>7
    <3> QED BY <2>1, <3>1, <3>2 DEF DiskInv, LoadedSettings
  <2> QED BY <2>6, <2>8
<1>7. CASE ConnectStart(c)
  <2>1. /\ pc[c] = "idle" /\ Goes(c, "boot", settings.relay)
        /\ UNCHANGED <<settings, settings_file, verified, crossed, raced>>
      BY <1>7 DEF ConnectStart, Invoked
  <2>2. /\ pc'[c] = "boot" /\ arg'[c] = settings.relay
        /\ \A d \in Cmds : d # c => pc'[d] = pc[d] /\ arg'[d] = arg[d]
      BY <1>2, <1>4, <2>1
  <2>3. TrustInv'
      BY <2>1, <2>2 DEF TrustInv
  <2>4. DiskInv'
      BY <1>3, <2>1, <2>2, DiskFrame
  <2> QED BY <2>3, <2>4
<1>8. CASE ConnectFailed(c)
  <2>1. /\ pc[c] = "boot" /\ Goes(c, "idle", None)
        /\ UNCHANGED <<settings, settings_file, verified, crossed, raced>>
      BY <1>8 DEF ConnectFailed, At, Ends
  <2>2. pc'[c] = "idle" /\ \A d \in Cmds : d # c => pc'[d] = pc[d] /\ arg'[d] = arg[d]
      BY <1>2, <1>4, <2>1
  <2> QED BY <1>3, <2>1, <2>2, TrustFrame, DiskFrame
<1>9. ASSUME NEW tunnel \in TunnelOffered, ConnectVerified(c, tunnel)
      PROVE  TrustInv' /\ DiskInv'
  <2>1. PICK s \in Settings : s = [settings EXCEPT !.kc = TRUE] /\ s.relay = settings.relay
    <3>1. [settings EXCEPT !.kc = TRUE] \in Settings
          /\ [settings EXCEPT !.kc = TRUE].relay = settings.relay
        BY <1>4 DEF Settings
    <3> QED BY <3>1
  <2>2. /\ pc[c] = "boot" /\ Goes(c, "idle", None) /\ Saved(c, s)
        /\ verified'.from = arg[c] /\ UNCHANGED raced
      BY <1>9, <2>1 DEF ConnectVerified, At, Ends
  <2>3. pc'[c] = "idle" /\ \A d \in Cmds : d # c => pc'[d] = pc[d] /\ arg'[d] = arg[d]
      BY <1>2, <1>4, <2>2
  <2>4. settings' = s
      BY <2>2 DEF Saved
  <2>5. TrustInv'
      BY <2>1, <2>2, <2>3, <2>4 DEF TrustInv
  <2>6. DiskInv'
      BY <2>2, <2>3, DiskSaved
  <2> QED BY <2>5, <2>6
<1>10. CASE GrantConsent(c)
  <2>1. PICK s \in Settings : s = [settings EXCEPT !.consent = TRUE] /\ s.relay = settings.relay
    <3>1. [settings EXCEPT !.consent = TRUE] \in Settings
          /\ [settings EXCEPT !.consent = TRUE].relay = settings.relay
        BY <1>4 DEF Settings
    <3> QED BY <3>1
  <2>2. pc[c] = "idle" /\ Saved(c, s) /\ UNCHANGED <<pc, arg, verified, raced>>
      BY <1>10, <2>1 DEF GrantConsent, Invoked
  <2>3. settings' = s
      BY <2>2 DEF Saved
  <2> QED BY <2>1, <2>2, <2>3, TrustFrame, DiskSaved
<1> QED BY <1>1, <1>5, <1>6, <1>7, <1>8, <1>9, <1>10

\* The launch starts without trust, or with the settings' own.
LEMMA SettingsLife ==
    ASSUME TypeInv, TrustInv, DiskInv,
           \/ Exit \/ Launch
           \/ \E torn \in {"none", "tokens", "keystore", "settings"} : Die(torn)
    PROVE  TrustInv' /\ DiskInv'
<1>1. ASSUME MemoryGone PROVE TrustInv' /\ DiskInv'
  <2>1. running' = FALSE /\ pc' = [c \in Cmds |-> "idle"] /\ verified' = None
      BY <1>1 DEF MemoryGone
  <2> QED BY <2>1 DEF TrustInv, DiskInv
<1>2. CASE Launch
  <2>1. /\ settings' = LoadedSettings(settings_file) /\ verified' = NewVerified(settings')
        /\ UNCHANGED <<pc, settings_file>> /\ \A c \in Cmds : pc[c] = "idle"
      BY <1>2 DEF Launch, TypeInv, Down
  <2>2. verified' # None => verified'.from = settings'.relay
      BY <2>1 DEF NewVerified, ManualVerified
  <2> QED BY <2>1, <2>2 DEF TrustInv, DiskInv, LoadedSettings
<1> QED BY <1>1, <1>2 DEF Exit, Die

LEMMA SettingsStep == TypeInv /\ TrustInv /\ DiskInv /\ [Next]_vars => TrustInv' /\ DiskInv'
<1> SUFFICES ASSUME TypeInv, TrustInv, DiskInv, [Next]_vars PROVE TrustInv' /\ DiskInv'
    OBVIOUS
<1>1. ASSUME UNCHANGED <<running, settings, settings_file, verified, crossed, raced>>,
             \A d \in Cmds : pc[d] \in {"set", "boot"} \/ pc'[d] \in {"set", "boot"} =>
                 pc'[d] = pc[d] /\ arg'[d] = arg[d]
      PROVE  TrustInv' /\ DiskInv'
  <2>1. TrustInv'
      BY <1>1, TrustFrame
  <2>2. CASE running
      BY <1>1, <2>1, <2>2, DiskFrame
  <2>3. CASE ~running
      BY <1>1, <2>1, <2>3 DEF DiskInv
  <2> QED BY <2>2, <2>3
<1>2. CASE UNCHANGED vars
    BY <1>1, <1>2 DEF vars, appVars
<1>3. ASSUME NEW c \in Cmds, Store(c), HostingNext PROVE TrustInv' /\ DiskInv'
  <2>1. \A d \in Cmds : pc[d] \in {"set", "boot"} \/ pc'[d] \in {"set", "boot"} =>
            pc'[d] = pc[d] /\ arg'[d] = arg[d]
      BY <1>3, SettersStay
  <2>2. pc[c] = "store" /\ pc[c] \in StartSteps \ {"read"}
      BY <1>3 DEF Store, At, StartSteps
  <2>3. host = None /\ arg[c].base \in {"", "ollama"}
      BY <2>2, StartArg
  <2>4. PICK s \in Settings : s = [settings EXCEPT !.base = arg[c].base] /\ s.relay = settings.relay
    <3>1. [settings EXCEPT !.base = arg[c].base] \in Settings
          /\ [settings EXCEPT !.base = arg[c].base].relay = settings.relay
        BY <2>3 DEF Settings, TypeInv, AppData
    <3> QED BY <3>1
  <2>5. Saved(c, s) /\ UNCHANGED <<verified, raced>>
      BY <1>3, <2>3, <2>4 DEF Store
  <2>6. settings' = s
      BY <2>5 DEF Saved
  <2> QED BY <2>1, <2>2, <2>4, <2>5, <2>6, TrustFrame, DiskSaved
<1>4. CASE WalletNext \/ HostingNext
    BY <1>1, <1>3, <1>4, SettersStay, SettingsStay
<1> QED BY <1>2, <1>4, SettingsSteps, SettingsLife DEF Next

LEMMA DesktopStart == Init => ChildInv /\ TrustInv /\ DiskInv
<1> SUFFICES ASSUME Init PROVE ChildInv /\ TrustInv /\ DiskInv
    OBVIOUS
<1>1. ChildInv
    BY NoHandle DEF Init, HostingInit, ChildInv, Children, ExitAtRestReaps
<1>2. \A c \in Cmds : pc[c] = "idle"
    BY DEF Init, AppInit
<1>3. TrustInv
  <2>1. verified # None => verified.from = settings.relay
      BY DEF Init, AppInit, NewVerified, ManualVerified
  <2> QED BY <1>2, <2>1 DEF TrustInv
<1>4. DiskInv
    BY <1>2 DEF Init, AppInit, DiskInv, LoadedSettings
<1> QED BY <1>1, <1>3, <1>4

LEMMA DesktopInvariant == Spec => [](TypeInv /\ ChildInv /\ TrustInv /\ DiskInv)
<1> DEFINE I == TypeInv /\ ChildInv /\ TrustInv /\ DiskInv
<1>1. Init => I
    BY TypeStart, DesktopStart
<1>2. I /\ [Next]_vars => I'
    BY TypeStep, ChildrenStep, SettingsStep
<1> QED BY <1>1, <1>2, PTL DEF Spec

-----------------------------------------------------------------------------
(* The theorems. *)

\* Every reachable state is well typed, whatever the commands in progress carry
\* from one point to the next (lib.rs).
THEOREM DesktopTyped == Spec => []TypeOK
<1>1. TypeInv => TypeOK
  <2> SUFFICES ASSUME TypeInv PROVE TypeOK
      OBVIOUS
  <2>1. AppTypeOK
      BY DEF TypeInv, Control, AppData, AppTypeOK
  <2>2. \A c \in Cmds : pc[c] \in StartSteps \ {"read"} => arg[c] \in Start
      BY DEF TypeInv, Control, CmdArg
  <2>3. HostingTypeOK
      BY <2>2 DEF TypeInv, Control, HostData, HostingTypeOK, StartSteps
  <2> QED BY <2>1, <2>3 DEF TypeInv, HostData, TypeOK
<1> QED BY <1>1, TypeInvariant, PTL

\* The latch is held exactly while a start runs, and alone keeps a second host out
\* (host_start).
THEOREM LatchKeepsHostsOut == Spec => []LatchSuffices
<1>1. TypeInv => LatchSuffices
    BY DEF TypeInv, Control, Linked, LatchSuffices
<1> QED BY <1>1, TypeInvariant, PTL

\* A managed Ollama that runs while the app does has somebody who will stop it, or
\* an earlier run of the app left it behind (host_start, host_stop).
THEOREM ChildrenHaveOwners == Spec => []ChildOwned
<1>1. ChildInv => ChildOwned
    BY DEF ChildInv, Children, ChildOwned
<1> QED BY <1>1, DesktopInvariant, PTL

\* Quitting at rest leaves no managed Ollama behind (run's exit handler).
THEOREM QuittingReaps == Spec => []ExitAtRestReaps
<1>1. ChildInv => ExitAtRestReaps
    BY DEF ChildInv
<1> QED BY <1>1, DesktopInvariant, PTL

\* Parameters are trusted for the relay they came from only, unless the relay
\* changed under an auto_connect (set_settings, auto_connect, AppState::new).
THEOREM TrustIsForTheRelay == Spec => []TrustMatchesRelay
<1>1. TrustInv => TrustMatchesRelay
    BY DEF TrustInv, TrustMatchesRelay
<1> QED BY <1>1, DesktopInvariant, PTL

\* Settings in memory and on disk agree whenever no form is between its save and the
\* mutex, unless another save overtook one (set_settings and every other save).
THEOREM SettingsReachDisk == Spec => []SettingsOnDisk
<1>1. DiskInv => SettingsOnDisk
    BY DEF DiskInv, SettingsOnDisk
<1> QED BY <1>1, DesktopInvariant, PTL
=============================================================================
