---------------------------- MODULE WalletProofs ----------------------------
(***************************************************************************)
(* Theorems about the desktop app's account and tokens, for every number   *)
(* of commands in progress, accounts, passphrases, tokens and launches.    *)
(***************************************************************************)
EXTENDS DesktopProofs

-----------------------------------------------------------------------------
(* The inductive invariant. *)

\* A balance change has not been saved yet.
Saving == \E c \in Cmds : pc[c] = "save"

\* No token twice.
Inj(s) == \A i, j \in DOMAIN s : s[i] = s[j] => i = j

\* The balance in memory and the one on disk are of tokens received.
Received ==
    /\ Inj(tokens) /\ Range(tokens) \subseteq held
    /\ settled \subseteq held
    /\ IsFile(tokens_file) => Inj(tokens_file.toks) /\ Range(tokens_file.toks) \subseteq held

\* Memory and disk agree except while a change is being saved.
Agree ==
    account # None /\ "disk" \notin mishaps /\ ~Saving => tokens = Loaded(passphrase)

\* A settled token is not in memory, nor on disk once the change is saved.
Forgot ==
    {"died", "disk"} \cap mishaps = {} =>
        /\ settled \cap Range(tokens) = {}
        /\ ~Saving /\ IsFile(tokens_file) => settled \cap Range(tokens_file.toks) = {}

OnDisk(t) == IsFile(tokens_file) /\ t \in Range(tokens_file.toks)

\* An unspent token is on disk once changes are saved.  Until then it is in memory,
\* or the file is one that the save will overwrite.
Kept ==
    mishaps = {} =>
        /\ TokensKept
        /\ ~Saving => \A t \in held \ burned : OnDisk(t)
        /\ Saving => \/ IsFile(tokens_file) /\ tokens_file.pass # passphrase
                     \/ \A t \in held \ burned : t \in Range(tokens)

\* What an account command carries is what the keystore holds; with no such command
\* in progress the account in memory is.
Restorable ==
    ~swapped =>
        /\ \A c \in Cmds : pc[c] = "account" => arg[c] = keystore
        /\ (account # None /\ \A c \in Cmds : pc[c] # "account")
               => keystore = [acct |-> account, pass |-> passphrase]

BalanceInv == Received /\ Agree /\ Forgot /\ Kept

-----------------------------------------------------------------------------
(* Sequences of tokens. *)

LEMMA EmptyRange == Range(<<>>) = {} /\ Inj(<<>>)
BY DEF Range, Inj

LEMMA PopRange ==
    ASSUME NEW T, NEW s \in Seq(T), s # <<>>
    PROVE  /\ Range(s) = Range(Front(s)) \cup {Last(s)}
           /\ Inj(s) => Inj(Front(s)) /\ Last(s) \notin Range(Front(s))
<1>1. /\ Len(s) \in Nat \ {0} /\ Last(s) = s[Len(s)]
      /\ Front(s) \in Seq(T) /\ Len(Front(s)) = Len(s) - 1
      /\ \A i \in 1..(Len(s) - 1) : Front(s)[i] = s[i]
    BY PopFacts
<1>2. DOMAIN s = 1..Len(s) /\ DOMAIN Front(s) = 1..(Len(s) - 1)
  <2>1. \A f \in Seq(T) : DOMAIN f = 1..Len(f)
      BY LenProperties
  <2> QED BY <1>1, <2>1
<1>3. \A i \in 1..Len(s) : i \in 1..(Len(s) - 1) \/ i = Len(s)
    BY <1>1
<1>4. \A i \in 1..(Len(s) - 1) : i \in 1..Len(s) /\ i # Len(s)
    BY <1>1
<1>5. Len(s) \in 1..Len(s)
    BY <1>1
<1>6. Range(s) = Range(Front(s)) \cup {Last(s)}
    BY <1>1, <1>2, <1>3, <1>4, <1>5 DEF Range
<1>7. Inj(s) => Inj(Front(s))
    BY <1>1, <1>2, <1>4 DEF Inj
<1>8. Inj(s) => Last(s) \notin Range(Front(s))
    BY <1>1, <1>2, <1>4, <1>5 DEF Inj, Range
<1> QED BY <1>6, <1>7, <1>8

LEMMA AppendRange ==
    ASSUME NEW T, NEW s \in Seq(T), NEW t \in T
    PROVE  /\ Range(Append(s, t)) = Range(s) \cup {t}
           /\ Inj(s) /\ t \notin Range(s) => Inj(Append(s, t))
<1>1. /\ Len(s) \in Nat /\ DOMAIN s = 1..Len(s)
      /\ Append(s, t) \in Seq(T) /\ Len(Append(s, t)) = Len(s) + 1
      /\ Append(s, t)[Len(s) + 1] = t
      /\ \A i \in 1..Len(s) : Append(s, t)[i] = s[i]
    BY AppendProperties, LenProperties
<1>2. DOMAIN Append(s, t) = 1..(Len(s) + 1)
    BY <1>1, LenProperties
<1>3. \A i \in 1..(Len(s) + 1) : i \in 1..Len(s) \/ i = Len(s) + 1
    BY <1>1
<1>4. \A i \in 1..Len(s) : i \in 1..(Len(s) + 1)
    BY <1>1
<1>5. Len(s) + 1 \in 1..(Len(s) + 1)
    BY <1>1
<1>6. Range(Append(s, t)) = Range(s) \cup {t}
    BY <1>1, <1>2, <1>3, <1>4, <1>5 DEF Range
<1>7. Inj(s) /\ t \notin Range(s) => Inj(Append(s, t))
    BY <1>1, <1>2, <1>3 DEF Inj, Range
<1> QED BY <1>6, <1>7

\* What the store loads is the file's balance or nothing.
LEMMA LoadedRange ==
    ASSUME Received, NEW p
    PROVE  /\ Inj(Loaded(p)) /\ Range(Loaded(p)) \subseteq held
           /\ \A t \in Range(Loaded(p)) : OnDisk(t)
BY EmptyRange DEF Received, Loaded, OnDisk

-----------------------------------------------------------------------------
(* Steps. *)

\* Steps that leave every command at the account or a save where it is.
Quiet ==
    \A d \in Cmds : pc[d] \in {"save", "account"} \/ pc'[d] \in {"save", "account"} =>
        pc'[d] = pc[d] /\ arg'[d] = arg[d]

\* With the mutex free nothing is being saved, and otherwise only by its holder.
LEMMA SaverHolds ==
    ASSUME TypeInv
    PROVE  /\ holder = None => ~Saving
           /\ \A c \in Cmds : pc[c] \in {"acquire", "hosts", "try"} => ~Saving /\ account # None
           /\ \A c \in Cmds : pc[c] = "save" =>
                  account # None /\ \A d \in Cmds : pc[d] = "save" => d = c
<1>1. \A c \in Cmds : pc[c] \in {"acquire", "hosts", "try", "save"} => holder = c
    BY DEF TypeInv, Control, Holding
<1>2. holder # None => account # None
    BY DEF TypeInv, Linked
<1> QED BY <1>1, <1>2, AppAssumption DEF Saving

\* Steps that leave the wallet alone, whatever the origin burns.
LEMMA QuietKeeps ==
    ASSUME BalanceInv, Restorable, Quiet, burned \subseteq burned',
           UNCHANGED <<keystore, tokens_file, account, passphrase, tokens, held, settled, swapped,
                       mishaps>>
    PROVE  BalanceInv' /\ Restorable'
<1>1. Saving' <=> Saving
    BY DEF Saving, Quiet
<1>2. Received'
    BY DEF BalanceInv, Received, IsFile
<1>3. Agree'
    BY <1>1 DEF BalanceInv, Agree, Loaded, IsFile
<1>4. Forgot'
    BY <1>1 DEF BalanceInv, Forgot, IsFile
<1>5. Kept'
    BY <1>1 DEF BalanceInv, Kept, TokensKept, OnDisk, IsFile
<1>6. Restorable'
    BY DEF Restorable, Quiet
<1> QED BY <1>2, <1>3, <1>4, <1>5, <1>6 DEF BalanceInv

\* The commands of AppState and Hosting leave the wallet alone.
LEMMA OthersQuiet ==
    ASSUME TypeInv, AppNext \/ HostingNext
    PROVE  Quiet
<1>1. ASSUME NEW c \in Cmds, NEW w \in Points \ {"save", "account"}, NEW a, Goes(c, w, a),
             pc[c] \notin {"save", "account"}
      PROVE  Quiet
  <2>1. pc'[c] = w /\ \A d \in Cmds : d # c => pc'[d] = pc[d] /\ arg'[d] = arg[d]
      BY <1>1, GoesFacts DEF TypeInv
  <2> QED BY <1>1, <2>1 DEF Quiet
<1>2. {"idle", "set", "boot", "stop", "read", "detect", "provide", "serve", "spawn", "boot_child",
       "model", "key", "identity", "up", "store"} \subseteq Points \ {"save", "account"}
    BY DEF Points
<1>3. ASSUME UNCHANGED <<pc, arg>> PROVE Quiet
    BY <1>3 DEF Quiet
<1>4. ASSUME NEW c \in Cmds,
             \/ \E r \in Relays, b \in Bases : SetSettingsSave(c, r, b)
             \/ SetSettingsApply(c) \/ ConnectStart(c) \/ ConnectFailed(c)
             \/ \E tunnel \in TunnelOffered : ConnectVerified(c, tunnel)
      PROVE  Quiet
  <2>1. /\ \E w \in {"set", "idle", "boot"} : \E a : Goes(c, w, a)
        /\ pc[c] \notin {"save", "account"}
      BY <1>4 DEF SetSettingsSave, SetSettingsApply, ConnectStart, ConnectFailed, ConnectVerified,
         Invoked, At, Ends
  <2> QED BY <1>1, <1>2, <2>1
<1>5. ASSUME NEW c \in Cmds,
             \/ ReadRefused(c) \/ InstallFailed(c) \/ SpawnFails(c) \/ ChildNotReady(c)
             \/ ModelFailed(c) \/ HostKeyRefused(c) \/ HostAccountRefused(c) \/ HandleFailed(c)
             \/ (DetectFound(c) /\ StartFails(c, 0)) \/ Store(c) \/ Stopped(c)
      PROVE  Quiet
  <2>1. Goes(c, "idle", None) /\ pc[c] \notin {"save", "account"}
      BY <1>5 DEF ReadRefused, InstallFailed, SpawnFails, ChildNotReady, ModelFailed,
         HostKeyRefused, HostAccountRefused, HandleFailed, DetectFound, Store, Stopped, StartFails,
         Ends, At
  <2> QED BY <1>1, <1>2, <2>1
<1>6. ASSUME NEW c \in Cmds,
             \/ StartLatch(c) \/ ReadInner(c) \/ StopTake(c) \/ Spawn(c)
             \/ (DetectFound(c) /\ ~StartFails(c, 0)) \/ ModelReady(c)
      PROVE  Quiet
  <2>1. /\ \E w \in {"read", "detect", "key", "boot_child", "stop"} : \E a : Goes(c, w, a)
        /\ pc[c] \notin {"save", "account"}
      BY <1>6 DEF StartLatch, ReadInner, StopTake, Spawn, DetectFound, ModelReady, StartGoes, At,
         Invoked
  <2> QED BY <1>1, <1>2, <2>1
<1>7. ASSUME NEW c \in Cmds,
             \/ DetectNothing(c) \/ Install(c) \/ ServingAlready(c) \/ ServingNobody(c)
             \/ ChildReady(c) \/ HostKeyLoaded(c) \/ HostAccountLoaded(c) \/ HandleStarted(c)
      PROVE  Quiet
  <2>1. /\ \E w \in {"serve", "provide", "model", "spawn", "identity", "up", "store"} :
              Goes(c, w, arg[c])
        /\ pc[c] \notin {"save", "account"}
      BY <1>7 DEF DetectNothing, Install, ServingAlready, ServingNobody, ChildReady, HostKeyLoaded,
         HostAccountLoaded, HandleStarted, StartGoes, At
  <2> QED BY <1>1, <1>2, <2>1
<1>8. CASE UserServer \/ \E c \in Cmds : GrantConsent(c)
    BY <1>3, <1>8 DEF UserServer, GrantConsent, appVars
<1>9. CASE AppNext
    BY <1>4, <1>8, <1>9 DEF AppNext
<1>10. CASE HostingNext
    BY <1>5, <1>6, <1>7, <1>8, <1>10 DEF HostingNext
<1> QED BY <1>9, <1>10

\* Another balance waits to be saved: what is unspent stays in memory, or only the
\* file's passphrase has changed under it.
LEMMA BalanceChanges ==
    ASSUME TypeInv, BalanceInv, Restorable, NEW c \in Cmds, pc[c] \in {"acquire", "try"},
           Goes(c, "save", None), mishaps \subseteq mishaps',
           UNCHANGED <<keystore, tokens_file, account, passphrase, swapped>>,
           Inj(tokens'), Range(tokens') \subseteq held', held \subseteq held',
           settled' \subseteq held', burned \subseteq burned',
           settled \cap Range(tokens) = {} => settled' \cap Range(tokens') = {},
           mishaps' = {} => \A t \in held' \ burned' :
               t \in Range(tokens') \/ (t \in held /\ t \notin Range(tokens))
    PROVE  BalanceInv' /\ Restorable'
<1>1. /\ "save" \in Points /\ ~Saving /\ account # None
    BY SaverHolds DEF Points
<1>2. /\ pc'[c] = "save" /\ \A d \in Cmds : d # c => pc'[d] = pc[d] /\ arg'[d] = arg[d]
    BY <1>1, GoesFacts DEF TypeInv
<1>3. Saving'
    BY <1>2 DEF Saving
<1>4. Received' /\ Agree'
    BY <1>3 DEF BalanceInv, Received, Agree, IsFile
<1>5. Forgot'
    BY <1>3 DEF BalanceInv, Forgot
<1>6. Kept'
  <2> SUFFICES ASSUME mishaps' = {}
               PROVE  /\ TokensKept'
                      /\ \/ IsFile(tokens_file) /\ tokens_file.pass # passphrase
                         \/ \A t \in held' \ burned' : t \in Range(tokens')
      BY <1>3 DEF Kept, IsFile
  <2>1. mishaps = {} /\ tokens = Loaded(passphrase) /\ \A t \in held \ burned : OnDisk(t)
      BY <1>1 DEF BalanceInv, Agree, Kept
  <2>2. \A t \in held' \ burned' : t \in Range(tokens') \/ (OnDisk(t) /\ t \notin Range(tokens))
      BY <2>1
  <2>3. TokensKept'
      BY <2>2 DEF TokensKept, OnDisk, IsFile
  <2>4. CASE IsFile(tokens_file) /\ tokens_file.pass = passphrase
    <3>1. tokens = tokens_file.toks
        BY <2>1, <2>4 DEF Loaded
    <3> QED BY <2>2, <2>3, <3>1 DEF OnDisk
  <2>5. CASE ~IsFile(tokens_file)
      BY <2>2, <2>3, <2>5 DEF OnDisk
  <2> QED BY <2>3, <2>4, <2>5
<1>7. Restorable'
    BY <1>2 DEF Restorable
<1> QED BY <1>4, <1>5, <1>6, <1>7 DEF BalanceInv

\* The balance in memory is replaced, with nothing waiting to be saved, by tokens
\* that are on disk too.
LEMMA BalanceReplaced ==
    ASSUME BalanceInv, ~Saving, ~Saving',
           UNCHANGED <<tokens_file, burned, held, settled, mishaps>>,
           Inj(tokens'), \A t \in Range(tokens') : OnDisk(t),
           account' # None => tokens' = Loaded(passphrase')
    PROVE  BalanceInv'
<1>1. Received'
    BY DEF BalanceInv, Received, IsFile, OnDisk
<1>2. Agree'
    BY DEF Agree, Loaded, IsFile
<1>3. Forgot'
    BY DEF BalanceInv, Forgot, IsFile, OnDisk
<1>4. Kept'
    BY DEF BalanceInv, Kept, TokensKept, OnDisk, IsFile
<1> QED BY <1>1, <1>2, <1>3, <1>4 DEF BalanceInv

\* Account commands: the keystore is written before the mutex is taken, and the
\* tokens are loaded once it is.
LEMMA AccountSteps ==
    ASSUME TypeInv, BalanceInv, Restorable, NEW c \in Cmds,
           \/ \E a \in Accts, p \in Passes : CreateAccount(c, a, p) \/ ImportAccount(c, a, p)
           \/ \E p \in Passes : Unlock(c, p)
           \/ AccountInstall(c) \/ Lock(c)
    PROVE  BalanceInv' /\ Restorable'
<1>1. \A w \in {"idle", "account"} : \A a : Goes(c, w, a) =>
          /\ pc'[c] = w /\ arg'[c] = a
          /\ \A d \in Cmds : d # c => pc'[d] = pc[d] /\ arg'[d] = arg[d]
    BY GoesFacts, QuietPoints DEF TypeInv
<1>2. ASSUME NEW id, Goes(c, "account", id), pc[c] = "idle",
             UNCHANGED <<tokens_file, account, passphrase, tokens, burned, held, settled, mishaps>>
      PROVE  BalanceInv'
  <2>1. Saving' <=> Saving
      BY <1>1, <1>2 DEF Saving
  <2>2. Received' /\ Agree'
      BY <1>2, <2>1 DEF BalanceInv, Received, Agree, Loaded, IsFile
  <2>3. Forgot' /\ Kept'
      BY <1>2, <2>1 DEF BalanceInv, Forgot, Kept, TokensKept, OnDisk, IsFile
  <2> QED BY <2>2, <2>3 DEF BalanceInv
<1>3. ASSUME NEW a \in Accts, NEW p \in Passes, Persisted(c, a, p), pc[c] = "idle"
      PROVE  BalanceInv' /\ Restorable'
  <2>1. PICK id : id = [acct |-> a, pass |-> p]
      OBVIOUS
  <2>2. /\ Goes(c, "account", id) /\ keystore' = id /\ swapped' = (swapped \/ Disturbs(c))
        /\ UNCHANGED <<tokens_file, account, passphrase, tokens, burned, held, settled, mishaps>>
      BY <1>3, <2>1 DEF Persisted, inner, origin
  <2>3. BalanceInv'
      BY <1>2, <1>3, <2>2
  <2>4. /\ pc'[c] = "account" /\ arg'[c] = id
        /\ \A d \in Cmds : d # c => pc'[d] = pc[d] /\ arg'[d] = arg[d]
      BY <1>1, <2>2
  <2>5. ~swapped' => \A d \in Cmds \ {c} : pc[d] # "account"
      BY <2>2 DEF Disturbs
  <2> QED BY <2>2, <2>3, <2>4, <2>5 DEF Restorable
<1>4. ASSUME NEW p \in Passes, Unlock(c, p) PROVE BalanceInv' /\ Restorable'
  <2>1. Goes(c, "account", keystore) /\ pc[c] = "idle" /\ UNCHANGED walletVars
      BY <1>4 DEF Unlock, Invoked
  <2>2. BalanceInv'
      BY <1>2, <2>1 DEF walletVars
  <2>3. /\ pc'[c] = "account" /\ arg'[c] = keystore
        /\ \A d \in Cmds : d # c => pc'[d] = pc[d] /\ arg'[d] = arg[d]
      BY <1>1, <2>1
  <2> QED BY <2>1, <2>2, <2>3 DEF Restorable, walletVars
<1>5. CASE AccountInstall(c)
  <2>1. /\ pc[c] = "account" /\ arg[c] \in Identity /\ holder = None /\ Goes(c, "idle", None)
        /\ account' = arg[c].acct /\ passphrase' = arg[c].pass /\ tokens' = Loaded(arg[c].pass)
        /\ UNCHANGED <<keystore, tokens_file, burned, held, settled, swapped, mishaps>>
      BY <1>5 DEF AccountInstall, At, Unlocked, Ends, files, origin, history, TypeInv, Control, CmdArg
  <2>2. pc'[c] = "idle" /\ \A d \in Cmds : d # c => pc'[d] = pc[d] /\ arg'[d] = arg[d]
      BY <1>1, <2>1
  <2>3. ~Saving /\ ~Saving'
      BY <2>1, <2>2, SaverHolds DEF Saving
  <2>4. Inj(tokens') /\ \A t \in Range(tokens') : OnDisk(t)
      BY <2>1, LoadedRange DEF BalanceInv
  <2>5. tokens' = Loaded(passphrase')
      BY <2>1
  <2>6. BalanceInv'
      BY <2>1, <2>3, <2>4, <2>5, BalanceReplaced
  <2>7. arg[c] = [acct |-> arg[c].acct, pass |-> arg[c].pass]
      BY <2>1 DEF Identity
  <2>8. Restorable'
      BY <2>1, <2>2, <2>7 DEF Restorable
  <2> QED BY <2>6, <2>8
<1>6. CASE Lock(c)
  <2>1. /\ holder = None /\ account' = None /\ tokens' = <<>> /\ UNCHANGED <<pc, arg>>
        /\ UNCHANGED <<keystore, tokens_file, burned, held, settled, swapped, mishaps>>
      BY <1>6 DEF Lock, Unlocked, appVars, files, origin, history
  <2>2. ~Saving /\ ~Saving'
      BY <2>1, SaverHolds DEF Saving
  <2>3. BalanceInv'
      BY <2>1, <2>2, BalanceReplaced, EmptyRange
  <2> QED BY <2>1, <2>3 DEF Restorable
<1> QED BY <1>3, <1>4, <1>5, <1>6 DEF CreateAccount, ImportAccount, Invoked

\* Acquiring and spending, up to the save.
LEMMA SpendSteps ==
    ASSUME TypeInv, BalanceInv, Restorable, NEW c \in Cmds,
           \/ AcquireStart(c) \/ AcquireFailed(c)
           \/ SendStart(c) \/ SendFailed(c)
           \/ TryOk(c) \/ Try409(c)
           \/ \E t \in Tokens : Acquired(c, t)
           \/ \E n \in 1..MaxHosts : SendHosts(c, n)
           \/ \E spent, late \in BOOLEAN : TryNext(c, spent, late)
    PROVE  BalanceInv' /\ Restorable'
<1>1. ASSUME NEW w \in {"idle", "acquire", "hosts", "try"}, NEW a, Goes(c, w, a),
             pc[c] \notin {"save", "account"}
      PROVE  Quiet
  <2>1. w \in Points
      BY DEF Points
  <2>2. pc'[c] = w /\ \A d \in Cmds : d # c => pc'[d] = pc[d] /\ arg'[d] = arg[d]
      BY <1>1, <2>1, GoesFacts DEF TypeInv
  <2> QED BY <1>1, <2>2 DEF Quiet
<1>2. CASE \/ AcquireStart(c) \/ AcquireFailed(c) \/ SendStart(c) \/ SendFailed(c)
           \/ \E n \in 1..MaxHosts : SendHosts(c, n)
  <2>1. /\ \E w \in {"idle", "acquire", "hosts", "try"} : \E a : Goes(c, w, a)
        /\ pc[c] \notin {"save", "account"} /\ UNCHANGED walletVars
      BY <1>2 DEF AcquireStart, AcquireFailed, SendStart, SendFailed, SendHosts, Takes, Returns,
         Continues, Ends, Invoked, At
  <2> QED BY <1>1, <2>1, QuietKeeps DEF walletVars
<1>3. tokens \in Seq(Tokens) /\ Received
    BY DEF TypeInv, WalletTypeOK, BalanceInv
<1>4. ASSUME NEW t \in Tokens, Acquired(c, t) PROVE BalanceInv' /\ Restorable'
  <2>1. /\ pc[c] = "acquire" /\ Goes(c, "save", None) /\ t \notin held
        /\ tokens' = Append(tokens, t) /\ held' = held \cup {t}
        /\ UNCHANGED <<keystore, tokens_file, account, passphrase, burned, settled, swapped, mishaps>>
      BY <1>4 DEF Acquired, At, Continues, files, origin
  <2>2. Range(tokens') = Range(tokens) \cup {t} /\ Inj(tokens')
      BY <1>3, <2>1, AppendRange DEF Received
  <2>3. settled \cap Range(tokens) = {} => settled' \cap Range(tokens') = {}
      BY <1>3, <2>1, <2>2 DEF Received
  <2>4. Range(tokens') \subseteq held' /\ settled' \subseteq held'
      BY <1>3, <2>1, <2>2 DEF Received
  <2>5. \A u \in held' \ burned' : u \in Range(tokens') \/ (u \in held /\ u \notin Range(tokens))
      BY <2>1, <2>2
  <2> QED BY <2>1, <2>2, <2>3, <2>4, <2>5, BalanceChanges
<1>5. ASSUME pc[c] = "try"
      PROVE  /\ Last(tokens) \in held
             /\ Range(tokens) = Range(Front(tokens)) \cup {Last(tokens)}
             /\ Inj(Front(tokens)) /\ Last(tokens) \notin Range(Front(tokens))
  <2>1. tokens # <<>>
      BY <1>5 DEF TypeInv, Linked
  <2> QED BY <1>3, <2>1, PopRange DEF Received
<1>6. CASE TryOk(c) \/ Try409(c)
  <2>1. /\ pc[c] = "try" /\ Goes(c, "save", None) /\ tokens' = Front(tokens)
        /\ mishaps \subseteq mishaps' /\ burned \subseteq burned'
        /\ settled' = settled \/ settled' = settled \cup {Last(tokens)}
        /\ mishaps' = {} => Last(tokens) \in burned'
        /\ UNCHANGED <<keystore, tokens_file, account, passphrase, held, swapped>>
      BY <1>6 DEF TryOk, Try409, At, Continues, files, origin, Popped
  <2>2. Inj(tokens') /\ Range(tokens') \subseteq held' /\ settled' \subseteq held'
      BY <1>3, <1>5, <2>1 DEF Received
  <2>3. settled \cap Range(tokens) = {} => settled' \cap Range(tokens') = {}
      BY <1>5, <2>1
  <2>4. mishaps' = {} => \A u \in held' \ burned' :
            u \in Range(tokens') \/ (u \in held /\ u \notin Range(tokens))
      BY <1>5, <2>1
  <2> QED BY <2>1, <2>2, <2>3, <2>4, BalanceChanges
<1>7. ASSUME NEW spent \in BOOLEAN, NEW late \in BOOLEAN, TryNext(c, spent, late)
      PROVE  BalanceInv' /\ Restorable'
  <2>1. /\ pc[c] = "try" /\ burned \subseteq burned'
        /\ UNCHANGED <<keystore, tokens_file, account, passphrase, tokens, held, settled, swapped,
                       mishaps>>
      BY <1>7 DEF TryNext, At, files, inner, history
  <2>2. CASE Goes(c, "save", None)
    <3>1. Inj(tokens') /\ Range(tokens') \subseteq held' /\ settled' \subseteq held'
        BY <1>3, <2>1 DEF Received
    <3> QED BY <2>1, <2>2, <3>1, BalanceChanges
  <2>3. CASE \E a : Goes(c, "try", a)
    <3>1. Quiet
        BY <1>1, <2>1, <2>3
    <3> QED BY <2>1, <3>1, QuietKeeps
  <2> QED BY <1>7, <2>2, <2>3 DEF TryNext, Continues
<1> QED BY <1>2, <1>4, <1>6, <1>7

\* The save: memory and disk agree again, and an unspent token was in memory.
LEMMA SaveSteps ==
    ASSUME TypeInv, BalanceInv, Restorable, NEW c \in Cmds,
           Save(c) \/ SaveFailed(c, tokens_file) \/ SaveFailed(c, Torn)
    PROVE  BalanceInv' /\ Restorable'
<1>1. /\ pc[c] = "save" /\ Goes(c, "idle", None)
      /\ UNCHANGED <<keystore, account, passphrase, tokens, burned, held, settled, swapped>>
    BY DEF Save, SaveFailed, At, Returns, Ends, inner, origin
<1>2. pc'[c] = "idle" /\ \A d \in Cmds : d # c => pc'[d] = pc[d] /\ arg'[d] = arg[d]
    BY <1>1, GoesFacts, QuietPoints DEF TypeInv
<1>3. account # None /\ Saving /\ ~Saving'
    BY <1>1, <1>2, SaverHolds DEF Saving
<1>4. Restorable'
    BY <1>1, <1>2 DEF Restorable
<1>5. Received
    BY DEF BalanceInv
<1>6. CASE Save(c)
  <2>1. PICK f : f = [pass |-> passphrase, toks |-> tokens]
      OBVIOUS
  <2>2. /\ tokens_file' = f /\ f.pass = passphrase /\ f.toks = tokens
        /\ mishaps' = IF IsFile(tokens_file) /\ tokens_file.pass # passphrase
                      THEN mishaps \cup {"overwritten"} ELSE mishaps
      BY <1>6, <2>1 DEF Save
  <2>3. f \in TokenFile
      BY <1>3, <2>1 DEF TypeInv, Linked, WalletTypeOK, TokenFile
  <2>4. IsFile(f)
      BY <2>3, NoFile DEF IsFile
  <2>5. Received'
      BY <1>1, <1>5, <2>2 DEF Received
  <2>6. Agree'
      BY <1>1, <2>2, <2>4 DEF Agree, Loaded, IsFile
  <2>7. Forgot'
    <3>1. "died" \in mishaps => "died" \in mishaps'
        BY <2>2
    <3>2. "disk" \in mishaps => "disk" \in mishaps'
        BY <2>2
    <3> QED BY <1>1, <2>2, <3>1, <3>2 DEF BalanceInv, Forgot
  <2>8. Kept'
    <3> SUFFICES ASSUME mishaps' = {} PROVE \A t \in held \ burned : t \in Range(tokens)
        BY <1>1, <1>3, <2>2, <2>4 DEF Kept, TokensKept, OnDisk, IsFile
    <3> QED BY <1>3, <2>2 DEF BalanceInv, Kept
  <2> QED BY <1>4, <2>5, <2>6, <2>7, <2>8 DEF BalanceInv
<1>7. CASE SaveFailed(c, tokens_file) \/ SaveFailed(c, Torn)
  <2>1. "disk" \in mishaps' /\ tokens_file' \in {tokens_file, Torn}
      BY <1>7 DEF SaveFailed
  <2>2. Received'
      BY <1>1, <1>5, <2>1 DEF Received, IsFile
  <2>3. Agree' /\ Forgot' /\ Kept'
      BY <2>1 DEF Agree, Forgot, Kept
  <2> QED BY <1>4, <2>2, <2>3 DEF BalanceInv
<1> QED BY <1>6, <1>7

\* The app goes away or comes back.
LEMMA WalletLife ==
    ASSUME TypeInv, BalanceInv, Restorable,
           \/ Exit \/ Launch
           \/ \E torn \in {"none", "tokens", "keystore", "settings"} : Die(torn)
    PROVE  BalanceInv' /\ Restorable'
<1>1. ASSUME MemoryGone, tokens_file' \in {tokens_file, Torn}, Saving \/ tokens_file' = tokens_file
      PROVE  BalanceInv' /\ Restorable'
  <2>1. /\ pc' = [c \in Cmds |-> "idle"] /\ account' = None /\ tokens' = <<>>
        /\ UNCHANGED <<burned, held, settled, swapped>>
        /\ mishaps' = IF Saving THEN mishaps \cup {"died"} ELSE mishaps
      BY <1>1 DEF MemoryGone, Saving
  <2>2. ~Saving' /\ \A c \in Cmds : pc'[c] # "account"
      BY <2>1 DEF Saving
  <2>3. Restorable'
      BY <2>1, <2>2 DEF Restorable
  <2>4. Received' /\ Agree'
      BY <1>1, <2>1, EmptyRange DEF BalanceInv, Received, Agree, IsFile
  <2>5. CASE Saving
      BY <2>1, <2>3, <2>4, <2>5 DEF BalanceInv, Forgot, Kept
  <2>6. CASE ~Saving
    <3>1. tokens_file' = tokens_file /\ mishaps' = mishaps
        BY <1>1, <2>1, <2>6
    <3>2. Forgot'
        BY <2>1, <2>6, <3>1, EmptyRange DEF BalanceInv, Forgot, IsFile
    <3>3. Kept'
        BY <2>1, <2>2, <2>6, <3>1 DEF BalanceInv, Kept, TokensKept, OnDisk, IsFile
    <3> QED BY <2>3, <2>4, <3>2, <3>3 DEF BalanceInv
  <2> QED BY <2>5, <2>6
<1>2. CASE Exit
    BY <1>1, <1>2 DEF Exit, files
<1>3. ASSUME NEW torn \in {"none", "tokens", "keystore", "settings"}, Die(torn)
      PROVE  BalanceInv' /\ Restorable'
    BY <1>1, <1>3 DEF Die, files, Saving
<1>4. CASE Launch
  <2>1. /\ UNCHANGED <<pc, arg, tokens_file, account, passphrase, tokens, burned, held, settled, mishaps>>
        /\ account = None /\ \A c \in Cmds : pc[c] = "idle"
      BY <1>4 DEF Launch, files, inner, origin, TypeInv, Down
  <2>2. Saving' <=> Saving
      BY <2>1 DEF Saving
  <2>3. Received' /\ Agree'
      BY <2>1 DEF BalanceInv, Received, Agree, IsFile
  <2>4. Forgot' /\ Kept'
      BY <2>1, <2>2 DEF BalanceInv, Forgot, Kept, TokensKept, OnDisk, IsFile
  <2> QED BY <2>1, <2>3, <2>4 DEF BalanceInv, Restorable
<1> QED BY <1>2, <1>3, <1>4

LEMMA WalletStart == Init => BalanceInv /\ Restorable
<1> SUFFICES ASSUME Init PROVE BalanceInv /\ Restorable
    OBVIOUS
<1>1. /\ account = None /\ tokens_file = None /\ tokens = <<>> /\ held = {} /\ settled = {}
      /\ \A c \in Cmds : pc[c] = "idle"
    BY DEF Init, AppInit, WalletInit
<1>2. Received /\ Agree
    BY <1>1, EmptyRange DEF Received, Agree, IsFile
<1>3. Forgot /\ Kept
    BY <1>1 DEF Forgot, Kept, TokensKept, Saving
<1> QED BY <1>1, <1>2, <1>3 DEF BalanceInv, Restorable

LEMMA WalletStep == TypeInv /\ BalanceInv /\ Restorable /\ [Next]_vars => BalanceInv' /\ Restorable'
<1> SUFFICES ASSUME TypeInv, BalanceInv, Restorable, [Next]_vars PROVE BalanceInv' /\ Restorable'
    OBVIOUS
<1>1. CASE UNCHANGED vars
  <2>1. Quiet /\ UNCHANGED walletVars
      BY <1>1 DEF Quiet, vars, appVars
  <2> QED BY <2>1, QuietKeeps DEF walletVars
<1>2. CASE AppNext /\ UNCHANGED <<walletVars, hostingVars, launches>>
    BY <1>2, OthersQuiet, QuietKeeps DEF walletVars
<1>3. CASE HostingNext
  <2>1. UNCHANGED walletVars
      BY <1>3 DEF HostingNext, ReadRefused, InstallFailed, SpawnFails, ChildNotReady, ModelFailed,
         HostKeyRefused, HostAccountRefused, HandleFailed, DetectFound, Stopped, StartFails,
         StartLatch, ReadInner, StopTake, Spawn, ModelReady, DetectNothing, Install, ServingAlready,
         ServingNobody, ChildReady, HostKeyLoaded, HostAccountLoaded, HandleStarted, StartGoes,
         Store, UserServer
  <2> QED BY <1>3, <2>1, OthersQuiet, QuietKeeps DEF walletVars
<1>4. ASSUME NEW t \in Tokens, LateSpend(t) PROVE BalanceInv' /\ Restorable'
  <2>1. /\ Quiet /\ burned \subseteq burned'
        /\ UNCHANGED <<keystore, tokens_file, account, passphrase, tokens, held, settled, swapped,
                       mishaps>>
      BY <1>4 DEF LateSpend, Quiet, appVars, files, inner, history
  <2> QED BY <2>1, QuietKeeps
<1>5. CASE WalletNext
    BY <1>4, <1>5, AccountSteps, SpendSteps, SaveSteps DEF WalletNext
<1> QED BY <1>1, <1>2, <1>3, <1>5, WalletLife DEF Next

LEMMA WalletInvariant == Spec => [](TypeInv /\ BalanceInv /\ Restorable)
<1> DEFINE I == TypeInv /\ BalanceInv /\ Restorable
<1>1. Init => I
    BY TypeStart, WalletStart
<1>2. I /\ [Next]_vars => I'
    BY TypeStep, WalletStep
<1> QED BY <1>1, <1>2, PTL DEF Spec

-----------------------------------------------------------------------------
(* The theorems. *)

\* With the mutex free, memory holds exactly the tokens its passphrase opens on disk,
\* short of a disk error (TokenStore::load, TokenStore::save).
THEOREM MemoryMatchesDisk == Spec => []StoreAgrees
<1>1. TypeInv /\ BalanceInv => StoreAgrees
    BY SaverHolds DEF BalanceInv, Agree, StoreAgrees, Unlocked
<1> QED BY <1>1, WalletInvariant, PTL

\* A token the app received and the origin did not burn is in memory or on disk, short
\* of the four mishaps (acquire, send_message, TokenStore::save).
THEOREM TokensAreKept == Spec => []TokensKept
<1>1. BalanceInv => TokensKept
    BY DEF BalanceInv, Kept, TokensKept
<1> QED BY <1>1, WalletInvariant, PTL

\* A token that was settled does not come back into the balance (send_message).
THEOREM SettledIsForgotten == Spec => []SpentForgotten
<1>1. BalanceInv => SpentForgotten
    BY DEF BalanceInv, Forgot, SpentForgotten
<1> QED BY <1>1, WalletInvariant, PTL

\* The account in memory is the one that unlocking the keystore brings back, unless
\* two account commands crossed (create_account, import_account, unlock).
THEOREM AccountIsRestorable == Spec => []AccountRestorable
<1>1. Restorable => AccountRestorable
    BY DEF Restorable, AccountRestorable
<1> QED BY <1>1, WalletInvariant, PTL
=============================================================================
