------------------------------- MODULE Wallet -------------------------------
(***************************************************************************)
(* The desktop app's account and its unspent tokens (src-tauri: account.rs,*)
(* client.rs and their commands in lib.rs).                                *)
(*                                                                         *)
(* Keystore and token file are sealed under a passphrase: they open under  *)
(* that one only, and not at all once a write of them was cut short.  The  *)
(* account commands work on the keystore before they take the mutex; a     *)
(* chat or an acquire keeps the mutex until it has saved the tokens.       *)
(*                                                                         *)
(* The network and the origin are external: an attempt to spend a token is *)
(* answered, refused with 409, or fails; the origin may or may not have    *)
(* burned the token, even some time after the app gave the attempt up.     *)
(***************************************************************************)
EXTENDS AppState, Naturals, Sequences, SequencesExt

CONSTANTS Torn,       \* a file whose write was cut short
          Accts,      \* accounts, as their recovery phrases
          Passes,     \* passphrases
          Tokens,     \* tokens the issuer can sign
          MaxHosts    \* bound on the hosts of a snapshot

ASSUME WalletAssumption == MaxHosts \in Nat

VARIABLES
    keystore,    \* keystore.bin: None, Torn or what it seals
    tokens_file, \* tokens.bin: None, Torn or what it seals
    account,     \* Inner.account
    passphrase,  \* Inner.passphrase
    tokens,      \* Inner.tokens
    \* the origin
    burned,      \* tokens in its spent set
    stray,       \* tokens of attempts given up that may still be spent
    \* history, read by the properties only
    minted,      \* accounts that exist
    held,        \* tokens the app ever received
    settled,     \* tokens the app was told are spent
    swapped,     \* the keystore changed under another account command
    mishaps      \* what happened to the token file or to a token

walletVars == <<keystore, tokens_file, account, passphrase, tokens, burned, stray,
                minted, held, settled, swapped, mishaps>>
files == <<keystore, tokens_file>>
inner == <<account, passphrase, tokens>>
origin == <<burned, stray>>
history == <<minted, held, settled, swapped, mishaps>>

Identity == [acct : Accts, pass : Passes]
TokenFile == [pass : Passes, toks : Seq(Tokens)]
Mishaps == {"died", "disk", "overwritten", "refused"}

ASSUME NoFile ==
    /\ None \notin Accts \cup Passes
    /\ \A f \in {None, Torn} : f \notin Identity /\ f \notin TokenFile

WalletTypeOK ==
    /\ keystore \in Identity \cup {None, Torn}
    /\ \/ tokens_file \in {None, Torn}
       \/ tokens_file \in TokenFile
    /\ account \in Accts \cup {None}
    /\ passphrase \in Passes \cup {None}
    /\ tokens \in Seq(Tokens)
    /\ burned \subseteq Tokens /\ stray \subseteq Tokens
    /\ minted \subseteq Accts /\ held \subseteq Tokens /\ settled \subseteq Tokens
    /\ swapped \in BOOLEAN
    /\ mishaps \subseteq Mishaps

WalletInit ==
    /\ keystore = None
    /\ tokens_file = None
    /\ account = None
    /\ passphrase = None
    /\ tokens = <<>>
    /\ burned = {} /\ stray = {}
    /\ minted = {} /\ held = {} /\ settled = {}
    /\ swapped = FALSE
    /\ mishaps = {}

IsFile(f) == f \notin {None, Torn}

\* TokenStore::load: missing, corrupt or sealed under another passphrase, the
\* store is empty.
Loaded(p) ==
    IF IsFile(tokens_file) /\ tokens_file.pass = p THEN tokens_file.toks ELSE <<>>

-----------------------------------------------------------------------------
(* Account commands. *)

\* Another account command has been at the keystore and waits for the mutex.
Disturbs(c) == \E d \in Cmds \ {c} : pc[d] = "account"

\* Mutant of Persisted: the keystore is only written if there is none.
PersistedOnce(c, a, p) ==
    /\ keystore' = IF keystore = None THEN [acct |-> a, pass |-> p] ELSE keystore
    /\ Goes(c, "account", [acct |-> a, pass |-> p])
    /\ minted' = minted \cup {a}
    /\ swapped' = (swapped \/ Disturbs(c))
    /\ UNCHANGED <<running, holder, settings, settings_file, verified, crossed, raced>>
    /\ UNCHANGED <<tokens_file, inner, origin, held, settled, mishaps>>

\* Account::persist, then the wait for the mutex.
Persisted(c, a, p) ==
    /\ keystore' = [acct |-> a, pass |-> p]
    /\ Goes(c, "account", [acct |-> a, pass |-> p])
    /\ minted' = minted \cup {a}
    /\ swapped' = (swapped \/ Disturbs(c))
    /\ UNCHANGED <<running, holder, settings, settings_file, verified, crossed, raced>>
    /\ UNCHANGED <<tokens_file, inner, origin, held, settled, mishaps>>

\* A new account, or a known phrase.
CreateAccount(c, a, p) ==
    /\ Invoked(c, "create_account")
    /\ a \notin minted
    /\ Persisted(c, a, p)

ImportAccount(c, a, p) ==
    /\ Invoked(c, "import_account")
    /\ a \in minted
    /\ Persisted(c, a, p)

\* Account::unlock: anything but the passphrase it was sealed under is refused.
KeystoreOpens(p) == IsFile(keystore) /\ keystore.pass = p

Unlock(c, p) ==
    /\ Invoked(c, "unlock")
    /\ KeystoreOpens(p)
    /\ Goes(c, "account", keystore)
    /\ UNCHANGED <<running, holder, settings, settings_file, verified, crossed, raced,
                   walletVars>>

\* Mutant of AccountInstall: the tokens in memory are kept.
AccountInstallKeepsTokens(c) ==
    /\ At(c, "account")
    /\ Unlocked
    /\ account' = arg[c].acct
    /\ passphrase' = arg[c].pass
    /\ Ends(c)
    /\ UNCHANGED <<running, holder, settings, settings_file, verified, crossed, raced>>
    /\ UNCHANGED <<files, tokens, origin, history>>

\* The mutex is ours: the account is installed with the tokens its passphrase
\* opens.
AccountInstall(c) ==
    /\ At(c, "account")
    /\ Unlocked
    /\ tokens' = Loaded(arg[c].pass)
    /\ account' = arg[c].acct
    /\ passphrase' = arg[c].pass
    /\ Ends(c)
    /\ UNCHANGED <<running, holder, settings, settings_file, verified, crossed, raced>>
    /\ UNCHANGED <<files, origin, history>>

Lock(c) ==
    /\ Invoked(c, "lock")
    /\ Unlocked
    /\ account' = None
    /\ passphrase' = None
    /\ tokens' = <<>>
    /\ UNCHANGED <<appVars, files, origin, history>>

-----------------------------------------------------------------------------
(* Acquiring and spending, under the mutex throughout. *)

\* Mutant of Ready: the passphrase is not asked for.
ReadyLocked == verified # None

Ready == account # None /\ passphrase # None /\ verified # None

\* The command takes the mutex and keeps it.
Takes(c, where) ==
    /\ Unlocked
    /\ Ready
    /\ holder' = c
    /\ Goes(c, where, None)
    /\ UNCHANGED <<running, settings, settings_file, verified, crossed, raced, walletVars>>

\* The command returns and the mutex is free.
Returns(c) ==
    /\ holder' = None
    /\ Ends(c)
    /\ UNCHANGED <<running, settings, settings_file, verified, crossed, raced>>

\* The command goes on with the mutex.
Continues(c, where, a) ==
    /\ Goes(c, where, a)
    /\ UNCHANGED <<running, holder, settings, settings_file, verified, crossed, raced>>

AcquireStart(c) == Invoked(c, "acquire") /\ Takes(c, "acquire")

\* No key, no credit, or the answer was lost.
AcquireFailed(c) ==
    /\ At(c, "acquire")
    /\ Returns(c)
    /\ UNCHANGED walletVars

\* Mutant of Acquired: the command returns without saving.
AcquiredUnsaved(c, t) ==
    /\ At(c, "acquire")
    /\ t \notin held
    /\ tokens' = Append(tokens, t)
    /\ held' = held \cup {t}
    /\ Returns(c)
    /\ UNCHANGED <<files, account, passphrase, origin, minted, settled, swapped, mishaps>>

\* The issuer signed and the token was unblinded.
Acquired(c, t) ==
    /\ At(c, "acquire")
    /\ t \notin held
    /\ tokens' = Append(tokens, t)
    /\ held' = held \cup {t}
    /\ Continues(c, "save", None)
    /\ UNCHANGED <<files, account, passphrase, origin, minted, settled, swapped, mishaps>>

SendStart(c) ==
    /\ Invoked(c, "send")
    /\ tokens # <<>>
    /\ Takes(c, "hosts")

\* The issuer's key or the snapshot could not be had, or lists no host.
SendFailed(c) ==
    /\ At(c, "hosts")
    /\ Returns(c)
    /\ UNCHANGED walletVars

\* n hosts to try with the last token.
SendHosts(c, n) ==
    /\ At(c, "hosts")
    /\ Continues(c, "try", [hosts |-> n])
    /\ UNCHANGED walletVars

\* Mutant of Popped: the token that was not to be used again is kept.
PoppedNot == tokens

\* store.tokens.pop()
Popped == Front(tokens)

\* The answer came: the token is spent.
TryOk(c) ==
    /\ At(c, "try")
    /\ Last(tokens) \notin burned
    /\ burned' = burned \cup {Last(tokens)}
    /\ tokens' = Popped
    /\ settled' = settled \cup {Last(tokens)}
    /\ Continues(c, "save", None)
    /\ UNCHANGED <<files, account, passphrase, stray, minted, held, swapped, mishaps>>

\* 409: the token was spent before, or the origin rolled the spend back.
Try409(c) ==
    /\ At(c, "try")
    /\ \/ /\ Last(tokens) \in burned
          /\ settled' = settled \cup {Last(tokens)}
          /\ UNCHANGED mishaps
       \/ /\ Last(tokens) \notin burned
          /\ mishaps' = mishaps \cup {"refused"}
          /\ UNCHANGED settled
    /\ tokens' = Popped
    /\ Continues(c, "save", None)
    /\ UNCHANGED <<files, account, passphrase, origin, minted, held, swapped>>

\* Any other failure, after the spend, before it, or with the request still
\* under way: the next host is tried, and after the last one the token is kept.
TryNext(c, spent, late) ==
    /\ At(c, "try")
    /\ spent => Last(tokens) \notin burned
    /\ burned' = IF spent THEN burned \cup {Last(tokens)} ELSE burned
    /\ stray' = IF late THEN stray \cup {Last(tokens)} ELSE stray
    /\ \/ arg[c].hosts > 1 /\ Continues(c, "try", [hosts |-> arg[c].hosts - 1])
       \/ arg[c].hosts = 1 /\ Continues(c, "save", None)
    /\ UNCHANGED <<files, inner, history>>

\* The origin gets to an attempt that was given up.
LateSpend(t) ==
    /\ t \in stray \ burned
    /\ burned' = burned \cup {t}
    /\ UNCHANGED <<appVars, files, inner, stray, history>>

\* TokenStore::save: written in place, whatever the file held.
Save(c) ==
    /\ At(c, "save")
    /\ tokens_file' = [pass |-> passphrase, toks |-> tokens]
    /\ mishaps' = IF IsFile(tokens_file) /\ tokens_file.pass # passphrase
                  THEN mishaps \cup {"overwritten"} ELSE mishaps
    /\ Returns(c)
    /\ UNCHANGED <<keystore, inner, origin, minted, held, settled, swapped>>

\* The file could not be opened, or only a part of it was written.
SaveFailed(c, f) ==
    /\ At(c, "save")
    /\ tokens_file' = f
    /\ mishaps' = mishaps \cup {"disk"}
    /\ Returns(c)
    /\ UNCHANGED <<keystore, inner, origin, minted, held, settled, swapped>>

WalletNext ==
    \/ \E c \in Cmds, a \in Accts, p \in Passes :
          CreateAccount(c, a, p) \/ ImportAccount(c, a, p)
    \/ \E c \in Cmds, p \in Passes : Unlock(c, p)
    \/ \E c \in Cmds :
          \/ AccountInstall(c) \/ Lock(c)
          \/ AcquireStart(c) \/ AcquireFailed(c)
          \/ SendStart(c) \/ SendFailed(c)
          \/ TryOk(c) \/ Try409(c)
          \/ Save(c)
          \/ SaveFailed(c, tokens_file) \/ SaveFailed(c, Torn)
    \/ \E c \in Cmds, t \in Tokens : Acquired(c, t)
    \/ \E c \in Cmds, n \in 1..MaxHosts : SendHosts(c, n)
    \/ \E c \in Cmds, spent, late \in BOOLEAN : TryNext(c, spent, late)
    \/ \E t \in Tokens : LateSpend(t)

-----------------------------------------------------------------------------
\* With the mutex free and an account unlocked, memory holds exactly the tokens
\* its passphrase opens on disk: no order of account commands, acquires and chats
\* leaves a token in one place only (TokenStore::load and save under the mutex).
StoreAgrees ==
    (running /\ Unlocked /\ account # None /\ "disk" \notin mishaps)
        => tokens = Loaded(passphrase)

\* An unspent token is lost in four ways only: the app died between changing the
\* balance and saving it, the disk failed, the file was overwritten under another
\* passphrase, or the origin answered 409 to a spend it had rolled back.  Short of
\* these every token ever received is spent, in memory, or in the file
\* (acquire, send_message, TokenStore).
TokensKept ==
    mishaps = {} =>
        \A t \in held \ burned :
            \/ t \in Range(tokens)
            \/ IsFile(tokens_file) /\ t \in Range(tokens_file.toks)

\* A token the app was told is spent is not in the balance again, unless its
\* removal was not saved (send_message).
SpentForgotten ==
    {"died", "disk"} \cap mishaps = {} => settled \cap Range(tokens) = {}

\* The account in memory is the one the keystore restores, under the passphrase
\* that seals the tokens, unless two account commands crossed (create_account,
\* import_account, unlock).
AccountRestorable ==
    (running /\ account # None /\ ~swapped /\ \A c \in Cmds : pc[c] # "account")
        => keystore = [acct |-> account, pass |-> passphrase]
=============================================================================
