------------------------------- MODULE Wallet -------------------------------
(***************************************************************************)
(* The wallet commands, each a process: the wallet file with the accounts' *)
(* encrypted keys, the file that locks it, and the file of the sessions    *)
(* that let a token take the place of a passphrase.  Files are replaced    *)
(* whole by a rename.  Commands that change the wallet take the lock       *)
(* before they read it; unlock and sign take none, and both rewrite the    *)
(* session file.  A command may fail, or be killed, at any step.           *)
(*                                                                         *)
(* An account is a name, a key, and the passphrase its key is encrypted    *)
(* under.  Who has the token of a session can decrypt the key in it.  A    *)
(* session of the old format holds a hash of the key, and the token is the *)
(* key itself: no command makes one any more, and a v1 wallet may have them.*)
(***************************************************************************)
EXTENDS Integers, SequencesExt, FiniteSetsExt, Functions

CONSTANTS
  Processes,
  AccountNames,                   \* names are prefix-n: n stands for the name
  Phrases,
  LegacyAccounts,             \* accounts of a v1 wallet, whose keys are in the clear
  MaxWalletCalls, MaxWalletKills   \* bounds of the instance

VARIABLES
  wallet,         \* [version, accounts, default]
  lockFile,
  sessions,       \* the session file: [name, key, token]
  expired,        \* tokens whose time is over
  process,
  keys, tokens,   \* how many were generated
  kept,           \* history: key -> passphrase, of the accounts made and not deleted
  signed,         \* history: [used, own]: the key that signed, the account's key
  raced,          \* history: a delete met a session command, or ended between its two files
  walletCalls, walletKills

walletVars == <<wallet, lockFile, sessions, expired, process, keys, tokens, kept, signed, raced, walletCalls, walletKills>>
files == <<wallet, lockFile, sessions>>
history == <<expired, keys, tokens, kept, signed, raced, walletCalls, walletKills>>

NoName == 0
Clear == "in the clear"

\* A v1 wallet is as the commands of its time left it: names once, a key for each.
ASSUME WalletAssumption ==
  /\ AccountNames \subseteq Nat \ {NoName}
  /\ LegacyAccounts \in Seq([name : AccountNames, key : 1..Len(LegacyAccounts), phrase : {Clear}])
  /\ \A i, j \in DOMAIN LegacyAccounts :
       i # j => LegacyAccounts[i].name # LegacyAccounts[j].name /\ LegacyAccounts[i].key # LegacyAccounts[j].key

WaitingProcess == [step |-> "none", command |-> "none", name |-> NoName, old |-> Clear, new |-> Clear,
                   loaded |-> << >>, account |-> << >>, token |-> 0]

LegacySessions == {[name |-> a.name, key |-> a.key, token |-> a.key] : a \in Range(LegacyAccounts)}

WalletInit ==
  /\ wallet = [version |-> IF LegacyAccounts = << >> THEN 2 ELSE 1,
               accounts |-> LegacyAccounts, default |-> NoName]
  /\ lockFile = FALSE
  /\ sessions = LegacySessions /\ expired = {}
  /\ process = [p \in Processes |-> WaitingProcess]
  /\ keys = Len(LegacyAccounts) /\ tokens = Len(LegacyAccounts)
  /\ kept = [k \in {LegacyAccounts[i].key : i \in DOMAIN LegacyAccounts} |-> Clear]
  /\ signed = {} /\ raced = FALSE
  /\ walletCalls = 0 /\ walletKills = 0

NamesOf(accts) == {accts[i].name : i \in DOMAIN accts}
Named(accts, n) == FlattenSeq([i \in DOMAIN accts |-> IF accts[i].name = n THEN <<accts[i]>> ELSE << >>])
Unnamed(accts, n) == FlattenSeq([i \in DOMAIN accts |-> IF accts[i].name = n THEN << >> ELSE <<accts[i]>>])
KeysOf(accts) == {accts[i].key : i \in DOMAIN accts}
Mutates(command) == command \in {"new", "batch", "delete", "rotate", "migrate"}
ProcAt(p, step) == process[p].step = step
ProcTo(p, step) == process' = [process EXCEPT ![p].step = step]
Working == {p \in Processes : process[p].step # "none"}

\* The command ends, with an answer or an error; a lock it holds is removed.
EndCommand(p) ==
  /\ process' = [process EXCEPT ![p] = WaitingProcess]
  /\ lockFile' = (lockFile /\ ~Mutates(process[p].command))

(* handle_wallet: a lock that is there is an error. *)
NoLockAsked(command) == TRUE
LockFree(command) == ~Mutates(command) \/ ~lockFile

Start(p) ==
  /\ ProcAt(p, "none") /\ walletCalls < MaxWalletCalls
  /\ walletCalls' = walletCalls + 1
  /\ \E command \in {"new", "batch", "delete", "rotate", "migrate", "unlock", "sign"},
        n \in AccountNames, old, new \in Phrases, t \in 0..tokens :
       /\ command \in {"new", "batch", "migrate"} => old = new /\ t = 0
       /\ command = "migrate" => n = Min(AccountNames)
       /\ command \in {"delete", "rotate", "unlock"} => t = 0
       /\ command \in {"delete", "unlock", "sign"} => old = new
       /\ LockFree(command)
       /\ lockFile' = (lockFile \/ Mutates(command))
       /\ process' = [process EXCEPT ![p] = [WaitingProcess EXCEPT !.step = "load", !.command = command, !.name = n,
                                               !.old = old, !.new = new, !.token = t]]
  /\ UNCHANGED <<wallet, sessions, expired, keys, tokens, kept, signed, raced, walletKills>>

HalfDeleted(p) == process[p].command = "delete" /\ process[p].step \in {"sessions", "forget"}

\* Wrong passphrase, unknown or taken name, no terminal, a file that cannot be written.
Fail(p) ==
  /\ ~ProcAt(p, "none") /\ ~ProcAt(p, "done")
  /\ EndCommand(p)
  /\ raced' = (raced \/ HalfDeleted(p))
  /\ UNCHANGED <<wallet, sessions, expired, keys, tokens, kept, signed, walletCalls, walletKills>>

Done(p) ==
  /\ ProcAt(p, "done")
  /\ EndCommand(p)
  /\ UNCHANGED <<wallet, sessions, history>>

(***************************************************************************)
(* load_wallet_file and what each command makes of it.                     *)
(***************************************************************************)
\* decrypt_secret
Opens(account, phrase) == account.phrase = phrase
\* decrypt_or_session: with a passphrase no session is looked for.
AfterLoad(me) ==
  IF Mutates(me.command) THEN "save"
  ELSE IF me.command = "sign" /\ me.token = 0 THEN "sign" ELSE "sessions"

Load(p) ==
  /\ ProcAt(p, "load")
  /\ (wallet.version = 2) = (process[p].command # "migrate")
  /\ LET mine == Named(wallet.accounts, process[p].name)
         me == process[p]
     IN  /\ me.command = "new" => mine = << >>
         /\ me.command \in {"delete", "rotate", "unlock", "sign"} => mine # << >>
         /\ me.command \in {"rotate", "unlock"} => Opens(mine[1], me.old)
         /\ process' = [process EXCEPT ![p].step = AfterLoad(me), ![p].loaded = <<wallet>>, ![p].account = mine]
  /\ UNCHANGED <<files, history>>

Account(n, key, phrase) == [name |-> n, key |-> key, phrase |-> phrase]
\* BatchNew counts up and passes over the names it finds taken.
FreeNames(accts, count) ==
  LET free == AccountNames \ NamesOf(accts)
  IN  {names \in [1..count -> free] :
         /\ \A i, j \in 1..count : i < j => names[i] < names[j]
         /\ \A n \in free \ Range(names) : \A i \in 1..count : names[i] < n}

NewNames(me) ==
  CASE me.command = "new" -> {<<me.name>>}
    [] me.command = "batch" -> FreeNames(me.loaded[1].accounts, 2)
    [] OTHER -> {<< >>}

Added(w, names, phrase) ==
  [w EXCEPT !.accounts = @ \o [i \in DOMAIN names |-> Account(names[i], keys + i, phrase)],
            !.default = IF @ = NoName THEN names[1] ELSE @]
Deleted(w, n) ==
  LET left == Unnamed(w.accounts, n)
  IN  [w EXCEPT !.accounts = left,
                !.default = IF @ # n THEN @ ELSE IF left = << >> THEN NoName ELSE left[1].name]
Encrypted(accts, phrase, changed) ==
  [i \in DOMAIN accts |-> IF accts[i].name \in changed THEN [accts[i] EXCEPT !.phrase = phrase] ELSE accts[i]]

Written(me, names) ==
  LET w == me.loaded[1]
  IN  CASE me.command \in {"new", "batch"} -> Added(w, names, me.new)
        [] me.command = "delete" -> Deleted(w, me.name)
        [] me.command = "rotate" -> [w EXCEPT !.accounts = Encrypted(@, me.new, {me.name})]
        [] me.command = "migrate" -> [w EXCEPT !.version = 2, !.accounts = Encrypted(@, me.new, NamesOf(@))]

\* save_wallet_file.  What this command means to change is what history records.
KeptAfter(before, after) ==
  LET gone == KeysOf(before) \ KeysOf(after)
      touched == {a.key : a \in Range(after) \ Range(before)}
      PhraseOf(k) == (CHOOSE a \in Range(after) : a.key = k).phrase
  IN  [k \in (DOMAIN kept \ gone) \cup touched |-> IF k \in touched THEN PhraseOf(k) ELSE kept[k]]

Save(p) ==
  /\ ProcAt(p, "save")
  /\ \E names \in NewNames(process[p]) :
       LET before == process[p].loaded[1].accounts
           after == Written(process[p], names)
       IN  /\ wallet' = after
           /\ keys' = keys + Cardinality(KeysOf(after.accounts) \ KeysOf(before))
           /\ kept' = KeptAfter(before, after.accounts)
  /\ ProcTo(p, IF process[p].command = "delete" THEN "sessions" ELSE "done")
  /\ UNCHANGED <<lockFile, sessions, expired, tokens, signed, raced, walletCalls, walletKills>>

(***************************************************************************)
(* The session file: read without what has expired, and written back.      *)
(***************************************************************************)
LoadSessions(p) ==
  /\ ProcAt(p, "sessions")
  /\ process' = [process EXCEPT ![p].loaded = <<{s \in sessions : s.token \notin expired}>>,
                                ![p].step = CASE process[p].command = "delete" -> "forget"
                                              [] process[p].command = "unlock" -> "keep"
                                              [] OTHER -> "sign"]
  /\ UNCHANGED <<files, history>>

OthersIn(p) == \E q \in Working \ {p} : process[q].command \in {"unlock", "sign"}
SessionsLeft(open, n) == {s \in open : s.name # n}

ForgetSessions(p) ==
  /\ ProcAt(p, "forget")
  /\ sessions' = SessionsLeft(process[p].loaded[1], process[p].name)
  /\ raced' = (raced \/ OthersIn(p))
  /\ ProcTo(p, "done")
  /\ UNCHANGED <<wallet, lockFile, expired, keys, tokens, kept, signed, walletCalls, walletKills>>

\* save_unlocked_session: one session for an account.
WithSession(open, account, token) ==
  {s \in open : s.name # account.name} \cup {[name |-> account.name, key |-> account.key, token |-> token]}

KeepSession(p) ==
  LET me == process[p]
  IN  /\ ProcAt(p, "keep")
      /\ tokens' = tokens + 1
      /\ sessions' = WithSession(me.loaded[1], me.account[1], tokens + 1)
      /\ ProcTo(p, "done")
      /\ UNCHANGED <<wallet, lockFile, expired, keys, kept, signed, raced, walletCalls, walletKills>>

\* load_unlocked_session: the session the token is of.
OpenedByToken(me) == IF me.token = 0 THEN {} ELSE {s \in me.loaded[1] : s.token = me.token}
OpenedBy(me) == IF me.token = 0 THEN {} ELSE {s \in me.loaded[1] : s.name = me.name /\ s.token = me.token}

\* With a session the file is written back; without one the passphrase is what counts.
Sign(p) ==
  LET me == process[p]  own == me.account[1].key
  IN  /\ ProcAt(p, "sign")
      /\ IF OpenedBy(me) # {}
         THEN /\ signed' = signed \cup {[used |-> s.key, own |-> own] : s \in OpenedBy(me)}
              /\ sessions' = me.loaded[1]
         ELSE /\ Opens(me.account[1], me.old)
              /\ signed' = signed \cup {[used |-> own, own |-> own]}
              /\ UNCHANGED sessions
      /\ ProcTo(p, "done")
      /\ UNCHANGED <<wallet, lockFile, expired, keys, tokens, kept, raced, walletCalls, walletKills>>

Expire ==
  /\ \E t \in 1..tokens : t \notin expired /\ expired' = expired \cup {t}
  /\ UNCHANGED <<files, process, keys, tokens, kept, signed, raced, walletCalls, walletKills>>

KillCommand(p) ==
  /\ ~ProcAt(p, "none") /\ walletKills < MaxWalletKills
  /\ walletKills' = walletKills + 1
  /\ process' = [process EXCEPT ![p] = WaitingProcess]
  /\ raced' = (raced \/ HalfDeleted(p))
  /\ UNCHANGED <<files, expired, keys, tokens, kept, signed, walletCalls>>

\* By hand, after making sure that no wallet command is running.
RemoveLock ==
  /\ lockFile /\ Working = {}
  /\ lockFile' = FALSE
  /\ UNCHANGED <<wallet, sessions, process, history>>

WalletNext ==
  \/ \E p \in Processes :
       \/ Start(p) \/ Load(p) \/ Save(p) \/ Fail(p) \/ Done(p) \/ KillCommand(p)
       \/ LoadSessions(p) \/ ForgetSessions(p) \/ KeepSession(p) \/ Sign(p)
  \/ Expire \/ RemoveLock

WalletSpec == WalletInit /\ [][WalletNext]_walletVars
-----------------------------------------------------------------------------
(* Whatever commands run at once, fail or are killed, the wallet file holds *)
(* every key made and not deleted, under the passphrase last given to it,   *)
(* and its default names an account it holds, if it names one.              *)
KeysKept ==
  /\ {<<k, kept[k]>> : k \in DOMAIN kept} = {<<a.key, a.phrase>> : a \in Range(wallet.accounts)}
  /\ wallet.default # NoName => wallet.default \in NamesOf(wallet.accounts)

(* A signature is by the key of the account it is asked of, also when a     *)
(* name is deleted and given again while sessions are open, unless a delete *)
(* ran beside a command that rewrites the session file, or ended before it  *)
(* had removed the sessions of the name.                                    *)
SignsWithOwnKey == ~raced => \A s \in signed : s.used = s.own
=============================================================================
