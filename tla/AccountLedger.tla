--------------------------- MODULE AccountLedger ---------------------------
(***************************************************************************)
(* InMemoryAccountManager and StateDb, called by several threads.  Both    *)
(* apply a batch of changes step by step, each step under the lock of one  *)
(* map or entry: the manager stops at the first that fails and keeps what  *)
(* was done before, StateDb passes over accounts it does not hold.         *)
(***************************************************************************)
EXTENDS U256, Functions

CONSTANTS
  Addresses,       \* addresses of user accounts; contracts and the like share one
  Callers,         \* threads
  Genesis,         \* balances the manager starts with
  Batches,         \* sequences of changes
  MaxLedgerCalls,  \* bound of the instance
  Nothing          \* a part a change leaves out

\* What is added to a balance is a number, also one below zero.
ASSUME LedgerNumbers ==
  /\ Genesis \in [DOMAIN Genesis -> Word]
  /\ \A batch \in Batches : batch \in Seq(Range(batch)) /\ \A c \in Range(batch) : c.amount \in Int \cup {Nothing}

VARIABLES
  accounts, storage,      \* the manager's maps
  utxos,                  \* its outputs, by operation hash
  cached, cachedStorage,  \* StateDb's maps
  dbRoot,                 \* StateDb's root: the listing of balances it is a hash of
  pending,                \* of each caller: the steps left, and the root it has computed
  sums,                   \* history: what was applied to each balance since it was created
  ledgerCalls

managed == <<accounts, storage, utxos, sums>>
state == <<cached, cachedStorage, dbRoot>>
ledgerVars == <<managed, state, pending, ledgerCalls>>

Fresh == [balance |-> Zero, nonce |-> 0]
Bound(f, x, y) == [z \in DOMAIN f \cup {x} |-> IF z = x THEN y ELSE f[z]]
\* The balances of a map, in any order: it is iterated in the order of its hashes.
Listings(f) == {[i \in DOMAIN order |-> <<order[i], f[order[i]].balance>>] : order \in SetToSeqs(DOMAIN f)}

LedgerInit ==
  /\ accounts = [a \in DOMAIN Genesis |-> [Fresh EXCEPT !.balance = Genesis[a]]]
  /\ storage = << >> /\ utxos = << >>
  /\ cached = << >> /\ cachedStorage = << >>
  /\ dbRoot = << >>
  /\ pending = [t \in Callers |-> [steps |-> << >>, root |-> << >>]]
  /\ sums = [a \in DOMAIN Genesis |-> IntOf(Genesis[a])]
  /\ ledgerCalls = 0

(***************************************************************************)
(* Account::update_balance: what counts as negative is subtracted, and     *)
(* only a sum that overflows is refused.                                   *)
(***************************************************************************)
UpdateBalance(balance, amount) ==
  IF IsPositive(amount) THEN OverflowingAdd(balance, amount)
  ELSE [OverflowingSub(balance, amount) EXCEPT !.overflow = FALSE]

(* StateDb::apply_changes takes every amount for an unsigned one. *)
Credit(balance, amount) == SaturatingAdd(balance, amount)

(* The steps of a batch, in the order of the code. *)
Part(kind, address, what) == IF what = Nothing THEN << >> ELSE <<[kind |-> kind, address |-> address, what |-> what]>>
ChangeSteps(c) == Part("balance", c.address, c.amount) \o Part("nonce", c.address, c.nonce) \o Part("storage", c.address, c.slot)
DbSteps(c) == Part("credit", c.address, c.amount) \o Part("cache", c.address, c.slot)

CallLedger(t, steps) ==
  /\ pending[t].steps = << >> /\ ledgerCalls < MaxLedgerCalls
  /\ ledgerCalls' = ledgerCalls + 1
  /\ pending' = [pending EXCEPT ![t].steps = steps]
NextPart(t) == pending' = [pending EXCEPT ![t].steps = Tail(@)]
GiveUp(t) == pending' = [pending EXCEPT ![t].steps = << >>]
Doing(t, kind) == pending[t].steps # << >> /\ Head(pending[t].steps).kind = kind

ApplyChanges(t) ==
  /\ \E batch \in Batches : CallLedger(t, FlattenSeq([i \in DOMAIN batch |-> ChangeSteps(batch[i])]))
  /\ UNCHANGED <<managed, state>>

ApplyToDb(t) ==
  /\ \E batch \in Batches :
       CallLedger(t, FlattenSeq([i \in DOMAIN batch |-> DbSteps(batch[i])])
                 \o Part("compute", batch[1].address, "root") \o Part("write", batch[1].address, "root"))
  /\ UNCHANGED <<managed, state>>

ChangeBalance(t) ==
  LET s == Head(pending[t].steps)
      amount == FromI64(s.what)
      new == UpdateBalance(accounts[s.address].balance, amount)
  IN  /\ Doing(t, "balance")
      /\ IF s.address \notin DOMAIN accounts \/ new.overflow THEN GiveUp(t) /\ UNCHANGED <<accounts, sums>>
         ELSE /\ NextPart(t)
              /\ accounts' = [accounts EXCEPT ![s.address].balance = new.word]
              /\ sums' = [sums EXCEPT ![s.address] = @ + s.what]
      /\ UNCHANGED <<storage, utxos, state, ledgerCalls>>

ChangeNonce(t) ==
  LET s == Head(pending[t].steps)
  IN  /\ Doing(t, "nonce")
      /\ IF s.address \notin DOMAIN accounts THEN GiveUp(t) /\ UNCHANGED accounts
         ELSE NextPart(t) /\ accounts' = [accounts EXCEPT ![s.address].nonce = s.what]
      /\ UNCHANGED <<storage, utxos, sums, state, ledgerCalls>>

ChangeStorage(t) ==
  LET s == Head(pending[t].steps)
  IN  /\ Doing(t, "storage")
      /\ NextPart(t)
      /\ storage' = Bound(storage, <<s.address, s.what[1]>>, s.what[2])
      /\ UNCHANGED <<accounts, utxos, sums, state, ledgerCalls>>

\* create_account replaces an account of the same key.
CreateAccount(a) ==
  /\ ledgerCalls < MaxLedgerCalls
  /\ ledgerCalls' = ledgerCalls + 1
  /\ accounts' = Bound(accounts, a, Fresh)
  /\ sums' = Bound(sums, a, 0)
  /\ UNCHANGED <<storage, utxos, state, pending>>

IncrementNonce(a) ==
  /\ ledgerCalls < MaxLedgerCalls /\ a \in DOMAIN accounts
  /\ ledgerCalls' = ledgerCalls + 1
  /\ accounts' = [accounts EXCEPT ![a].nonce = (@ + 1) % LowModulus]
  /\ UNCHANGED <<storage, utxos, sums, state, pending>>

\* Every output gets the same operation hash: a new one takes the place of the last.
CreateUtxo == utxos' = Bound(utxos, "hash", [spent |-> FALSE])
SpendUtxo == utxos' = [h \in DOMAIN utxos |-> [spent |-> TRUE]]
UtxoCall ==
  /\ ledgerCalls < MaxLedgerCalls
  /\ ledgerCalls' = ledgerCalls + 1
  /\ CreateUtxo \/ SpendUtxo
  /\ UNCHANGED <<accounts, storage, sums, state, pending>>

(***************************************************************************)
(* StateDb.                                                                *)
(***************************************************************************)
InsertAccount(a, w) ==
  /\ ledgerCalls < MaxLedgerCalls
  /\ ledgerCalls' = ledgerCalls + 1
  /\ cached' = Bound(cached, a, [Fresh EXCEPT !.balance = w])
  /\ UNCHANGED <<managed, cachedStorage, dbRoot, pending>>

CreditAccount(t) ==
  LET s == Head(pending[t].steps)
  IN  /\ Doing(t, "credit")
      /\ NextPart(t)
      /\ cached' = IF s.address \in DOMAIN cached
                   THEN [cached EXCEPT ![s.address].balance = Credit(@, FromI64(s.what))] ELSE cached
      /\ UNCHANGED <<managed, cachedStorage, dbRoot, ledgerCalls>>

SetStorage(t) ==
  LET s == Head(pending[t].steps)
  IN  /\ Doing(t, "cache")
      /\ NextPart(t)
      /\ cachedStorage' = Bound(cachedStorage, <<s.address, s.what[1]>>, s.what[2])
      /\ UNCHANGED <<managed, cached, dbRoot, ledgerCalls>>

ComputeStateRoot(t) ==
  /\ Doing(t, "compute")
  /\ \E listing \in Listings(cached) :
       pending' = [pending EXCEPT ![t] = [steps |-> Tail(@.steps), root |-> listing]]
  /\ UNCHANGED <<managed, state, ledgerCalls>>

WriteStateRoot(t) ==
  /\ Doing(t, "write")
  /\ dbRoot' = pending[t].root
  /\ pending' = [pending EXCEPT ![t] = [steps |-> << >>, root |-> << >>]]
  /\ UNCHANGED <<managed, cached, cachedStorage, ledgerCalls>>

LedgerNext ==
  \/ \E t \in Callers :
       \/ ApplyChanges(t) \/ ApplyToDb(t)
       \/ ChangeBalance(t) \/ ChangeNonce(t) \/ ChangeStorage(t)
       \/ CreditAccount(t) \/ SetStorage(t) \/ ComputeStateRoot(t) \/ WriteStateRoot(t)
  \/ UtxoCall
  \/ \E a \in Addresses : CreateAccount(a) \/ IncrementNonce(a) \/ InsertAccount(a, Zero) \/ InsertAccount(a, Top)

AccountSpec == LedgerInit /\ [][LedgerNext]_ledgerVars


(* UtxoOperation: sums wrap. *)
SumOf(amounts) == FoldLeft(WrappingAdd, Zero, amounts)
Fee(inputs, outputs) == WrappingSub(SumOf(inputs), SumOf(outputs))
Validate(inputs, outputs) == inputs # << >> /\ outputs # << >> /\ ~Less(SumOf(inputs), SumOf(outputs))
-----------------------------------------------------------------------------
FeesAreExact(left, right) ==
  LET a == IntOf(left)  b == IntOf(right)
  IN  a + b < Modulus /\ 2 * b < Modulus /\ Validate(<<left, right>>, <<right, right>>)
        => IntOf(Fee(<<left, right>>, <<right, right>>)) = a - b

WordsAreExact ==
  \A left, right \in Word : SumsAreExact(left, right) /\ QuotientsAreExact(left, right) /\ FeesAreExact(left, right)

LowWordIsSum == \A a \in DOMAIN accounts : IntOf(accounts[a].balance) % LowModulus = sums[a] % LowModulus

(* Changes of either sign that several threads apply to a balance add up:   *)
(* the half of the word that an i64 fills is the sum of what was applied    *)
(* since the account was made, though a loss is added as the large number   *)
(* it looks like (From<i64> for I256, Account::update_balance).  And the    *)
(* digit-wise arithmetic of U256 is that of the integers wherever the       *)
(* result has a word, and overflow is told: for sums, differences, order,   *)
(* leading zeros, for quotients by divisors of at most half a digit, and    *)
(* for the fee of a UTXO operation that validates and whose sums have words.*)
BooksAreExact == LowWordIsSum /\ WordsAreExact
=============================================================================
