---------------------------- MODULE AtomicLedger ----------------------------
(***************************************************************************)
(* What execution of compute transactions promises: each transaction takes *)
(* effect at one instant, entirely, exactly if it is executable in the     *)
(* ledger of that instant; otherwise it is refused and the ledger stays.   *)
(* BatchRunner is shown to implement it.                                   *)
(***************************************************************************)
EXTENDS ComputeTx

CONSTANTS Runs, TxOf, Genesis

VARIABLES outputs, spent,   \* the ledger: id -> body, and the consumed ids
          done              \* the outcome of each transaction

ledgerVars == <<outputs, spent, done>>

Distinct(list) == \A i, j \in DOMAIN list : list[i] = list[j] => i = j
ProposedIds(tx) == [i \in DOMAIN tx.proposals |-> tx.proposals[i].id]

Executable(tx) ==
  /\ Admissible(tx)
  /\ Distinct(tx.inputs) /\ Distinct(ProposedIds(tx))
  /\ \A i \in DOMAIN tx.inputs :
       /\ tx.inputs[i] \in DOMAIN outputs \ spent
       /\ InputOk(outputs[tx.inputs[i]], tx)
  /\ \A i \in DOMAIN tx.reads :
       tx.reads[i].id \in DOMAIN outputs /\ ReadOk(outputs[tx.reads[i].id], tx.reads[i], tx)
  /\ \A i \in DOMAIN tx.proposals : tx.proposals[i].id \notin DOMAIN outputs
  /\ ValidResolved(tx, [i \in DOMAIN tx.inputs |-> outputs[tx.inputs[i]]])

Init ==
  /\ outputs = Genesis
  /\ spent = {}
  /\ done = [r \in Runs |-> "open"]

Commit(r) ==
  LET tx == TxOf[r]
      ids == {tx.proposals[i].id : i \in DOMAIN tx.proposals}
      bodyOf(o) == tx.proposals[CHOOSE i \in DOMAIN tx.proposals : tx.proposals[i].id = o].body
  IN  /\ done[r] = "open"
      /\ Executable(tx)
      /\ outputs' = [o \in DOMAIN outputs \cup ids |-> IF o \in ids THEN bodyOf(o) ELSE outputs[o]]
      /\ spent' = spent \cup {tx.inputs[i] : i \in DOMAIN tx.inputs}
      /\ done' = [done EXCEPT ![r] = "accepted"]

Refuse(r) ==
  /\ done[r] = "open"
  /\ ~Executable(TxOf[r])
  /\ done' = [done EXCEPT ![r] = "rejected"]
  /\ UNCHANGED <<outputs, spent>>

Next == \E r \in Runs : Commit(r) \/ Refuse(r)

\* Every transaction handed over gets an outcome.
Fairness == \A r \in Runs : WF_ledgerVars(Commit(r) \/ Refuse(r))

LedgerSpec == Init /\ [][Next]_ledgerVars /\ Fairness
=============================================================================
