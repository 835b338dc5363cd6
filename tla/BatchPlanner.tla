---------------------------- MODULE BatchPlanner ----------------------------
(***************************************************************************)
(* DefaultComputeConflictPolicy and one step of the greedy planner         *)
(* (zerocore/src/compute/batch.rs).  A store is the function from output   *)
(* ids to bodies; groups are sequences of transactions' names, whose       *)
(* access sets the caller supplies.                                        *)
(***************************************************************************)
EXTENDS ComputeTx

\* Proposals that name a predecessor touch it and its object.
Predecessors(tx) ==
  {tx.proposals[i].body.pred : i \in DOMAIN tx.proposals} \ {NoOutput}

InputIds(tx) == {tx.inputs[i] : i \in DOMAIN tx.inputs}
ReadIds(tx) == {tx.reads[i].id : i \in DOMAIN tx.reads}
ProposalIds(tx) == {tx.proposals[i].id : i \in DOMAIN tx.proposals}

\* access_set() succeeds: every output it has to look up is in the store.
Resolvable(tx, store) ==
  InputIds(tx) \cup ReadIds(tx) \cup Predecessors(tx) \subseteq DOMAIN store

AccessSet(tx, store) ==
  [domain       |-> tx.domain,
   readOutputs  |-> ReadIds(tx),
   readObjects  |-> {store[o].object : o \in ReadIds(tx)},
   writeOutputs |-> InputIds(tx) \cup ProposalIds(tx) \cup Predecessors(tx),
   writeObjects |-> {store[o].object : o \in InputIds(tx) \cup Predecessors(tx)}
                      \cup {tx.proposals[i].body.object : i \in DOMAIN tx.proposals}]

\* A bug the conflict policy could have: two writers do not conflict.
ConflictsOfReads(a, b) ==
  a.writeObjects \cap b.readObjects # {} \/ a.readObjects \cap b.writeObjects # {}

Conflicts(a, b) ==
  \/ a.writeOutputs \cap b.writeOutputs # {}
  \/ a.writeOutputs \cap b.readOutputs # {}
  \/ a.readOutputs \cap b.writeOutputs # {}
  \/ a.writeObjects \cap b.writeObjects # {}
  \/ a.writeObjects \cap b.readObjects # {}
  \/ a.readObjects \cap b.writeObjects # {}

\* A bug the planner could have: it looks at the end of a group only.
TakesByLast(group, r, access) ==
  /\ access[group[1]].domain = access[r].domain
  /\ ~Conflicts(access[group[Len(group)]], access[r])

\* A group takes a transaction of its domain that conflicts with none of its own.
Takes(group, r, access) ==
  \A i \in DOMAIN group : /\ access[group[i]].domain = access[r].domain
                          /\ ~Conflicts(access[group[i]], access[r])

\* The first group that takes r gets it at its end; r opens a group if none does.
Place(groups, r, access) ==
  LET fits == {g \in DOMAIN groups : Takes(groups[g], r, access)}
  IN  IF fits = {} THEN Append(groups, <<r>>)
      ELSE LET g == CHOOSE g \in fits : \A h \in fits : g <= h
           IN  [groups EXCEPT ![g] = Append(@, r)]
=============================================================================
