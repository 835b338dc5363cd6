----------------------------- MODULE Discovery -----------------------------
(***************************************************************************)
(* The table of known nodes: a map by peer id, from which nodes to dial    *)
(* are drawn, and buckets by distance, which bound it.  Records come from  *)
(* the configured bootnodes when discovery starts, and from the events of  *)
(* the discovery protocol in its task; stop aborts the task, which may     *)
(* still finish the record it is at.                                       *)
(*                                                                         *)
(* Nobody sends the node a record with its own id, for which the bucket    *)
(* index underflows.                                                       *)
(***************************************************************************)
EXTENDS Integers, SequencesExt, FiniteSetsExt

CONSTANTS
  IdBits,         \* 256 in the code
  BucketSize,     \* 20 in the code
  LocalId,
  PeerIds,        \* the numbers peer ids stand for, of IdBits bits
  Hosts,
  Bootnodes,      \* sequence of records
  MaxTableSteps   \* bound of the instance

VARIABLES
  table,          \* the buckets: sequences of records
  knownNodes,     \* the map: peer id -> record
  discovering,    \* the running flag
  discoveryTask,  \* "none", "run", or "aborted": at its last record
  dialed,         \* the record drawn last
  removedNodes,   \* history: ids removed and not seen since
  tableSteps

discoveryVars == <<table, knownNodes, discovering, discoveryTask, dialed, removedNodes, tableSteps>>

NodeRecord(id, host) == [id |-> id, host |-> host]
NoRecord == [id |-> LocalId, host |-> "none"]

DiscoveryInit ==
  /\ table = [b \in 0..(IdBits - 1) |-> << >>]
  /\ knownNodes = << >>
  /\ discovering = FALSE /\ discoveryTask = "none"
  /\ dialed = NoRecord
  /\ removedNodes = {}
  /\ tableSteps = 0

(* calculate_distance, and the bucket its leading zeros give *)
BitOf(n, k) == (n \div 2^k) % 2
Distance(a, b) == SumSet({2^k : k \in {j \in 0..(IdBits - 1) : BitOf(a, j) # BitOf(b, j)}})
LeadingZerosOf(n) == IdBits - Cardinality({k \in 0..(IdBits - 1) : 2^k <= n})
BucketIndex(id) == IdBits - 1 - LeadingZerosOf(Distance(LocalId, id))

\* Only the node's own id is at no distance from it.
ASSUME DiscoveryAssumption ==
  /\ IdBits \in Nat \ {0} /\ BucketSize \in Nat
  /\ Bootnodes \in Seq([id : PeerIds, host : Hosts])
  /\ \A id \in PeerIds : Distance(LocalId, id) \in Nat \ {0}

(***************************************************************************)
(* insert_node_record, under the lock of the buckets.                      *)
(***************************************************************************)
State == [buckets |-> table, nodes |-> knownNodes]
IsIn(bucket, id) == \E i \in DOMAIN bucket : bucket[i].id = id
Mapped(nodes, r) == [x \in DOMAIN nodes \cup {r.id} |-> IF x = r.id THEN r ELSE nodes[x]]

InsertedAnyway(st, r) ==   \* a full bucket does not keep the record out of the map
  LET b == BucketIndex(r.id)
  IN  [buckets |-> IF IsIn(st.buckets[b], r.id) \/ Len(st.buckets[b]) >= BucketSize THEN st.buckets
                   ELSE [st.buckets EXCEPT ![b] = Append(@, r)],
       nodes |-> Mapped(st.nodes, r)]

InsertNodeRecord(st, r) ==
  LET b == BucketIndex(r.id)
  IN  IF IsIn(st.buckets[b], r.id) THEN [st EXCEPT !.nodes = Mapped(@, r)]
      ELSE IF Len(st.buckets[b]) >= BucketSize THEN st
      ELSE [buckets |-> [st.buckets EXCEPT ![b] = Append(@, r)], nodes |-> Mapped(st.nodes, r)]

TableStep == tableSteps < MaxTableSteps /\ tableSteps' = tableSteps + 1
Put(rs) ==
  LET st == FoldLeft(InsertNodeRecord, State, rs)
  IN  table' = st.buckets /\ knownNodes' = st.nodes /\ removedNodes' = removedNodes \ DOMAIN st.nodes

\* A start that fails after the flag is set leaves it set: later starts answer Ok and do nothing.
StartDiscovery ==
  /\ TableStep
  /\ IF discovering THEN UNCHANGED <<table, knownNodes, discovering, discoveryTask, removedNodes>>
     ELSE /\ discovering' = TRUE
          /\ Put(Bootnodes)
          /\ discoveryTask' \in {"run", discoveryTask}
  /\ UNCHANGED dialed

Discovered ==
  /\ discoveryTask \in {"run", "aborted"} /\ TableStep
  /\ \E id \in PeerIds, host \in Hosts : Put(<<NodeRecord(id, host)>>)
  /\ discoveryTask' = IF discoveryTask = "run" /\ discovering THEN "run" ELSE "none"
  /\ UNCHANGED <<discovering, dialed>>

StopDiscovery ==
  /\ TableStep
  /\ discovering' = FALSE
  /\ discoveryTask' \in (IF discoveryTask = "run" THEN {"aborted", "none"} ELSE {discoveryTask})
  /\ UNCHANGED <<table, knownNodes, dialed, removedNodes>>

\* remove_node leaves the bucket as it is.
RemoveNode(id) ==
  /\ TableStep
  /\ knownNodes' = [x \in DOMAIN knownNodes \ {id} |-> knownNodes[x]]
  /\ removedNodes' = removedNodes \cup ({id} \cap DOMAIN knownNodes)
  /\ UNCHANGED <<table, discovering, discoveryTask, dialed>>

\* get_random_nodes, for the dialer
DrawNode ==
  /\ \E id \in DOMAIN knownNodes : dialed' = knownNodes[id]
  /\ UNCHANGED <<table, knownNodes, discovering, discoveryTask, removedNodes, tableSteps>>

DiscoveryNext ==
  \/ StartDiscovery \/ Discovered \/ StopDiscovery \/ DrawNode
  \/ \E id \in PeerIds : RemoveNode(id)

DiscoverySpec == DiscoveryInit /\ [][DiscoveryNext]_discoveryVars
-----------------------------------------------------------------------------
(* The map that nodes to dial are drawn from stays as bounded as the        *)
(* buckets: a node is known, unless it was removed, just when the bucket of *)
(* its distance holds it, once, and no bucket holds more than its size.     *)
KnownIsBucketed ==
  /\ \A b \in DOMAIN table : /\ Len(table[b]) <= BucketSize
                             /\ \A i, j \in DOMAIN table[b] : table[b][i].id = table[b][j].id => i = j
                             /\ \A i \in DOMAIN table[b] : BucketIndex(table[b][i].id) = b
  /\ DOMAIN knownNodes \cup removedNodes = UNION {{table[b][i].id : i \in DOMAIN table[b]} : b \in DOMAIN table}
=============================================================================
