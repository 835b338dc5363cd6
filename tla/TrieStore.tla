----------------------------- MODULE TrieStore -----------------------------
(***************************************************************************)
(* The Merkle Patricia trie: nodes found by their hash, kept in a cache    *)
(* once flushed and among the dirty ones before; a root that inserts and   *)
(* removals read, compute a successor of, and replace.                     *)
(*                                                                         *)
(* Keys are hashed before use, so all have one length and none ends at a   *)
(* branch.  A node stands for its hash.  Nodes in the database cannot be   *)
(* decoded (decode_node refuses every real one): once the cache is cleared *)
(* what it held is gone.                                                   *)
(*                                                                         *)
(* A computation and the nodes it saves are one step.  What others see of  *)
(* it before its root is published is nodes they do not look for.          *)
(***************************************************************************)
EXTENDS Integers, SequencesExt, FiniteSetsExt

CONSTANTS
  KeyLength,      \* nibbles of a hashed key
  TrieKeys,
  Nibbles,
  TrieValues,
  Writers,        \* threads
  MaxTrieCalls    \* bound of the instance

ASSUME TrieAssumption == KeyLength \in Nat /\ TrieKeys \subseteq [1..KeyLength -> Nibbles]

VARIABLES
  root,           \* a node, or NoNode
  cacheNodes, dirty,
  work,           \* of each thread: what it does, with what
  held,           \* history: the map a reader of the root should see
  spoiled,        \* history: a key was removed that was not there
  lost,           \* history: nodes were lost, which happens once in the instance
  trieCalls

trieVars == <<root, cacheNodes, dirty, work, held, spoiled, lost, trieCalls>>

NoNode == [kind |-> "none"]
Leaf(suffix, value) == [kind |-> "leaf", suffix |-> suffix, value |-> value]
Extension(prefix, child) == [kind |-> "extension", prefix |-> prefix, child |-> child]
Branch(children) == [kind |-> "branch", children |-> children]
NoChildren == [n \in Nibbles |-> NoNode]

From(s, i) == SubSeq(s, i, Len(s))
Common(s, t) == Max({n \in 0..Min({Len(s), Len(t)}) : SubSeq(s, 1, n) = SubSeq(t, 1, n)})
Fits(prefix, key) == Common(key, prefix) = Len(prefix)

(***************************************************************************)
(* get_recursive, insert_recursive and remove_recursive descend alike: a   *)
(* call is for a node and what is left of the key.                         *)
(***************************************************************************)
Call(node, key) == [node |-> node, key |-> key]
GoesOn(c) == c.node.kind = "branch" \/ (c.node.kind = "extension" /\ Fits(c.node.prefix, c.key))
Deeper(c) ==
  IF c.node.kind = "branch" THEN Call(c.node.children[Head(c.key)], Tail(c.key))
  ELSE Call(c.node.child, From(c.key, Len(c.node.prefix) + 1))
Onward(c) == IF GoesOn(c) THEN Deeper(c) ELSE c

\* The calls on the way to a key, the last repeated.
Calls(node, key) == LET call[i \in 0..Len(key)] == IF i = 0 THEN Call(node, key) ELSE Onward(call[i - 1]) IN call
Path(node, key) == {Calls(node, key)[i].node : i \in 0..Len(key)} \ {NoNode}

Children(node) ==
  CASE node.kind = "extension" -> {node.child}
    [] node.kind = "branch" -> {node.children[n] : n \in Nibbles}
    [] OTHER -> {}
Reachable(node) ==
  LET upTo[i \in 0..KeyLength] == IF i = 0 THEN {node} ELSE upTo[i - 1] \cup UNION {Children(x) : x \in upTo[i - 1]}
  IN  upTo[KeyLength] \ {NoNode}

(***************************************************************************)
(* insert_recursive.                                                       *)
(***************************************************************************)
Above(prefix, node) == IF prefix = << >> THEN node ELSE Extension(prefix, node)

SplitLeaf(leaf, key, value) ==
  LET c == Common(key, leaf.suffix)
  IN  Above(SubSeq(key, 1, c),
            Branch([NoChildren EXCEPT ![leaf.suffix[c + 1]] = Leaf(From(leaf.suffix, c + 2), leaf.value),
                                      ![key[c + 1]] = Leaf(From(key, c + 2), value)]))

SplitDropsRest(ext, key, value) ==   \* forgets what is left of the prefix
  LET c == Common(key, ext.prefix)
  IN  Above(SubSeq(key, 1, c),
            Branch([NoChildren EXCEPT ![ext.prefix[c + 1]] = ext.child, ![key[c + 1]] = Leaf(From(key, c + 2), value)]))

SplitExtension(ext, key, value) ==
  LET c == Common(key, ext.prefix)
  IN  Above(SubSeq(key, 1, c),
            Branch([NoChildren EXCEPT ![ext.prefix[c + 1]] = Above(From(ext.prefix, c + 2), ext.child),
                                      ![key[c + 1]] = Leaf(From(key, c + 2), value)]))

Placed(c, value) ==
  CASE c.node.kind = "none" -> Leaf(c.key, value)
    [] c.node.kind = "leaf" -> IF c.node.suffix = c.key THEN Leaf(c.key, value) ELSE SplitLeaf(c.node, c.key, value)
    [] OTHER -> SplitExtension(c.node, c.key, value)
WithChild(c, child) ==
  IF c.node.kind = "branch" THEN Branch([c.node.children EXCEPT ![Head(c.key)] = child])
  ELSE Extension(c.node.prefix, child)

(***************************************************************************)
(* remove_recursive: a leaf or a branch that does not hold the key is      *)
(* answered for as if the whole subtree had gone.                          *)
(***************************************************************************)
Merged(prefix, child) ==
  CASE child.kind = "none" -> NoNode
    [] child.kind = "leaf" -> Leaf(prefix \o child.suffix, child.value)
    [] child.kind = "extension" -> Extension(prefix \o child.prefix, child.child)
    [] child.kind = "branch" -> Extension(prefix, child)

Taken(c) == IF c.node.kind = "extension" THEN c.node ELSE NoNode
WithoutChild(c, child) ==
  IF c.node.kind = "extension" THEN Merged(c.node.prefix, child)
  ELSE LET left == [c.node.children EXCEPT ![Head(c.key)] = child]
       IN  IF c.node.children[Head(c.key)] = NoNode \/ left = NoChildren THEN NoNode ELSE Branch(left)

(***************************************************************************)
(* What a call returns that goes no further, and what one does with the    *)
(* answer from below.                                                      *)
(***************************************************************************)
Reading == [op |-> "get"]
Insertion(value) == [op |-> "insert", value |-> value]
Removal == [op |-> "remove"]

AtEnd(task, c) ==
  CASE task.op = "get" -> IF c.node.kind = "leaf" /\ c.node.suffix = c.key THEN {c.node.value} ELSE {}
    [] task.op = "insert" -> Placed(c, task.value)
    [] task.op = "remove" -> Taken(c)
Returning(task, c, answer) ==
  CASE task.op = "get" -> answer
    [] task.op = "insert" -> WithChild(c, answer)
    [] task.op = "remove" -> WithoutChild(c, answer)
Result(task, node, key) ==
  LET call == Calls(node, key)
      answer[i \in 0..Len(key)] == IF GoesOn(call[i]) THEN Returning(task, call[i], answer[i + 1]) ELSE AtEnd(task, call[i])
  IN  answer[0]

Lookup(node, key) == Result(Reading, node, key)
Inserted(node, key, value) == Result(Insertion(value), node, key)
Removed(node, key) == Result(Removal, node, key)

(***************************************************************************)
(* Threads.                                                                *)
(***************************************************************************)
Idle == [op |-> "idle", new |-> NoNode, held |-> << >>, nodes |-> {}]
Readable(node, key) == Path(node, key) \subseteq cacheNodes \cup dirty

TrieInit ==
  /\ root = NoNode
  /\ cacheNodes = {} /\ dirty = {}
  /\ work = [t \in Writers |-> Idle]
  /\ held = << >> /\ spoiled = FALSE /\ lost = FALSE
  /\ trieCalls = 0

BeginCall(t) == work[t].op = "idle" /\ trieCalls < MaxTrieCalls /\ trieCalls' = trieCalls + 1
Now(t, op, new, map, nodes) == work' = [work EXCEPT ![t] = [op |-> op, new |-> new, held |-> map, nodes |-> nodes]]
Saved(new, key) == (Reachable(new) \ Reachable(root)) \cup Path(new, key)

InsertKey(t) ==
  /\ BeginCall(t)
  /\ \E key \in TrieKeys, value \in TrieValues :
       LET new == Inserted(root, key, value)
       IN  IF ~Readable(root, key) THEN UNCHANGED <<work, dirty>>
           ELSE /\ dirty' = dirty \cup Saved(new, key)
                /\ Now(t, "publish", new, [k \in DOMAIN held \cup {key} |-> IF k = key THEN value ELSE held[k]], {})
  /\ UNCHANGED <<root, cacheNodes, held, spoiled, lost>>

RemoveKey(t) ==
  /\ BeginCall(t) /\ root # NoNode
  /\ \E key \in TrieKeys :
       LET new == Removed(root, key)
       IN  IF ~Readable(root, key) THEN UNCHANGED <<work, dirty, spoiled>>
           ELSE /\ dirty' = dirty \cup Saved(new, key)
                /\ Now(t, "publish", new, [k \in DOMAIN held \ {key} |-> held[k]], {})
                /\ spoiled' = (spoiled \/ key \notin DOMAIN held)
  /\ UNCHANGED <<root, cacheNodes, held, lost>>

\* The root is replaced, whatever it is by now: of two at once, the later stays.
Publish(t) ==
  /\ work[t].op = "publish"
  /\ root' = work[t].new /\ held' = work[t].held
  /\ IF work[t].new = NoNode THEN Now(t, "idle", NoNode, << >>, {}) ELSE Now(t, "flush", NoNode, << >>, {})
  /\ UNCHANGED <<cacheNodes, dirty, spoiled, lost, trieCalls>>

\* flush takes the dirty nodes of all threads, then puts them in the database
\* and the cache, one by one and in any order.
Flushing(t, nodes) == Now(t, IF nodes = {} THEN "idle" ELSE "write", NoNode, << >>, nodes)

TakeDirty(t) ==
  /\ work[t].op = "flush"
  /\ Flushing(t, dirty)
  /\ dirty' = {}
  /\ UNCHANGED <<root, cacheNodes, held, spoiled, lost, trieCalls>>

WriteNode(t) ==
  /\ work[t].op = "write"
  /\ \E x \in work[t].nodes : cacheNodes' = cacheNodes \cup {x} /\ Flushing(t, work[t].nodes \ {x})
  /\ UNCHANGED <<root, dirty, held, spoiled, lost, trieCalls>>

\* put_node fails: the nodes that were taken and not yet written are dropped, the root stays.
WriteFails(t) ==
  /\ work[t].op = "write" /\ ~lost
  /\ lost' = TRUE
  /\ Flushing(t, {})
  /\ UNCHANGED <<root, cacheNodes, dirty, held, spoiled, trieCalls>>

ClearCache ==
  /\ ~lost
  /\ cacheNodes' = {} /\ lost' = TRUE
  /\ UNCHANGED <<root, dirty, work, held, spoiled, trieCalls>>

TrieNext ==
  \/ \E t \in Writers : InsertKey(t) \/ RemoveKey(t) \/ Publish(t) \/ TakeDirty(t) \/ WriteNode(t) \/ WriteFails(t)
  \/ ClearCache

TrieSpec == TrieInit /\ [][TrieNext]_trieVars
-----------------------------------------------------------------------------
(* What is found under the root is what was inserted and not removed since, *)
(* however leaves and extensions are split and merged, until a key is       *)
(* removed that is not there.  Two threads flush each other's nodes, also   *)
(* before their root is published; still, with no flush under way, no       *)
(* write failed and no cache cleared, every node under the root can be read.*)
ReachableIsReadable ==
  ~lost /\ (\A t \in Writers : work[t].op # "write") => Reachable(root) \subseteq cacheNodes \cup dirty
TrieHolds ==
  /\ ~spoiled => \A k \in TrieKeys : Lookup(root, k) = IF k \in DOMAIN held THEN {held[k]} ELSE {}
  /\ ReachableIsReadable
=============================================================================
