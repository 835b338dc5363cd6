-------------------------- MODULE HeaderSyncProofs --------------------------
(***************************************************************************)
(* OnPeersChain and AccountsHaveBlock for any peers, chains and limits, as *)
(* long as the cache has room.                                             *)
(*                                                                         *)
(* A round checks its headers long before it stores them: they are linked, *)
(* and the first follows the cache.  The invariant says that this is still *)
(* so when they are stored, that at every step of the store the headers    *)
(* not yet stored follow those already in the cache, and that the cache is *)
(* one chain from the root, also after a tail of it was dropped.  So the   *)
(* store never refuses a header ("refused" is not among the Steps), the    *)
(* accounts installed before have their block, and a cache that ends in a  *)
(* block of a peer's chain is that chain down to the root.                 *)
(***************************************************************************)
EXTENDS HeaderSync, FoldFacts

Storing == {"check", "begin", "rest", "newline", "insert"}
Vouching == {"split", "stored"} \cup Storing
Fetched == {"bodies", "snapshot"} \cup Vouching
Steps == {"tick", "refresh", "headers"} \cup Fetched

Rounds == [peer : Peers \cup {None}, local : Nat, target : Nat, lookback : Nat, start : Nat, headers : Seq(Blocks)]
HeaderRequests == [to : Peers, kind : {"headers"}, start : Nat \ {0}, what : Nat]
BodyRequests == [to : Peers, kind : {"bodies"}, start : Nat, what : Seq(Blocks)]
SnapshotRequests == [to : Peers, kind : {"snapshot"}, start : Nat, what : {1}]
Requests == HeaderRequests \cup BodyRequests \cup SnapshotRequests
HeaderMessages == [from : Peers, kind : {"headers"}, data : Seq(Blocks)]
BodyMessages == [from : Peers, kind : {"bodies"}, data : [of : Seq(Blocks), transactions : Nat]]
SnapshotMessages ==
  [from : Peers, kind : {"snapshot"}, data : [number : Nat, proves : Blocks, accounts : Blocks \cup {"forged"}]]
Messages == HeaderMessages \cup BodyMessages \cup SnapshotMessages

TypeInv ==
  /\ at \in [Threads -> Steps] /\ todo \in [Threads -> Seq(Blocks)]
  /\ peers \subseteq Peers /\ heights \in [peers -> Nat] /\ tip \in [Honest -> Nat]
  /\ localHeight \in Nat /\ synced \in Nat
  /\ round \in Rounds /\ asked \subseteq Requests /\ inbound \in Seq(Messages)
  /\ at[Sync] # "tick" => round.peer \in Peers

\* The cache is one chain from the root.
CacheInv == blocks \in Seq(Blocks) /\ FromRoot(blocks) /\ Range(blocks) \subseteq ever /\ ever \subseteq Blocks

\* The headers are blocks of an honest peer's chain.
OnChain(p, headers) ==
  \A i \in DOMAIN headers :
    Number[headers[i]] \in DOMAIN ChainOf[p] /\ headers[i] = ChainOf[p][Number[headers[i]]]

TipInv == \A p \in Honest : tip[p] <= Len(ChainOf[p])

\* Headers an honest peer has sent, in answer to whichever request.
Truthful(m) == m.kind = "headers" /\ m.from \in Honest => OnChain(m.from, m.data)
WireInv == \A i \in DOMAIN inbound : Truthful(inbound[i])

\* What the headers were checked for stays true until they are stored.
RoundInv ==
  /\ at[Sync] \in {"headers"} \cup Fetched => round.start > 0
  /\ at[Sync] \in Fetched =>
       /\ round.headers # << >> /\ Number[round.headers[1]] = round.start
       /\ Linked(round.headers) /\ FirstFits(round.start, round.headers)
       /\ round.peer \in Honest => OnChain(round.peer, round.headers)

\* The blocks to store are the last of the headers; those before them are in the cache.
LeftOver(t) ==
  LET left == Len(todo[t])  all == Len(round.headers)
  IN  /\ left \in 1..all /\ \A j \in 1..left : todo[t][j] = round.headers[all - left + j]
      /\ \A i \in 1..(all - left) : Held(round.headers[i])

StoreInv ==
  /\ at[Sync] \in Vouching => accounts.vouched = Last(round.headers)
  /\ at[Sync] \notin Vouching => accounts.vouched \in ever \cup {None}
  /\ at[Sync] \in {"split"} \cup Storing => LeftOver(Sync)
  /\ at[Sync] \in Storing => Divergence(round.headers) = {}
  /\ at[Sync] = "stored" => \A i \in DOMAIN round.headers : Held(round.headers[i])

SyncInv == TypeInv /\ CacheInv /\ TipInv /\ WireInv /\ RoundInv /\ StoreInv

-----------------------------------------------------------------------------
(* Chains *)

\* The blocks of a chain are numbered on.
LEMMA LinkedNumbers ==
  ASSUME NEW chain \in Seq(Blocks), Linked(chain)
  PROVE  \A i \in 1..Len(chain) : Number[chain[i]] = Number[chain[1]] + i - 1
<1> DEFINE n == Len(chain)
           A == {i \in Nat : i + 1 \in 1..n => Number[chain[i + 1]] = Number[chain[1]] + i}
<1>1. n \in Nat /\ \A i \in 1..n : chain[i] \in Blocks /\ Number[chain[i]] \in Nat
  BY CacheAssumption
<1>2. 0 \in A
  BY <1>1
<1>3. ASSUME NEW i \in Nat, i \in A PROVE i + 1 \in A
  <2> SUFFICES ASSUME (i + 1) + 1 \in 1..n PROVE Number[chain[(i + 1) + 1]] = Number[chain[1]] + (i + 1)
    OBVIOUS
  <2>1. i + 1 \in 1..(n - 1) /\ i + 1 \in 1..n
    BY <1>1
  <2>2. ValidChild(chain[i + 1], chain[(i + 1) + 1])
    BY <2>1 DEF Linked
  <2>3. chain[i + 1] # Root
    BY <1>1, <2>1, CacheAssumption
  <2>4. Number[chain[(i + 1) + 1]] = Number[chain[i + 1]] + 1
    BY <2>2, <2>3, CacheAssumption DEF ValidChild
  <2>5. Number[chain[i + 1]] = Number[chain[1]] + i
    BY <1>3, <2>1
  <2>6. Number[chain[1]] \in Nat
    BY <1>1, <2>1
  <2> QED
    BY <2>4, <2>5, <2>6
<1>4. Nat \subseteq A
  <2> HIDE DEF A
  <2> QED
    BY <1>2, <1>3, AllNumbers
<1>5. ASSUME NEW i \in 1..n PROVE Number[chain[i]] = Number[chain[1]] + i - 1
  <2>1. i - 1 \in Nat /\ (i - 1) + 1 = i
    BY <1>1
  <2>2. i - 1 \in A
    BY <1>4, <2>1
  <2>3. Number[chain[1]] \in Nat
    BY <1>1, <1>5
  <2> QED
    BY <1>5, <2>1, <2>2, <2>3
<1> QED
  BY <1>5

LEMMA RootNumbers ==
  ASSUME NEW chain \in Seq(Blocks), FromRoot(chain)
  PROVE  \A i \in 1..Len(chain) : Number[chain[i]] = i
<1> SUFFICES ASSUME NEW i \in 1..Len(chain) PROVE Number[chain[i]] = i
  OBVIOUS
<1>1. Number[chain[i]] = Number[chain[1]] + i - 1
  BY LinkedNumbers DEF FromRoot
<1>2. ValidChild(Root, chain[1])
  BY DEF FromRoot
<1>3. Number[chain[1]] = 1
  BY <1>2, CacheAssumption DEF ValidChild
<1> QED
  BY <1>1, <1>3

\* Two chains that meet at a height are the same below it.
LEMMA SameBelow ==
  ASSUME NEW a \in Seq(Blocks), NEW b \in Seq(Blocks), FromRoot(a), FromRoot(b),
         NEW n \in Nat, n <= Len(a), n <= Len(b), n > 0 => a[n] = b[n]
  PROVE  \A i \in 1..n : a[i] = b[i]
<1> DEFINE I == {i \in 1..n : a[i] # b[i]}
<1> SUFFICES ASSUME I # {} PROVE FALSE
  OBVIOUS
<1> DEFINE m == Max(I)
<1>1. m \in I /\ \A i \in I : i <= m
  <2>1. I \subseteq 1..n
    OBVIOUS
  <2> HIDE DEF I
  <2> QED
    BY <2>1, GreatestOf
<1> HIDE DEF m
<1>2. m \in 1..n /\ a[m] # b[m] /\ m # n
  BY <1>1
<1>3. m + 1 \in 1..n /\ m + 1 \notin I
  BY <1>1, <1>2
<1>4. a[m + 1] = b[m + 1]
  BY <1>3
<1>5. m \in 1..(Len(a) - 1) /\ m \in 1..(Len(b) - 1)
  <2>1. m \in Nat /\ 1 <= m /\ m + 1 <= n /\ Len(a) \in Nat /\ Len(b) \in Nat
    BY <1>2, <1>3
  <2> QED
    BY <2>1
<1>6. ValidChild(a[m], a[m + 1]) /\ ValidChild(b[m], b[m + 1])
  BY <1>5 DEF FromRoot, Linked
<1> QED
  BY <1>2, <1>4, <1>6 DEF ValidChild

-----------------------------------------------------------------------------
(* Heights *)

LEMMA HighestOf ==
  ASSUME NEW S, IsFiniteSet(S)
  PROVE  S \subseteq Nat => Highest(S) \in Nat /\ \A i \in S : i <= Highest(S)
<1> DEFINE Bounded(s) == \E m \in {0} \cup s : \A i \in {0} \cup s : i <= m
           T == {s \in SUBSET S : ~Bounded(s)}
<1>0. T # {} => \E x \in T : \A y \in T : ~(y \subseteq x /\ y # x)
  <2>1. T \subseteq SUBSET S
    OBVIOUS
  <2> HIDE DEF T
  <2> QED
    BY <2>1, MinimalSubset
<1> HAVE S \subseteq Nat
<1>1. ASSUME T # {} PROVE FALSE
  <2>1. PICK x \in T : \A y \in T : ~(y \subseteq x /\ y # x)
    BY <1>0, <1>1
  <2>2. PICK e \in x : TRUE
    <3>1. x # {}
      <4>1. Bounded({})
        OBVIOUS
      <4> QED
        BY <2>1, <4>1
    <3> QED
      BY <3>1
  <2>3. x \ {e} \in SUBSET S /\ x \ {e} \notin T
    BY <2>1, <2>2
  <2>4. PICK m \in {0} \cup (x \ {e}) : \A i \in {0} \cup (x \ {e}) : i <= m
    BY <2>3
  <2>5. e \in Nat /\ m \in Nat /\ x \subseteq Nat
    BY <2>1, <2>2, <2>4
  <2>6. CASE e <= m
    <3>1. m \in {0} \cup x /\ \A i \in {0} \cup x : i <= m
      BY <2>4, <2>6
    <3> QED
      BY <2>1, <3>1
  <2>7. CASE m <= e
    <3>1. \A i \in {0} \cup x : i <= e
      BY <2>4, <2>5, <2>7
    <3> QED
      BY <2>1, <2>2, <3>1
  <2> QED
    BY <2>5, <2>6, <2>7
<1>2. PICK m \in {0} \cup S : \A i \in {0} \cup S : i <= m
  BY <1>1
<1>3. {0} \cup S \subseteq Nat
  OBVIOUS
<1>4. Max({0} \cup S) \in {0} \cup S /\ \A i \in {0} \cup S : i <= Max({0} \cup S)
  BY <1>2 DEF Max
<1> HIDE DEF T
<1> QED
  BY <1>3, <1>4 DEF Highest

\* A cache that has room keeps every height.
LEMMA KeptAll ==
  ASSUME NEW heightSet, heightSet \subseteq 1..MaxBlocks
  PROVE  Kept(heightSet) = heightSet
<1> SUFFICES ASSUME NEW h \in heightSet PROVE Cardinality({g \in heightSet : g > h}) < MaxBlocks
  BY DEF Kept
<1> DEFINE Above == {g \in heightSet : g > h}
<1>0. MaxBlocks \in Nat /\ h \in 1..MaxBlocks
  BY CacheAssumption
<1>1. Above \subseteq (h + 1)..MaxBlocks
  <2>1. ASSUME NEW g \in heightSet, g > h PROVE g \in (h + 1)..MaxBlocks
    <3>1. g \in 1..MaxBlocks
      OBVIOUS
    <3> QED
      BY <1>0, <2>1, <3>1
  <2> QED
    BY <2>1
<1>2. IsFiniteSet((h + 1)..MaxBlocks) /\ Cardinality((h + 1)..MaxBlocks) = IF h + 1 > MaxBlocks THEN 0 ELSE MaxBlocks - (h + 1) + 1
  BY <1>0, FS_Interval
<1>3. Cardinality(Above) <= Cardinality((h + 1)..MaxBlocks) /\ IsFiniteSet(Above)
  BY <1>1, <1>2, FS_Subset
<1>4. Cardinality(Above) \in Nat
  BY <1>3, FS_CardinalityType
<1> QED
  BY <1>0, <1>2, <1>3, <1>4

-----------------------------------------------------------------------------
(* Peers, and what they send *)

\* The task and the cache are left alone.
LEMMA Outside ==
  ASSUME SyncInv, UNCHANGED <<cacheVars, at, todo, round, accounts>>, TypeInv', TipInv', WireInv'
  PROVE  SyncInv'
<1>1. CacheInv'
  BY DEF SyncInv, CacheInv, cacheVars, FromRoot, Linked
<1>2. RoundInv' /\ StoreInv'
  BY DEF SyncInv, RoundInv, StoreInv, cacheVars, LeftOver, Held, Divergence, FirstFits
<1> QED
  BY <1>1, <1>2 DEF SyncInv

LEMMA Added ==
  ASSUME SyncInv, NEW m \in Messages, Truthful(m), Deliver(m)
  PROVE  inbound' \in Seq(Messages) /\ WireInv'
<1>1. CASE inbound' = inbound
  BY <1>1 DEF SyncInv, TypeInv, WireInv
<1>2. CASE inbound' = Append(inbound, m)
  <2>1. inbound' \in Seq(Messages) /\ DOMAIN inbound' = 1..(Len(inbound) + 1) /\ Len(inbound) \in Nat
    BY <1>2 DEF SyncInv, TypeInv
  <2>2. ASSUME NEW i \in DOMAIN inbound' PROVE inbound'[i] = m \/ (i \in DOMAIN inbound /\ inbound'[i] = inbound[i])
    BY <1>2, <2>1 DEF SyncInv, TypeInv
  <2>3. ASSUME NEW i \in DOMAIN inbound' PROVE Truthful(inbound'[i])
    BY <2>2 DEF SyncInv, WireInv
  <2> QED
    BY <2>1, <2>3 DEF WireInv, Truthful, OnChain
<1> QED
  BY <1>1, <1>2 DEF Deliver

\* A part of an honest chain.
LEMMA PartOfChain ==
  ASSUME SyncInv, NEW p \in Honest, NEW r \in HeaderRequests
  PROVE  Headers(p, r) \in Seq(Blocks) /\ OnChain(p, Headers(p, r))
<1> DEFINE c == ChainOf[p]
           n == Min({tip[p], r.start + r.what - 1})
<1>1. c \in Seq(Blocks) /\ FromRoot(c) /\ Len(c) \in Nat /\ tip[p] \in Nat /\ tip[p] <= Len(c)
  BY SyncAssumption DEF SyncInv, TypeInv, TipInv
<1>2. r.start \in Nat \ {0} /\ r.what \in Nat
  BY DEF HeaderRequests
<1>3. n \in Nat /\ n <= tip[p]
  <2>1. {tip[p], r.start + r.what - 1} \subseteq Nat
    BY <1>1, <1>2
  <2>2. n \in {tip[p], r.start + r.what - 1} /\ \A i \in {tip[p], r.start + r.what - 1} : n <= i
    BY <2>1, LeastOf
  <2> QED
    BY <2>1, <2>2
<1> HIDE DEF n, c
<1>4. \A i \in r.start..n : c[i] \in Blocks
  BY <1>1, <1>2, <1>3
<1>5. /\ SubSeq(c, r.start, n) \in Seq(Blocks)
      /\ Len(SubSeq(c, r.start, n)) = IF r.start <= n THEN n - r.start + 1 ELSE 0
      /\ \A i \in 1..(n - r.start + 1) : SubSeq(c, r.start, n)[i] = c[r.start + i - 1]
  BY <1>2, <1>3, <1>4, SubSeqProperties
<1>6. Headers(p, r) = SubSeq(c, r.start, n)
  BY DEF Headers, c, n
<1>7. ASSUME NEW i \in DOMAIN Headers(p, r)
      PROVE  r.start + i - 1 \in 1..Len(c) /\ Headers(p, r)[i] = c[r.start + i - 1]
  <2>1. i \in 1..Len(Headers(p, r)) /\ Len(Headers(p, r)) \in Nat
    BY <1>5, <1>6
  <2>2. r.start <= n /\ i \in 1..(n - r.start + 1)
    BY <1>2, <1>3, <1>5, <1>6, <2>1
  <2>3. r.start + i - 1 \in 1..n
    BY <1>2, <1>3, <2>2
  <2>4. r.start + i - 1 \in 1..Len(c)
    BY <1>1, <1>3, <2>3
  <2> QED
    BY <1>5, <1>6, <2>2, <2>4
<1>8. \A i \in 1..Len(c) : Number[c[i]] = i /\ i \in DOMAIN c
  BY <1>1, RootNumbers
<1> QED
  BY <1>5, <1>6, <1>7, <1>8, SMTT(30) DEF OnChain, c

LEMMA AnswerInv == ASSUME SyncInv, NEW p \in Honest, Answer(p) PROVE SyncInv'
<1>1. PICK r \in asked : /\ r.to = p /\ asked' = asked \ {r}
                         /\ IF HonestAnswers(p, r) = {} THEN UNCHANGED inbound
                            ELSE \E m \in HonestAnswers(p, r) : Deliver(m)
  BY DEF Answer
<1>2. r \in Requests /\ p \in Peers
  BY SyncAssumption DEF SyncInv, TypeInv
<1>3. ASSUME NEW m \in HonestAnswers(p, r) PROVE m \in Messages /\ Truthful(m)
  <2>1. CASE r \in HeaderRequests
    <3>1. m = Message(p, "headers", Headers(p, r))
      BY <1>3, <2>1 DEF HonestAnswers, HeaderRequests
    <3> QED
      BY <1>2, <2>1, <3>1, PartOfChain DEF Message, Messages, HeaderMessages, Truthful
  <2>2. CASE r \in BodyRequests
    <3>1. m = Message(p, "bodies", Bodies(r.what, 0))
      BY <1>3, <2>2 DEF HonestAnswers, BodyRequests
    <3>2. r.what \in Seq(Blocks)
      BY <2>2 DEF BodyRequests
    <3> QED
      BY <1>2, <3>1, <3>2 DEF Message, Bodies, Messages, BodyMessages, Truthful
  <2>3. CASE r \in SnapshotRequests
    <3>1. r.start \in 1..tip[p] /\ m = Message(p, "snapshot", Snapshot(r.start, ChainOf[p][r.start], ChainOf[p][tip[p]]))
      BY <1>3, <2>3 DEF HonestAnswers, SnapshotRequests
    <3>2. tip[p] \in Nat /\ tip[p] <= Len(ChainOf[p]) /\ ChainOf[p] \in Seq(Blocks)
      BY SyncAssumption DEF SyncInv, TypeInv, TipInv
    <3>3. r.start \in Nat /\ ChainOf[p][r.start] \in Blocks /\ ChainOf[p][tip[p]] \in Blocks
      BY <3>1, <3>2
    <3> QED
      BY <1>2, <3>1, <3>3 DEF Message, Snapshot, Messages, SnapshotMessages, Truthful
  <2> QED
    BY <1>2, <2>1, <2>2, <2>3 DEF Requests
<1>4. inbound' \in Seq(Messages) /\ WireInv'
  <2>1. CASE UNCHANGED inbound
    BY <2>1 DEF SyncInv, TypeInv, WireInv, Truthful, OnChain
  <2>2. CASE \E m \in HonestAnswers(p, r) : Deliver(m)
    BY <1>3, <2>2, Added
  <2> QED
    BY <1>1, <2>1, <2>2
<1>5. TypeInv' /\ TipInv' /\ UNCHANGED <<cacheVars, at, todo, round, accounts>>
  BY <1>1, <1>4 DEF Answer, cache, peerVars, own, SyncInv, TypeInv, TipInv
<1> QED
  BY <1>4, <1>5, Outside

LEMMA LieInv == ASSUME SyncInv, NEW p \in Peers \ Honest, Lie(p) PROVE SyncInv'
<1>1. PICK r \in asked : /\ r.to = p /\ asked' = asked \ {r}
                         /\ UNCHANGED inbound \/ \E m \in ForgedAnswers(p, r) : Deliver(m)
  BY DEF Lie
<1>2. r \in Requests
  BY DEF SyncInv, TypeInv
<1>3. ASSUME NEW m \in ForgedAnswers(p, r) PROVE m \in Messages /\ Truthful(m)
  <2>1. CASE r \in HeaderRequests
    <3>1. PICK h \in Forged : m = Message(p, "headers", h)
      BY <1>3, <2>1 DEF ForgedAnswers, HeaderRequests
    <3> QED
      BY <3>1, SyncAssumption DEF Message, Messages, HeaderMessages, Truthful
  <2>2. CASE r \in BodyRequests
    <3>1. PICK n \in {0, 1} : m = Message(p, "bodies", Bodies(r.what, n))
      BY <1>3, <2>2 DEF ForgedAnswers, BodyRequests
    <3>2. r.what \in Seq(Blocks)
      BY <2>2 DEF BodyRequests
    <3> QED
      BY <3>1, <3>2 DEF Message, Bodies, Messages, BodyMessages, Truthful
  <2>3. CASE r \in SnapshotRequests
    <3>1. PICK b \in Blocks : m = Message(p, "snapshot", Snapshot(r.start, b, "forged"))
      BY <1>3, <2>3 DEF ForgedAnswers, SnapshotRequests
    <3>2. r.start \in Nat
      BY <2>3 DEF SnapshotRequests
    <3> QED
      BY <3>1, <3>2 DEF Message, Snapshot, Messages, SnapshotMessages, Truthful
  <2> QED
    BY <1>2, <2>1, <2>2, <2>3 DEF Requests
<1>4. inbound' \in Seq(Messages) /\ WireInv'
  <2>1. CASE UNCHANGED inbound
    BY <2>1 DEF SyncInv, TypeInv, WireInv, Truthful, OnChain
  <2>2. CASE \E m \in ForgedAnswers(p, r) : Deliver(m)
    BY <1>3, <2>2, Added
  <2> QED
    BY <1>1, <2>1, <2>2
<1>5. TypeInv' /\ TipInv' /\ UNCHANGED <<cacheVars, at, todo, round, accounts>>
  BY <1>1, <1>4 DEF Lie, cache, peerVars, own, SyncInv, TypeInv, TipInv
<1> QED
  BY <1>4, <1>5, Outside

LEMMA PeersInv ==
  ASSUME SyncInv, \/ \E p \in Honest : Grow(p)
                  \/ \E p \in Peers : Announce(p) \/ Leave(p) \/ Join(p)
  PROVE  SyncInv'
<1>1. UNCHANGED <<cacheVars, at, todo, round, accounts, localHeight, synced>>
  BY DEF Grow, Announce, Leave, Join, cache, own, peerVars
<1>2. inbound' = inbound /\ asked' \subseteq asked
  BY DEF Grow, Announce, Leave, Join, wire
<1>3. WireInv'
  BY <1>2 DEF SyncInv, WireInv, Truthful, OnChain
<1>4. peers' \subseteq Peers /\ heights' \in [peers' -> Nat] /\ tip' \in [Honest -> Nat] /\ TipInv'
  <2>1. CASE \E p \in Honest : Grow(p)
    <3>1. PICK p \in Honest : tip[p] < Len(ChainOf[p]) /\ tip' = [tip EXCEPT ![p] = @ + 1] /\ UNCHANGED <<peers, heights>>
      BY <2>1 DEF Grow, peerVars
    <3>2. ChainOf[p] \in Seq(Blocks) /\ tip[p] \in Nat
      BY SyncAssumption DEF SyncInv, TypeInv
    <3>3. Len(ChainOf[p]) \in Nat /\ tip[p] + 1 <= Len(ChainOf[p])
      BY <3>1, <3>2
    <3> QED
      BY <3>1, <3>2, <3>3 DEF SyncInv, TypeInv, TipInv
  <2>2. CASE \E p \in Peers : Announce(p)
    <3>1. PICK p \in Peers : p \in peers /\ \E h \in IF p \in Honest THEN {tip[p]} ELSE Range(tip) : heights' = [heights EXCEPT ![p] = h]
      BY <2>2 DEF Announce
    <3>2. PICK h \in Nat : heights' = [heights EXCEPT ![p] = h]
      BY <3>1 DEF SyncInv, TypeInv, Range
    <3>3. UNCHANGED <<peers, tip>>
      BY <2>2 DEF Announce
    <3> QED
      BY <3>1, <3>2, <3>3 DEF SyncInv, TypeInv, TipInv
  <2>3. CASE \E p \in Peers : Leave(p)
    <3>1. PICK p \in Peers : peers' = peers \ {p} /\ heights' = Restrict(heights, DOMAIN heights \ {p}) /\ UNCHANGED tip
      BY <2>3 DEF Leave
    <3> QED
      BY <3>1 DEF SyncInv, TypeInv, TipInv, Restrict
  <2>4. CASE \E p \in Peers : Join(p)
    <3>1. PICK p \in Peers : /\ peers' = peers \cup {p} /\ UNCHANGED tip
                             /\ heights' = [q \in DOMAIN heights \cup {p} |-> IF q = p THEN 0 ELSE heights[q]]
      BY <2>4 DEF Join
    <3> QED
      BY <3>1 DEF SyncInv, TypeInv, TipInv
  <2> QED
    BY <2>1, <2>2, <2>3, <2>4
<1>5. TypeInv'
  BY <1>1, <1>2, <1>4 DEF SyncInv, TypeInv
<1> QED
  BY <1>1, <1>3, <1>4, <1>5, Outside

-----------------------------------------------------------------------------
(* The task between its rounds *)

LEMMA Larger ==
  ASSUME NEW a \in Int, NEW b \in Int
  PROVE  Max({a, b}) \in {a, b} /\ a <= Max({a, b}) /\ b <= Max({a, b})
<1>1. \E x \in {a, b} : \A y \in {a, b} : y <= x
  <2>1. CASE a <= b
    BY <2>1
  <2>2. CASE b <= a
    BY <2>2
  <2> QED
    BY <2>1, <2>2
<1> QED
  BY <1>1 DEF Max

LEMMA Smaller ==
  ASSUME NEW a \in Int, NEW b \in Int
  PROVE  Min({a, b}) \in {a, b}
<1>1. \E x \in {a, b} : \A y \in {a, b} : x <= y
  <2>1. CASE a <= b
    BY <2>1
  <2>2. CASE b <= a
    BY <2>2
  <2> QED
    BY <2>1, <2>2
<1> QED
  BY <1>1 DEF Min

\* The task goes on to another place.
LEMMA Goes ==
  ASSUME SyncInv, NEW s \in Steps, Goto(Sync, s)
  PROVE  at' \in [Threads -> Steps] /\ at'[Sync] = s
BY SyncAssumption DEF SyncInv, TypeInv, Goto

\* Where the task stores nothing it claims little.
LEMMA Resting ==
  ASSUME SyncInv, UNCHANGED <<cacheVars, tip>>, TypeInv', WireInv',
         at'[Sync] \in {"tick", "refresh", "headers"}, at'[Sync] = "headers" => round'.start > 0,
         accounts'.vouched \in ever \cup {None}
  PROVE  SyncInv'
<1>1. CacheInv' /\ TipInv'
  BY DEF SyncInv, CacheInv, cacheVars, FromRoot, Linked, TipInv
<1>2. RoundInv' /\ StoreInv'
  BY DEF RoundInv, StoreInv, cacheVars, Fetched, Vouching, Storing
<1> QED
  BY <1>1, <1>2 DEF SyncInv

LEMMA Asked ==
  ASSUME SyncInv, NEW r \in Rounds, r.peer \in Peers, NEW lookback \in Nat, AskHeaders(r, lookback)
  PROVE  /\ at' \in [Threads -> Steps] /\ at'[Sync] \in {"tick", "headers"}
         /\ round' \in Rounds /\ asked' \subseteq Requests
         /\ at'[Sync] = "headers" => round'.start > 0 /\ round'.peer \in Peers
<1> DEFINE start == ProbeStart(r.local, lookback)
           limit == Limit(r.local, r.target, start)
<1>1. r.local \in Nat /\ r.target \in Nat
  BY DEF Rounds
<1>0. ASSUME NEW i \in Int PROVE Max({1, i}) \in Nat \ {0}
  <2>1. Max({1, i}) \in {1, i} /\ 1 <= Max({1, i})
    BY Larger
  <2> QED
    BY <2>1
<1>2. start \in Nat \ {0}
  <2>1. r.local + 1 \in Nat \ {0} /\ r.local - lookback \in Int
    BY <1>1
  <2> QED
    BY <1>0, <2>1 DEF ProbeStart
<1> HIDE DEF start
<1>3. limit \in Nat
  <2>0. ReorgLimit \in Nat /\ BatchLimit \in Nat
    BY SyncAssumption
  <2>1. r.local - start + 1 \in Int /\ r.target - start + 1 \in Int /\ ReorgLimit \in Int /\ BatchLimit \in Int
    BY <1>1, <1>2, <2>0
  <2>2. Min({r.local - start + 1, ReorgLimit}) \in Int /\ Min({r.target - start + 1, BatchLimit}) \in Int
    BY <2>1, Smaller
  <2> QED
    BY <1>0, <2>2 DEF Limit
<1> HIDE DEF limit
<1>4. CASE r.peer \in peers
  <2>1. /\ asked' = asked \cup {Request(r.peer, "headers", start, limit)}
        /\ round' = [r EXCEPT !.lookback = lookback, !.start = start]
        /\ Goto(Sync, "headers")
    BY <1>4 DEF AskHeaders, Send, start, limit
  <2>2. Request(r.peer, "headers", start, limit) \in Requests
    BY <1>2, <1>3 DEF Request, Requests, HeaderRequests
  <2>3. round' \in Rounds /\ round'.start = start /\ round'.peer = r.peer
    BY <1>2, <2>1 DEF Rounds
  <2>4. asked' \subseteq Requests
    BY <2>1, <2>2 DEF SyncInv, TypeInv
  <2>5. at' \in [Threads -> Steps] /\ at'[Sync] = "headers"
    BY <2>1, Goes DEF Steps
  <2> QED
    BY <1>2, <2>3, <2>4, <2>5
<1>5. CASE r.peer \notin peers
  <2>1. asked' = asked /\ round' = NoRound /\ Goto(Sync, "tick")
    BY <1>5 DEF AskHeaders, Stay
  <2>2. NoRound \in Rounds
    BY DEF NoRound, Rounds
  <2> QED
    BY <2>1, <2>2, Goes DEF Steps, SyncInv, TypeInv
<1> QED
  BY <1>4, <1>5

LEMMA TickInv == ASSUME SyncInv, Tick PROVE SyncInv'
<1> DEFINE local == Max({localHeight, synced, ChainHead})
           target == Highest(Range(heights))
<1>1. ChainHead \in Nat
  <2>1. DOMAIN blocks = 1..Len(blocks) /\ Len(blocks) \in Nat
    BY DEF SyncInv, CacheInv
  <2>2. IsFiniteSet(DOMAIN blocks) /\ DOMAIN blocks \subseteq Nat
    BY <2>1, FS_Interval
  <2> QED
    BY <2>2, HighestOf DEF ChainHead
<1>2. local \in Nat
  <2>1. localHeight \in Nat /\ synced \in Nat
    BY DEF SyncInv, TypeInv
  <2>2. \E x \in {localHeight, synced, ChainHead} : \A y \in {localHeight, synced, ChainHead} : y <= x
    BY <1>1, <2>1
  <2>3. local \in {localHeight, synced, ChainHead}
    BY <2>2 DEF Max
  <2> QED
    BY <1>1, <2>1, <2>3
<1>3. target \in Nat
  <2>1. heights \in [peers -> Nat] /\ IsFiniteSet(peers)
    BY SyncAssumption, FS_Subset DEF SyncInv, TypeInv
  <2>2. Range(heights) \subseteq Nat /\ heights \in Surjection(peers, Range(heights))
    BY <2>1 DEF Range, Surjection
  <2>3. IsFiniteSet(Range(heights))
    BY <2>1, <2>2, FS_Surjection
  <2> QED
    BY <2>2, <2>3, HighestOf
<1>4. UNCHANGED <<cacheVars, todo, peers, heights, synced, inbound, accounts, tip>> /\ localHeight' = local /\ at[Sync] = "tick"
  BY DEF Tick, cache, counts
<1>5. WireInv' /\ accounts'.vouched \in ever \cup {None}
  BY <1>4 DEF SyncInv, WireInv, Truthful, OnChain, StoreInv, Vouching, Storing
<1> DEFINE r(p) == [NoRound EXCEPT !.peer = p, !.local = local]
           s(p) == [NoRound EXCEPT !.peer = p, !.local = local, !.target = target]
<1>6. PICK p \in BestPeers :
        \/ /\ Send(Request(p, "snapshot", local, 1))
           /\ round' = r(p) /\ Goto(Sync, "refresh")
        \/ AskHeaders(s(p), 0)
  BY DEF Tick
<1>7. p \in Peers
  BY DEF BestPeers, SyncInv, TypeInv
<1> HIDE DEF local, target
<1>8. r(p) \in Rounds /\ s(p) \in Rounds /\ r(p).peer = p /\ s(p).peer = p
  <2>1. NoRound \in Rounds
    BY DEF NoRound, Rounds
  <2> QED
    BY <1>2, <1>3, <1>7, <2>1 DEF Rounds
<1> HIDE DEF r, s
<1>9. /\ at' \in [Threads -> Steps] /\ at'[Sync] \in {"tick", "refresh", "headers"}
      /\ round' \in Rounds /\ asked' \subseteq Requests
      /\ at'[Sync] = "headers" => round'.start > 0
      /\ at'[Sync] # "tick" => round'.peer \in Peers
  <2>1. CASE AskHeaders(s(p), 0)
    BY <1>7, <1>8, <2>1, Asked
  <2>2. CASE Send(Request(p, "snapshot", local, 1)) /\ round' = r(p) /\ Goto(Sync, "refresh")
    <3>1. Request(p, "snapshot", local, 1) \in Requests
      BY <1>2, <1>7 DEF Request, Requests, SnapshotRequests
    <3>2. at' \in [Threads -> Steps] /\ at'[Sync] = "refresh"
      BY <2>2, Goes DEF Steps
    <3> QED
      BY <1>7, <1>8, <2>2, <3>1, <3>2 DEF Send, SyncInv, TypeInv
  <2> QED
    BY <1>6, <2>1, <2>2
<1>10. TypeInv'
  BY <1>2, <1>4, <1>9 DEF SyncInv, TypeInv
<1> QED
  BY <1>4, <1>5, <1>9, <1>10, Resting

-----------------------------------------------------------------------------
(* A round, until its headers are to be stored *)

LEMMA Popped ==
  ASSUME SyncInv, inbound # << >>, inbound' = Tail(inbound)
  PROVE  /\ inbound' \in Seq(Messages) /\ WireInv'
         /\ Head(inbound) \in Messages /\ Truthful(Head(inbound))
<1>1. inbound \in Seq(Messages) /\ Len(inbound) \in Nat \ {0}
  BY DEF SyncInv, TypeInv
<1>2. Head(inbound) = inbound[1] /\ 1 \in DOMAIN inbound
  BY <1>1
<1>3. inbound' \in Seq(Messages) /\ DOMAIN inbound' = 1..(Len(inbound) - 1)
      /\ \A i \in DOMAIN inbound' : inbound'[i] = inbound[i + 1] /\ i + 1 \in DOMAIN inbound
  BY <1>1
<1>4. WireInv'
  BY <1>3 DEF SyncInv, WireInv, Truthful, OnChain
<1> QED
  BY <1>1, <1>2, <1>3, <1>4 DEF SyncInv, WireInv

\* A round ends, by a failure or at its end.
LEMMA Ends ==
  ASSUME SyncInv, Stay(Sync), UNCHANGED <<cacheVars, todo, peers, heights, tip>>,
         localHeight' \in Nat, synced' \in Nat, asked' \subseteq asked,
         inbound' \in Seq(Messages), WireInv', accounts'.vouched \in ever \cup {None}
  PROVE  SyncInv'
<1>1. at' \in [Threads -> Steps] /\ at'[Sync] = "tick"
  BY Goes DEF Stay, Steps
<1>2. round' \in Rounds
  BY DEF Stay, NoRound, Rounds
<1>3. TypeInv'
  BY <1>1, <1>2 DEF SyncInv, TypeInv
<1> QED
  BY <1>1, <1>3, Resting

LEMMA WaitInv == ASSUME SyncInv, TickAlone \/ Skip \/ Timeout PROVE SyncInv'
<1>1. CASE TickAlone
  <2>1. UNCHANGED <<cacheVars, at, todo, round, accounts, peers, heights, tip, localHeight, synced, asked, inbound>>
    BY <1>1 DEF TickAlone, cache, peerVars, wire
  <2>2. TypeInv' /\ TipInv' /\ WireInv'
    BY <2>1 DEF SyncInv, TypeInv, TipInv, WireInv, Truthful, OnChain
  <2> QED
    BY <2>1, <2>2, Outside
<1>2. CASE Skip
  <2>1. UNCHANGED <<cacheVars, at, todo, round, accounts, peers, heights, tip, localHeight, synced, asked>>
    BY <1>2 DEF Skip, cache, peerVars, own
  <2>2. inbound' \in Seq(Messages) /\ WireInv'
    BY <1>2, Popped DEF Skip
  <2>3. TypeInv' /\ TipInv'
    BY <2>1, <2>2 DEF SyncInv, TypeInv, TipInv
  <2> QED
    BY <2>1, <2>2, <2>3, Outside
<1>3. CASE Timeout
  <2>1. UNCHANGED <<cacheVars, todo, peers, heights, tip, localHeight, synced, asked, inbound, accounts>> /\ Stay(Sync)
    BY <1>3 DEF Timeout, cache, wire, Fail
  <2>2. WireInv' /\ inbound' \in Seq(Messages) /\ localHeight' \in Nat /\ synced' \in Nat
    BY <2>1 DEF SyncInv, TypeInv, WireInv, Truthful, OnChain
  <2>3. accounts'.vouched \in ever \cup {None}
    BY <1>3, <2>1 DEF Timeout, Waiting, SyncInv, StoreInv, Vouching, Storing
  <2> QED
    BY <2>1, <2>2, <2>3, Ends
<1> QED
  BY <1>1, <1>2, <1>3

LEMMA TakeHeadersInv == ASSUME SyncInv, TakeHeaders PROVE SyncInv'
<1> DEFINE m == Head(inbound)
           r == [round EXCEPT !.headers = m.data]
<1>1. /\ at[Sync] = "headers" /\ inbound # << >> /\ inbound' = Tail(inbound) /\ m.from = round.peer
      /\ m.kind = "headers" /\ m.data # << >> /\ Number[m.data[1]] = round.start
      /\ UNCHANGED <<cacheVars, todo, peers, heights, localHeight, synced, accounts, tip>>
  BY DEF TakeHeaders, Received, Matches, cache, counts
<1>2. inbound' \in Seq(Messages) /\ WireInv' /\ m \in Messages /\ Truthful(m)
  BY <1>1, Popped
<1> HIDE DEF m
<1>3. m.data \in Seq(Blocks)
  BY <1>1, <1>2 DEF Messages, HeaderMessages, BodyMessages, SnapshotMessages
<1>4. round \in Rounds /\ round.peer \in Peers /\ round.start > 0 /\ accounts'.vouched \in ever \cup {None}
  BY <1>1 DEF SyncInv, TypeInv, RoundInv, StoreInv, Vouching, Storing
<1>5. CASE AskHeaders(round, NextLookBack(round))
  <2>1. NextLookBack(round) \in Nat
    <3>1. LookBack \in Int /\ round.lookback \in Nat /\ round.local \in Int
      BY <1>4, SyncAssumption DEF Rounds
    <3>2. ASSUME NEW i \in Int PROVE Max({i, 1}) \in Nat
      <4>1. Max({i, 1}) \in {i, 1} /\ 1 <= Max({i, 1})
        BY Larger
      <4> QED
        BY <4>1
    <3>3. ASSUME NEW i \in Nat, NEW j \in Nat PROVE Min({i, j}) \in Nat
      BY Smaller
    <3>4. Max({LookBack, 1}) \in Nat /\ Max({round.local, 1}) \in Nat /\ 2 * round.lookback \in Nat
      BY <3>1, <3>2
    <3> QED
      BY <3>3, <3>4 DEF NextLookBack
  <2>2. /\ at' \in [Threads -> Steps] /\ at'[Sync] \in {"tick", "headers"}
        /\ round' \in Rounds /\ asked' \subseteq Requests
        /\ at'[Sync] = "headers" => round'.start > 0 /\ round'.peer \in Peers
    BY <1>4, <1>5, <2>1, Asked
  <2>3. TypeInv'
    BY <1>1, <1>2, <2>2 DEF SyncInv, TypeInv
  <2> QED
    BY <1>1, <1>2, <1>4, <2>2, <2>3, Resting
<1>6. CASE Stay(Sync) /\ UNCHANGED asked
  <2>1. localHeight' \in Nat /\ synced' \in Nat
    BY <1>1 DEF SyncInv, TypeInv
  <2> QED
    BY <1>1, <1>2, <1>4, <1>6, <2>1, Ends
<1>7. CASE /\ FirstFits(round.start, m.data) /\ Chained(m.data)
           /\ Send(Request(round.peer, "bodies", round.start, m.data))
           /\ round' = r /\ Goto(Sync, "bodies")
  <2>1. at' \in [Threads -> Steps] /\ at'[Sync] = "bodies"
    BY <1>7, Goes DEF Steps, Fetched
  <2>2. round' \in Rounds /\ round'.headers = m.data /\ round'.start = round.start /\ round'.peer = round.peer
    BY <1>3, <1>4, <1>7 DEF Rounds
  <2>3. asked' \subseteq Requests
    <3>1. Request(round.peer, "bodies", round.start, m.data) \in BodyRequests
      BY <1>3, <1>4 DEF Request, BodyRequests, Rounds
    <3> QED
      BY <1>7, <3>1 DEF Send, Requests, SyncInv, TypeInv
  <2>4. TypeInv'
    BY <1>1, <1>2, <1>4, <2>1, <2>2, <2>3 DEF SyncInv, TypeInv
  <2>5. CacheInv' /\ TipInv'
    BY <1>1 DEF SyncInv, CacheInv, TipInv, cacheVars, FromRoot, Linked
  <2>6. round.peer \in Honest => OnChain(round.peer, m.data)
    BY <1>1, <1>2 DEF Truthful
  <2>7. RoundInv'
    BY <1>1, <1>4, <1>7, <2>1, <2>2, <2>6 DEF RoundInv, Chained, FirstFits, cacheVars, OnChain, Linked
  <2>8. StoreInv'
    BY <1>1, <1>4, <2>1 DEF StoreInv, Vouching, Storing, cacheVars
  <2> QED
    BY <1>2, <2>4, <2>5, <2>7, <2>8 DEF SyncInv
<1> QED
  BY <1>5, <1>6, <1>7 DEF TakeHeaders, Fail, m

\* What a round holds is numbered on from its start.
LEMMA RoundNumbers ==
  ASSUME SyncInv, at[Sync] \in Fetched
  PROVE  /\ round.headers \in Seq(Blocks) /\ Len(round.headers) \in Nat \ {0} /\ round.start \in Nat \ {0}
         /\ \A i \in 1..Len(round.headers) : Number[round.headers[i]] = round.start + i - 1 /\ round.headers[i] \in Blocks
<1>1. round.headers \in Seq(Blocks) /\ round.headers # << >> /\ round.start \in Nat \ {0} /\ Linked(round.headers)
      /\ Number[round.headers[1]] = round.start
  BY DEF SyncInv, TypeInv, Rounds, RoundInv
<1> QED
  BY <1>1, LinkedNumbers

LEMMA TakeBodiesInv == ASSUME SyncInv, TakeBodies PROVE SyncInv'
<1>1. /\ at[Sync] = "bodies" /\ inbound # << >> /\ inbound' = Tail(inbound)
      /\ UNCHANGED <<cacheVars, todo, peers, heights, localHeight, synced, accounts, tip>>
  BY DEF TakeBodies, Received, cache, counts
<1>2. inbound' \in Seq(Messages) /\ WireInv'
  BY <1>1, Popped
<1>3. round.peer \in Peers /\ accounts.vouched \in ever \cup {None} /\ localHeight \in Nat /\ synced \in Nat
  BY <1>1 DEF SyncInv, TypeInv, StoreInv, Vouching, Storing
<1>4. CASE Stay(Sync) /\ UNCHANGED asked
  BY <1>1, <1>2, <1>3, <1>4, Ends
<1>5. CASE /\ Send(Request(round.peer, "snapshot", Number[Last(round.headers)], 1))
           /\ Goto(Sync, "snapshot") /\ UNCHANGED round
  <2>1. Number[Last(round.headers)] \in Nat
    <3>1. Last(round.headers) \in Blocks
      BY <1>1, RoundNumbers DEF Fetched, Last
    <3> QED
      BY <3>1, CacheAssumption
  <2>2. asked' \subseteq Requests
    <3>1. Request(round.peer, "snapshot", Number[Last(round.headers)], 1) \in SnapshotRequests
      BY <1>3, <2>1 DEF Request, SnapshotRequests
    <3> QED
      BY <1>5, <3>1 DEF Send, Requests, SyncInv, TypeInv
  <2>3. at' \in [Threads -> Steps] /\ at'[Sync] = "snapshot"
    BY <1>5, Goes DEF Steps, Fetched
  <2>4. TypeInv' /\ CacheInv' /\ TipInv'
    BY <1>1, <1>2, <1>3, <1>5, <2>2, <2>3 DEF SyncInv, TypeInv, CacheInv, TipInv, cacheVars, FromRoot, Linked
  <2>5. RoundInv'
    BY <1>1, <1>5, <2>3 DEF SyncInv, RoundInv, Fetched, FirstFits, cacheVars, OnChain, Linked
  <2>6. StoreInv'
    BY <1>1, <1>3, <2>3 DEF StoreInv, Vouching, Storing, cacheVars
  <2> QED
    BY <1>2, <2>4, <2>5, <2>6 DEF SyncInv
<1> QED
  BY <1>4, <1>5 DEF TakeBodies, Fail

LEMMA TakeRefreshInv == ASSUME SyncInv, TakeRefresh PROVE SyncInv'
<1>1. /\ at[Sync] = "refresh" /\ inbound # << >> /\ inbound' = Tail(inbound) /\ Stay(Sync)
      /\ UNCHANGED <<cacheVars, todo, peers, heights, localHeight, synced, asked, tip>>
  BY DEF TakeRefresh, Received, cache, counts, peerVars, own
<1>2. inbound' \in Seq(Messages) /\ WireInv'
  BY <1>1, Popped
<1>3. accounts'.vouched \in ever \cup {None}
  <2>1. accounts.vouched \in ever \cup {None} /\ Range(blocks) \subseteq ever
    BY <1>1 DEF SyncInv, StoreInv, CacheInv, Vouching, Storing
  <2>2. round.local \in DOMAIN blocks => blocks[round.local] \in ever
    BY <2>1 DEF Range
  <2> QED
    BY <2>1, <2>2 DEF TakeRefresh, AccountsOf
<1>4. localHeight' \in Nat /\ synced' \in Nat
  BY <1>1 DEF SyncInv, TypeInv
<1> QED
  BY <1>1, <1>2, <1>3, <1>4, Ends

-----------------------------------------------------------------------------
(* The snapshot, and the store *)

\* A block that goes on from the cache.
Follows(b) ==
  IF Number[b] = 1 THEN ValidChild(Root, b)
                   ELSE Number[b] - 1 \in DOMAIN blocks /\ ValidChild(blocks[Number[b] - 1], b)

\* A header whose predecessors in the round are in the cache goes on from it.
LEMMA NextFollows ==
  ASSUME SyncInv, at[Sync] \in Fetched, NEW k \in 1..Len(round.headers),
         \A i \in 1..(k - 1) : Held(round.headers[i])
  PROVE  Follows(round.headers[k])
<1> DEFINE hs == round.headers
           n == Len(hs)
           s == round.start
<1>1. /\ hs \in Seq(Blocks) /\ n \in Nat \ {0} /\ s \in Nat \ {0} /\ k \in 1..n
      /\ \A i \in 1..n : Number[hs[i]] = s + i - 1
  BY RoundNumbers
<1>2. Linked(hs) /\ FirstFits(s, hs) /\ DOMAIN blocks = 1..Len(blocks)
  BY DEF SyncInv, RoundInv, CacheInv
<1> HIDE DEF hs, n, s
<1>3. CASE k = 1
  <2>1. Number[hs[1]] = s
    BY <1>1
  <2>2. 0 \notin DOMAIN blocks
    BY <1>2
  <2>3. Follows(hs[1])
    BY <1>1, <1>2, <2>1, <2>2 DEF Follows, FirstFits
  <2> QED
    BY <1>3, <2>3 DEF hs
<1>4. CASE k # 1
  <2>1. k - 1 \in 1..(k - 1) /\ k - 1 \in 1..(n - 1) /\ k - 1 \in 1..n /\ (k - 1) + 1 = k
    BY <1>1, <1>4
  <2>2. ValidChild(hs[k - 1], hs[k])
    BY <1>2, <2>1 DEF Linked, n
  <2>3. Held(hs[k - 1])
    BY <2>1 DEF hs
  <2>4. Number[hs[k]] = s + k - 1 /\ Number[hs[k - 1]] = s + (k - 1) - 1
    BY <1>1, <2>1
  <2>5. Number[hs[k]] # 1 /\ Number[hs[k]] - 1 = Number[hs[k - 1]]
    BY <1>1, <1>4, <2>4
  <2>6. Follows(hs[k])
    BY <2>2, <2>3, <2>5 DEF Follows, Held
  <2> QED
    BY <2>6 DEF hs
<1> QED
  BY <1>3, <1>4

\* Where the headers leave the cache, the rest of them may replace its tail.
LEMMA TailFits ==
  ASSUME SyncInv, at[Sync] = "snapshot", Divergence(round.headers) # {}
  PROVE  LET hs == round.headers
             d == Min(Divergence(hs))
             tail == SubSeq(hs, d, Len(hs))
         IN  /\ d \in 1..Len(hs) /\ tail \in Seq(Blocks) /\ Len(tail) = Len(hs) - d + 1
             /\ \A j \in 1..Len(tail) : tail[j] = hs[d + j - 1]
             /\ \A i \in 1..(d - 1) : Held(hs[i])
             /\ ValidateReplacement(tail)
<1> DEFINE hs == round.headers
           n == Len(hs)
           d == Min(Divergence(hs))
           tail == SubSeq(hs, d, n)
           s == round.start
<1>1. /\ hs \in Seq(Blocks) /\ n \in Nat \ {0} /\ s \in Nat \ {0} /\ DOMAIN hs = 1..n
      /\ \A i \in 1..n : Number[hs[i]] = s + i - 1 /\ hs[i] \in Blocks
  BY RoundNumbers, SMTT(30) DEF Fetched
<1>2. Linked(hs) /\ FirstFits(s, hs) /\ blocks \in Seq(Blocks) /\ Len(blocks) \in Nat /\ DOMAIN blocks = 1..Len(blocks)
  BY DEF SyncInv, RoundInv, CacheInv, Fetched
<1> HIDE DEF hs, n, s
<1>3. d \in Divergence(hs) /\ \A i \in Divergence(hs) : d <= i
  <2>1. Divergence(hs) \subseteq Nat /\ Divergence(hs) # {}
    BY <1>1 DEF Divergence, hs
  <2> QED
    BY <2>1, LeastOf
<1> HIDE DEF d
<1>4. d \in 1..n /\ s + d - 1 \in 1..Len(blocks)
  BY <1>1, <1>2, <1>3 DEF Divergence
<1>5. ASSUME NEW i \in 1..(d - 1) PROVE Held(hs[i]) /\ i \in 1..n /\ s + i - 1 \in 1..Len(blocks) /\ blocks[s + i - 1] = hs[i]
  <2>1. i \in 1..n /\ i \notin Divergence(hs) /\ s + i - 1 \in 1..Len(blocks)
    BY <1>1, <1>2, <1>3, <1>4
  <2> QED
    BY <1>1, <1>2, <2>1 DEF Divergence, Held
<1>6. tail \in Seq(Blocks) /\ Len(tail) = n - d + 1 /\ \A j \in 1..Len(tail) : tail[j] = hs[d + j - 1]
  <2>1. \A i \in d..n : hs[i] \in Blocks
    BY <1>1, <1>4
  <2>2. /\ tail \in Seq(Blocks) /\ Len(tail) = IF d <= n THEN n - d + 1 ELSE 0
        /\ \A i \in 1..(n - d + 1) : tail[i] = hs[d + i - 1]
    BY <1>1, <1>4, <2>1, SubSeqProperties
  <2> QED
    BY <1>1, <1>4, <2>2
<1> HIDE DEF tail
<1>7. Linked(tail)
  <2> SUFFICES ASSUME NEW i \in 1..(Len(tail) - 1) PROVE ValidChild(tail[i], tail[i + 1])
    BY DEF Linked
  <2>1. d + i - 1 \in 1..(n - 1) /\ i \in 1..Len(tail) /\ i + 1 \in 1..Len(tail) /\ d + (i + 1) - 1 = (d + i - 1) + 1
    BY <1>1, <1>4, <1>6
  <2>2. ValidChild(hs[d + i - 1], hs[(d + i - 1) + 1])
    BY <1>2, <2>1 DEF Linked, n
  <2>3. tail[i] = hs[d + i - 1] /\ tail[i + 1] = hs[(d + i - 1) + 1]
    BY <1>6, <2>1
  <2> QED
    BY <2>2, <2>3
<1>8. tail[1] = hs[d] /\ Number[tail[1]] = s + d - 1
  <2>1. 1 \in 1..Len(tail) /\ d + 1 - 1 = d
    BY <1>1, <1>4, <1>6
  <2>2. tail[1] = hs[d]
    BY <1>6, <2>1
  <2> QED
    BY <1>1, <1>4, <2>2
<1>9. Follows(hs[d])
  BY <1>4, <1>5, NextFollows DEF hs, n, Fetched
<1>10. ValidateReplacement(tail)
  BY <1>7, <1>8, <1>9 DEF ValidateReplacement, Follows
<1> QED
  BY <1>4, <1>5, <1>6, <1>10 DEF tail, d, n, hs

LEMMA TakeSnapshotInv == ASSUME SyncInv, TakeSnapshot PROVE SyncInv'
<1> DEFINE hs == round.headers
           n == Len(hs)
<1>1. /\ at[Sync] = "snapshot" /\ inbound # << >> /\ inbound' = Tail(inbound)
      /\ UNCHANGED <<cacheVars, peers, heights, localHeight, synced, asked, tip>>
  BY DEF TakeSnapshot, Received, cache, counts
<1>2. inbound' \in Seq(Messages) /\ WireInv'
  BY <1>1, Popped
<1>3. accounts.vouched \in ever \cup {None} /\ localHeight \in Nat /\ synced \in Nat
  BY <1>1 DEF SyncInv, TypeInv, StoreInv, Vouching, Storing
<1>4. CASE Stay(Sync) /\ UNCHANGED <<accounts, todo>>
  BY <1>1, <1>2, <1>3, <1>4, Ends
<1>5. CASE /\ UNCHANGED round /\ accounts'.vouched = Last(hs)
           /\ \/ CallReplace(Sync, SubSeq(hs, Min(Divergence(hs)), n)) /\ Divergence(hs) # {}
              \/ todo' = [todo EXCEPT ![Sync] = hs] /\ Goto(Sync, "check") /\ Divergence(hs) = {}
  <2>0. hs \in Seq(Blocks) /\ n \in Nat \ {0}
    BY <1>1, RoundNumbers DEF Fetched
  <2>1. /\ at' \in [Threads -> Steps] /\ todo' \in [Threads -> Seq(Blocks)]
        /\ at'[Sync] \in {"split", "check"}
        /\ at'[Sync] = "check" => Divergence(hs) = {}
        /\ LET left == Len(todo'[Sync])
           IN  /\ left \in 1..n /\ \A j \in 1..left : todo'[Sync][j] = hs[n - left + j]
               /\ \A i \in 1..(n - left) : Held(hs[i])
    <3>1. CASE CallReplace(Sync, SubSeq(hs, Min(Divergence(hs)), n)) /\ Divergence(hs) # {}
      <4> DEFINE d == Min(Divergence(hs))
                 tail == SubSeq(hs, d, n)
      <4>1. at' \in [Threads -> Steps] /\ at'[Sync] = "split"
        BY <3>1, Goes DEF CallReplace, Steps, Fetched, Vouching
      <4>2. todo' = [todo EXCEPT ![Sync] = tail]
        BY <3>1 DEF CallReplace
      <4>3. /\ d \in 1..n /\ tail \in Seq(Blocks) /\ Len(tail) = n - d + 1
            /\ \A j \in 1..Len(tail) : tail[j] = hs[d + j - 1]
            /\ \A i \in 1..(d - 1) : Held(hs[i])
        BY <1>1, <3>1, TailFits
      <4> HIDE DEF d, tail, n, hs
      <4>4. todo' \in [Threads -> Seq(Blocks)] /\ todo'[Sync] = tail
        BY <4>2, <4>3, SyncAssumption DEF SyncInv, TypeInv
      <4>5. Len(tail) \in 1..n /\ n - Len(tail) = d - 1
        BY <2>0, <4>3
      <4>6. ASSUME NEW j \in 1..Len(tail) PROVE tail[j] = hs[n - Len(tail) + j]
        <5>1. d + j - 1 = n - Len(tail) + j
          BY <2>0, <4>3, <4>5
        <5> QED
          BY <4>3, <5>1
      <4> QED
        BY <4>1, <4>3, <4>4, <4>5, <4>6
    <3>2. CASE todo' = [todo EXCEPT ![Sync] = hs] /\ Goto(Sync, "check") /\ Divergence(hs) = {}
      <4>1. at' \in [Threads -> Steps] /\ at'[Sync] = "check"
        BY <3>2, Goes DEF Steps, Fetched, Vouching, Storing
      <4>2. todo' \in [Threads -> Seq(Blocks)] /\ todo'[Sync] = hs
        BY <2>0, <3>2, SyncAssumption DEF SyncInv, TypeInv
      <4> HIDE DEF n, hs
      <4>3. Len(hs) = n /\ n \in 1..n /\ n - n = 0
        BY <2>0 DEF n
      <4> QED
        BY <2>0, <3>2, <4>1, <4>2, <4>3, SMTT(30)
    <3> QED
      BY <1>5, <3>1, <3>2
  <2>2. TypeInv' /\ CacheInv' /\ TipInv'
    BY <1>1, <1>2, <1>5, <2>1 DEF SyncInv, TypeInv, CacheInv, TipInv, cacheVars, FromRoot, Linked
  <2>3. RoundInv'
    BY <1>1, <1>5, <2>1 DEF SyncInv, RoundInv, Fetched, FirstFits, cacheVars, OnChain, Linked
  <2>4. LeftOver(Sync)'
    BY <1>1, <1>5, <2>1 DEF LeftOver, Held, cacheVars
  <2>5. at'[Sync] \in Storing => (Divergence(round.headers) = {})'
    BY <1>1, <1>5, <2>1 DEF Divergence, cacheVars, Storing
  <2>6. StoreInv'
    BY <1>5, <2>1, <2>4, <2>5 DEF StoreInv, Vouching, Storing, Last
  <2> QED
    BY <1>2, <2>2, <2>3, <2>6 DEF SyncInv
<1>6. Divergence(hs) # {} => ValidateReplacement(SubSeq(hs, Min(Divergence(hs)), n))
  BY <1>1, TailFits
<1> QED
  BY <1>4, <1>5, <1>6 DEF TakeSnapshot, Fail, AccountsOf

LEMMA FinishInv == ASSUME SyncInv, Finish PROVE SyncInv'
<1> DEFINE last == Last(round.headers)
<1>1. at[Sync] = "stored"
  BY SyncAssumption DEF Finish, SyncInv, TypeInv, Steps, Fetched, Vouching, Storing
<1>2. /\ Stay(Sync) /\ todo' = [todo EXCEPT ![Sync] = << >>]
      /\ UNCHANGED <<cacheVars, peers, heights, tip, asked, inbound, accounts>>
      /\ localHeight' = Number[last] /\ synced' = Number[last]
  BY <1>1 DEF Finish, cache, wire
<1>3. last \in Blocks /\ Held(last) /\ accounts.vouched = last
  <2>1. Len(round.headers) \in DOMAIN round.headers /\ last \in Blocks
    BY <1>1, RoundNumbers DEF Fetched, Vouching, Last
  <2> QED
    BY <1>1, <2>1 DEF SyncInv, StoreInv, Vouching, Last
<1>4. accounts'.vouched \in ever \cup {None}
  BY <1>2, <1>3 DEF Held, SyncInv, CacheInv, Range
<1>5. Number[last] \in Nat
  BY <1>3, CacheAssumption
<1>6. at' \in [Threads -> Steps] /\ at'[Sync] = "tick"
  BY <1>2, Goes DEF Stay, Steps
<1>7. round' \in Rounds
  BY <1>2 DEF Stay, NoRound, Rounds
<1>8. TypeInv'
  <2>1. todo' \in [Threads -> Seq(Blocks)]
    <3>1. << >> \in Seq(Blocks) /\ todo \in [Threads -> Seq(Blocks)]
      BY DEF SyncInv, TypeInv
    <3> QED
      BY <1>2, <3>1
  <2> QED
    BY <1>2, <1>5, <1>6, <1>7, <2>1 DEF SyncInv, TypeInv
<1>9. WireInv'
  BY <1>2 DEF SyncInv, WireInv, Truthful, OnChain
<1> QED
  BY <1>2, <1>4, <1>6, <1>8, <1>9, Resting

\* The block to store next is the header after those that are in the cache.
LEMMA NextHeader ==
  ASSUME SyncInv, at[Sync] \in {"split"} \cup Storing
  PROVE  LET hs == round.headers
             b == Head(todo[Sync])
             k == Len(hs) - Len(todo[Sync]) + 1
         IN  /\ todo[Sync] \in Seq(Blocks) /\ Len(todo[Sync]) \in 1..Len(hs)
             /\ k \in 1..Len(hs) /\ b = hs[k] /\ b \in Blocks /\ Number[b] = round.start + k - 1
             /\ \A i \in 1..(k - 1) : Held(hs[i])
             /\ Follows(b)
<1> DEFINE hs == round.headers
           n == Len(hs)
           left == Len(todo[Sync])
           k == n - left + 1
<1>0. at[Sync] \in Fetched
  BY DEF Fetched, Vouching
<1>1. /\ n \in Nat \ {0} /\ \A i \in 1..n : Number[hs[i]] = round.start + i - 1 /\ hs[i] \in Blocks
  BY <1>0, RoundNumbers
<1>2. /\ left \in 1..n /\ \A j \in 1..left : todo[Sync][j] = hs[n - left + j]
      /\ \A i \in 1..(n - left) : Held(hs[i])
  BY DEF SyncInv, StoreInv, LeftOver
<1>3. todo[Sync] \in Seq(Blocks)
  BY SyncAssumption DEF SyncInv, TypeInv
<1>4. Head(todo[Sync]) = todo[Sync][1] /\ 1 \in 1..left
  BY <1>1, <1>2, <1>3
<1> HIDE DEF hs, n, left
<1>5. k \in 1..n /\ n - left + 1 = k /\ n - left = k - 1
  BY <1>1, <1>2
<1>6. Head(todo[Sync]) = hs[k]
  BY <1>2, <1>4, <1>5
<1>7. \A i \in 1..(k - 1) : Held(hs[i])
  BY <1>2, <1>5
<1>8. Follows(hs[k])
  BY <1>0, <1>5, <1>7, NextFollows DEF hs, n
<1> QED
  BY <1>1, <1>2, <1>3, <1>5, <1>6, <1>7, <1>8 DEF hs, n, left

HeldIn(chain, b) == Number[b] \in DOMAIN chain /\ chain[Number[b]] = b

\* The task goes on with its store, on the same round.
LEMMA StoreGoesOn ==
  ASSUME SyncInv, UNCHANGED <<round, accounts, tip, peers, heights, asked, inbound, localHeight>>, synced' \in Nat,
         at[Sync] \in {"split"} \cup Storing, NEW s \in Storing \cup {"stored"}, Goto(Sync, s),
         todo' \in [Threads -> Seq(Blocks)], CacheInv',
         FirstFits(round.start, round.headers)', (Divergence(round.headers) = {})',
         s # "stored" => LeftOver(Sync)',
         s = "stored" => (\A i \in DOMAIN round.headers : Held(round.headers[i]))'
  PROVE  SyncInv'
<1>1. at' \in [Threads -> Steps] /\ at'[Sync] = s /\ s \in Vouching
  BY Goes DEF Steps, Fetched, Vouching
<1>2. TypeInv' /\ TipInv'
  BY <1>1 DEF SyncInv, TypeInv, TipInv, Storing
<1>3. WireInv'
  BY DEF SyncInv, WireInv, Truthful, OnChain
<1>4. RoundInv'
  BY <1>1 DEF SyncInv, RoundInv, Fetched, Vouching, OnChain, Linked
<1>5. accounts.vouched = Last(round.headers)
  BY DEF SyncInv, StoreInv, Vouching
<1>6. StoreInv'
  BY <1>1, <1>5 DEF StoreInv, Vouching, Storing, Last
<1> QED
  BY <1>2, <1>3, <1>4, <1>6 DEF SyncInv

\* A block less to store: it is in the cache.
LEMMA OneLess ==
  ASSUME SyncInv, at[Sync] \in Storing, UNCHANGED round, todo' = [todo EXCEPT ![Sync] = Tail(@)],
         Len(todo[Sync]) # 1,
         \A i \in 1..(Len(round.headers) - Len(todo[Sync]) + 1) : HeldIn(blocks', round.headers[i])
  PROVE  todo' \in [Threads -> Seq(Blocks)] /\ LeftOver(Sync)'
<1> DEFINE hs == round.headers
           n == Len(hs)
           td == todo[Sync]
           left == Len(td)
<1>1. /\ td \in Seq(Blocks) /\ left \in 1..n /\ left # 1
      /\ \A i \in 1..(n - left + 1) : HeldIn(blocks', hs[i])
  BY NextHeader
<1>2. n \in Nat /\ \A j \in 1..left : td[j] = hs[n - left + j]
  <2>1. at[Sync] \in Fetched
    BY DEF Fetched, Vouching
  <2>2. \A j \in 1..left : td[j] = hs[n - left + j]
    BY DEF SyncInv, StoreInv, LeftOver
  <2>3. hs \in Seq(Blocks)
    BY <2>1, RoundNumbers
  <2>4. n \in Nat
    BY <2>3
  <2> QED
    BY <2>2, <2>4
<1>3. Tail(td) \in Seq(Blocks) /\ Len(Tail(td)) = left - 1 /\ \A j \in 1..(left - 1) : Tail(td)[j] = td[j + 1]
  BY <1>1
<1>4. todo' \in [Threads -> Seq(Blocks)] /\ todo'[Sync] = Tail(td)
  BY <1>3, SyncAssumption DEF SyncInv, TypeInv
<1> HIDE DEF hs, n, td, left
<1>5. left - 1 \in 1..n /\ n - (left - 1) = n - left + 1
  BY <1>1, <1>2
<1>6. ASSUME NEW j \in 1..(left - 1) PROVE Tail(td)[j] = hs[n - (left - 1) + j]
  <2>1. left \in Int /\ n \in Int /\ j \in Int /\ 1 <= j /\ j <= left - 1
    BY <1>1, <1>2
  <2>2. j + 1 \in 1..left /\ n - left + (j + 1) = n - (left - 1) + j
    BY <2>1
  <2>3. Tail(td)[j] = td[j + 1]
    BY <1>3
  <2>4. td[j + 1] = hs[n - left + (j + 1)]
    BY <1>2, <2>2
  <2> QED
    BY <2>2, <2>3, <2>4
<1>7. \A i \in 1..(n - (left - 1)) : HeldIn(blocks', hs[i])
  BY <1>1, <1>5
<1> DEFINE less == left - 1
<1>8. Len(Tail(td)) = less /\ less \in 1..n /\ \A j \in 1..less : Tail(td)[j] = hs[n - less + j]
  BY <1>3, <1>5, <1>6
<1>9. \A i \in 1..(n - less) : HeldIn(blocks', hs[i])
  BY <1>7
<1> HIDE DEF less
<1>10. round'.headers = hs /\ Len(round'.headers) = n /\ Len(todo'[Sync]) = less
  BY <1>4, <1>8 DEF hs, n
<1>11. LeftOver(Sync)'
  <2>1. (Len(todo[Sync]) \in 1..Len(round.headers))'
    BY <1>8, <1>10
  <2>2. (\A j \in 1..Len(todo[Sync]) : todo[Sync][j] = round.headers[Len(round.headers) - Len(todo[Sync]) + j])'
    BY <1>4, <1>8, <1>10
  <2>3. (\A i \in 1..(Len(round.headers) - Len(todo[Sync])) : Held(round.headers[i]))'
    BY <1>9, <1>10 DEF HeldIn, Held
  <2> QED
    BY <2>1, <2>2, <2>3 DEF LeftOver
<1> QED
  BY <1>4, <1>11

\* A header whose block the cache has is passed over.
LEMMA PassOverInv ==
  ASSUME SyncInv, at[Sync] = "check", Held(Head(todo[Sync])), Store
  PROVE  SyncInv'
<1> DEFINE hs == round.headers
           left == Len(todo[Sync])
           k == Len(hs) - left + 1
           s == IF left = 1 THEN "stored" ELSE "check"
<1>0. at[Sync] \in Storing /\ at[Sync] \in Fetched
  BY DEF Fetched, Vouching, Storing
<1>1. /\ todo' = [todo EXCEPT ![Sync] = Tail(@)] /\ Goto(Sync, s)
      /\ UNCHANGED <<blocks, ever, round, accounts, tip, peers, heights, asked, inbound, localHeight, synced>>
  BY DEF Store, cache, cacheVars, peerVars, wire
<1>2. /\ todo[Sync] \in Seq(Blocks) /\ left \in 1..Len(hs) /\ k \in 1..Len(hs) /\ Head(todo[Sync]) = hs[k]
      /\ \A i \in 1..(k - 1) : Held(hs[i])
  BY <1>0, NextHeader
<1>3. hs \in Seq(Blocks) /\ Len(hs) \in Nat /\ DOMAIN hs = 1..Len(hs)
  <2>1. hs \in Seq(Blocks)
    BY <1>0, RoundNumbers
  <2> QED
    BY <2>1
<1>4. \A i \in 1..k : Held(hs[i])
  <2>1. Held(hs[k])
    BY <1>2
  <2> HIDE DEF hs, k, left
  <2>2. ASSUME NEW i \in 1..k PROVE i = k \/ i \in 1..(k - 1)
    BY <1>2, <1>3
  <2> QED
    BY <1>2, <2>1, <2>2
<1>5. \A i \in 1..k : HeldIn(blocks', hs[i])
  BY <1>1, <1>4 DEF Held, HeldIn
<1>6. CacheInv' /\ FirstFits(round.start, round.headers)' /\ (Divergence(round.headers) = {})'
  BY <1>0, <1>1 DEF SyncInv, CacheInv, FromRoot, Linked, RoundInv, StoreInv, FirstFits, Divergence
<1>7. synced' \in Nat /\ todo' \in [Threads -> Seq(Blocks)]
  <2>1. Tail(todo[Sync]) \in Seq(Blocks)
    BY <1>2
  <2> QED
    BY <1>1, <2>1 DEF SyncInv, TypeInv
<1>8. left # 1 => LeftOver(Sync)'
  BY <1>0, <1>1, <1>5, OneLess
<1>9. left = 1 => (\A i \in DOMAIN round.headers : Held(round.headers[i]))'
  <2>1. left = 1 => k = Len(hs)
    BY <1>3
  <2> HIDE DEF k, hs, left
  <2>2. left = 1 => \A i \in DOMAIN hs : HeldIn(blocks', hs[i])
    BY <1>3, <1>5, <2>1
  <2> QED
    BY <1>1, <2>2 DEF Held, HeldIn, hs
<1>10. s \in Storing \cup {"stored"} /\ (s = "stored" <=> left = 1)
  BY DEF Storing
<1> HIDE DEF s, hs, left
<1> QED
  BY <1>0, <1>1, <1>6, <1>7, <1>8, <1>9, <1>10, StoreGoesOn

\* At the height of the block to store, the cache has no other.
LEMMA NotElsewhere ==
  ASSUME SyncInv, at[Sync] \in Storing
  PROVE  Number[Head(todo[Sync])] \in DOMAIN blocks => Held(Head(todo[Sync]))
<1> DEFINE hs == round.headers
           k == Len(hs) - Len(todo[Sync]) + 1
<1>1. k \in 1..Len(hs) /\ Head(todo[Sync]) = hs[k]
  BY NextHeader
<1>2. DOMAIN hs = 1..Len(hs)
  <2>1. hs \in Seq(Blocks)
    BY RoundNumbers DEF Fetched, Vouching
  <2> QED
    BY <2>1
<1>3. Divergence(hs) = {}
  BY DEF SyncInv, StoreInv
<1> HIDE DEF hs, k
<1> QED
  BY <1>1, <1>2, <1>3 DEF Divergence, Held

\* Before a block is stored: it passes, and its record is written.
LEMMA RecordInv ==
  ASSUME SyncInv, Store, Check(Sync) \/ Begin(Sync) \/ Rest(Sync) \/ Newline(Sync)
  PROVE  SyncInv'
<1> DEFINE b == Head(todo[Sync])
<1>0. at[Sync] \in Storing /\ at[Sync] # "insert"
  BY DEF Check, Begin, Rest, Newline, Storing
<1>1. UNCHANGED <<blocks, ever, todo, round, accounts, tip, peers, heights, asked, inbound, localHeight, synced>>
  <2>1. UNCHANGED <<round, accounts, tip, peers, heights, asked, inbound, localHeight>>
    BY DEF Store, peerVars, wire
  <2>2. UNCHANGED <<blocks, ever, todo>>
    BY DEF Check, Begin, Rest, Newline, cacheVars
  <2>3. synced' = synced
    BY <1>0 DEF Store
  <2> QED
    BY <2>1, <2>2, <2>3
<1>2. Follows(b) /\ b \in Blocks
  BY <1>0, NextHeader
<1>3. Number[b] \in DOMAIN blocks => Held(b)
  BY <1>0, NotElsewhere
<1>4. ValidateInsert(b)
  <2>1. Number[b] = 1 => 0 \notin DOMAIN blocks
    BY DEF SyncInv, CacheInv
  <2> HIDE DEF b
  <2> QED
    BY <1>2, <1>3, <2>1 DEF Follows, ValidateInsert, Held
<1>5. PICK s \in Storing : Goto(Sync, s)
  BY <1>4 DEF Check, Begin, Rest, Newline, Storing
<1>6. CacheInv' /\ FirstFits(round.start, round.headers)' /\ (Divergence(round.headers) = {})' /\ LeftOver(Sync)'
  BY <1>0, <1>1 DEF SyncInv, CacheInv, FromRoot, Linked, RoundInv, StoreInv, FirstFits, Divergence,
                    LeftOver, Held, Fetched, Vouching
<1>7. synced' \in Nat /\ todo' \in [Threads -> Seq(Blocks)] /\ s # "stored"
  BY <1>1, <1>5 DEF SyncInv, TypeInv, Storing
<1> QED
  BY <1>0, <1>1, <1>5, <1>6, <1>7, StoreGoesOn

\* A block that goes on from the cache is added to it, or is already in it.
LEMMA Inserted ==
  ASSUME SyncInv, NothingEvicted', NEW b \in Blocks, Follows(b), Number[b] \in DOMAIN blocks => Held(b),
         blocks' = WithBlock(b), ever' = ever \cup {b}
  PROVE  CacheInv' /\ DOMAIN blocks' = DOMAIN blocks \cup {Number[b]}
         /\ HeldIn(blocks', b) /\ \A h \in DOMAIN blocks : blocks'[h] = blocks[h]
<1> DEFINE n == Len(blocks)
<1>1. /\ blocks \in Seq(Blocks) /\ n \in Nat /\ DOMAIN blocks = 1..n /\ \A h \in 1..n : blocks[h] \in Blocks
      /\ FromRoot(blocks) /\ Range(blocks) \subseteq ever /\ ever \subseteq Blocks
  BY DEF SyncInv, CacheInv
<1>2. \A h \in 1..n : Number[blocks[h]] = h
  BY <1>1, RootNumbers
<1>3. Number[b] \in Nat \ {0} /\ MaxBlocks \in Nat
  BY CacheAssumption
<1>4. DOMAIN blocks \cup {Number[b]} \subseteq 1..MaxBlocks
  <2>1. Number[b] <= MaxBlocks
    BY DEF NothingEvicted
  <2>2. ASSUME NEW h \in 1..n PROVE h <= MaxBlocks
    <3>1. blocks[h] \in ever'
      BY <1>1 DEF Range
    <3>2. Number[blocks[h]] <= MaxBlocks
      BY <3>1, CacheAssumption DEF NothingEvicted
    <3> QED
      BY <1>2, <3>2
  <2> QED
    BY <1>1, <1>3, <2>1, <2>2
<1>5. blocks' = [h \in DOMAIN blocks \cup {Number[b]} |-> IF h = Number[b] THEN b ELSE blocks[h]]
  BY <1>4, KeptAll DEF WithBlock
<1>6. DOMAIN blocks' = DOMAIN blocks \cup {Number[b]} /\ HeldIn(blocks', b) /\ \A h \in DOMAIN blocks : blocks'[h] = blocks[h]
  BY <1>5 DEF Held, HeldIn
<1>7. ever' \subseteq Blocks /\ Range(blocks') \subseteq ever'
  <2>1. ASSUME NEW h \in DOMAIN blocks' PROVE blocks'[h] \in ever'
    <3>1. h \in DOMAIN blocks => blocks[h] \in ever
      BY <1>1 DEF Range
    <3> HIDE DEF n
    <3> QED
      BY <1>5, <3>1
  <2> QED
    BY <1>1, <2>1 DEF Range
<1> HIDE DEF n
<1>8. CASE Number[b] \in DOMAIN blocks
  <2>1. blocks' = blocks
    BY <1>1, <1>5, <1>8 DEF Held
  <2> QED
    BY <1>1, <1>6, <1>7, <2>1 DEF CacheInv, FromRoot, Linked
<1>9. CASE Number[b] \notin DOMAIN blocks
  <2>1. Number[b] = n + 1 /\ (n = 0 => ValidChild(Root, b)) /\ (n # 0 => ValidChild(blocks[n], b))
    BY <1>1, <1>3, <1>9 DEF Follows
  <2>2. /\ DOMAIN blocks' = 1..(n + 1) /\ n + 1 \in Nat /\ \A h \in 1..n : blocks'[h] = blocks[h]
        /\ blocks'[n + 1] = b
    BY <1>1, <1>6, <2>1 DEF HeldIn
  <2>3. ASSUME NEW h \in 1..(n + 1) PROVE blocks'[h] \in Blocks
    BY <1>1, <2>2
  <2>4. blocks' = [h \in 1..(n + 1) |-> blocks'[h]]
    BY <1>5, <2>2
  <2>5. blocks' \in Seq(Blocks) /\ Len(blocks') = n + 1
    BY <2>2, <2>3, <2>4
  <2>6. ASSUME NEW i \in 1..n PROVE ValidChild(blocks'[i], blocks'[i + 1])
    <3>1. CASE i = n
      BY <1>1, <2>1, <2>2, <3>1
    <3>2. CASE i # n
      <4>1. i \in 1..(n - 1) /\ i + 1 \in 1..n
        BY <1>1, <3>2
      <4>2. ValidChild(blocks[i], blocks[i + 1])
        BY <1>1, <4>1 DEF FromRoot, Linked, n
      <4> QED
        BY <2>2, <4>1, <4>2
    <3> QED
      BY <3>1, <3>2
  <2>7. ValidChild(Root, blocks'[1])
    <3>1. CASE n = 0
      BY <2>1, <2>2, <3>1
    <3>2. CASE n # 0
      <4>1. 1 \in 1..n /\ blocks # << >>
        BY <1>1, <3>2 DEF n
      <4> QED
        BY <1>1, <2>2, <4>1 DEF FromRoot
    <3> QED
      BY <3>1, <3>2
  <2>8. (n + 1) - 1 = n
    BY <1>1
  <2>9. FromRoot(blocks)'
    BY <2>5, <2>6, <2>7, <2>8 DEF FromRoot, Linked, ValidChild
  <2>10. CacheInv'
    BY <1>7, <2>5, <2>9 DEF CacheInv
  <2> QED
    BY <1>6, <2>10
<1> QED
  BY <1>8, <1>9

\* What the round was checked for still holds after a block of it is stored.
LEMMA InsertInv ==
  ASSUME SyncInv, NothingEvicted', Store, Insert(Sync)
  PROVE  SyncInv'
<1> DEFINE hs == round.headers
           left == Len(todo[Sync])
           k == Len(hs) - left + 1
           b == Head(todo[Sync])
           s == IF left = 1 THEN "stored" ELSE "check"
<1>0. at[Sync] \in Storing /\ at[Sync] \in Fetched /\ at[Sync] = "insert"
  BY DEF Insert, Fetched, Vouching, Storing
<1>1. /\ todo' = [todo EXCEPT ![Sync] = IF Len(@) = 1 THEN @ ELSE Tail(@)] /\ Goto(Sync, s)
      /\ UNCHANGED <<round, accounts, tip, peers, heights, asked, inbound, localHeight>>
      /\ synced' = Max({synced, Number[b]}) /\ blocks' = WithBlock(b) /\ ever' = ever \cup {b}
  BY <1>0 DEF Store, Insert, peerVars, wire
<1>2. /\ todo[Sync] \in Seq(Blocks) /\ left \in 1..Len(hs) /\ k \in 1..Len(hs) /\ b = hs[k] /\ b \in Blocks
      /\ Number[b] = round.start + k - 1 /\ \A i \in 1..(k - 1) : Held(hs[i])
      /\ Follows(b)
  BY <1>0, NextHeader
<1>3. /\ Len(hs) \in Nat /\ DOMAIN hs = 1..Len(hs) /\ round.start \in Nat
      /\ \A i \in 1..Len(hs) : Number[hs[i]] = round.start + i - 1
  <2>1. hs \in Seq(Blocks)
    BY <1>0, RoundNumbers
  <2>2. \A i \in 1..Len(hs) : Number[hs[i]] = round.start + i - 1
    BY <1>0, RoundNumbers
  <2>3. round.start \in Nat
    BY <1>0, RoundNumbers
  <2> QED
    BY <2>1, <2>2, <2>3
<1>4. /\ CacheInv' /\ DOMAIN blocks' = DOMAIN blocks \cup {Number[b]}
      /\ HeldIn(blocks', b) /\ \A h \in DOMAIN blocks : blocks'[h] = blocks[h]
  <2> HIDE DEF b
  <2>1. Number[b] \in DOMAIN blocks => Held(b)
    BY <1>0, NotElsewhere DEF b
  <2> QED
    BY <1>1, <1>2, <2>1, Inserted
<1>5. Divergence(hs) = {} /\ FirstFits(round.start, hs)
  BY <1>0 DEF SyncInv, StoreInv, RoundInv
<1> HIDE DEF hs, left, k, b
<1>6. ASSUME NEW i \in 1..k PROVE HeldIn(blocks', hs[i])
  <2>1. i = k \/ i \in 1..(k - 1)
    BY <1>2, <1>3
  <2>2. Held(hs[i]) => HeldIn(blocks', hs[i])
    BY <1>4 DEF Held, HeldIn
  <2> QED
    BY <1>2, <1>4, <2>1, <2>2
<1>7. FirstFits(round.start, round.headers)'
  BY <1>1, <1>4, <1>5 DEF FirstFits, hs
<1>8. (Divergence(round.headers) = {})'
  <2>1. ASSUME NEW i \in DOMAIN hs, Number[hs[i]] \in DOMAIN blocks' PROVE blocks'[Number[hs[i]]] = hs[i]
    <3>1. CASE Number[hs[i]] \in DOMAIN blocks
      BY <1>4, <1>5, <3>1 DEF Divergence
    <3>2. CASE Number[hs[i]] = Number[b]
      <4>1. round.start + i - 1 = round.start + k - 1
        BY <1>2, <1>3, <3>2
      <4>2. i = k
        BY <1>2, <1>3, <4>1
      <4> QED
        BY <1>2, <1>4, <4>2 DEF HeldIn
    <3> QED
      BY <1>4, <2>1, <3>1, <3>2
  <2>2. round'.headers = hs
    BY <1>1 DEF hs
  <2> QED
    BY <2>1, <2>2 DEF Divergence
<1>9. synced' \in Nat
  <2>1. synced \in Nat /\ Number[b] \in Nat
    BY <1>2, CacheAssumption DEF SyncInv, TypeInv
  <2>2. Max({synced, Number[b]}) \in {synced, Number[b]}
    BY <2>1, Larger
  <2> QED
    BY <1>1, <2>1, <2>2 DEF b
<1>10. left # 1 => todo' \in [Threads -> Seq(Blocks)] /\ LeftOver(Sync)'
  <2>1. left # 1 => todo' = [todo EXCEPT ![Sync] = Tail(@)]
    BY <1>1 DEF left
  <2> QED
    BY <1>0, <1>1, <1>6, <2>1, OneLess DEF k, hs, left
<1>11. left = 1 => /\ todo' \in [Threads -> Seq(Blocks)]
                   /\ (\A i \in DOMAIN round.headers : Held(round.headers[i]))'
  <2> SUFFICES ASSUME left = 1 PROVE /\ todo' \in [Threads -> Seq(Blocks)]
                                     /\ (\A i \in DOMAIN round.headers : Held(round.headers[i]))'
    OBVIOUS
  <2>1. k = Len(hs)
    BY <1>3 DEF k
  <2>2. \A i \in DOMAIN hs : HeldIn(blocks', hs[i])
    BY <1>3, <1>6, <2>1
  <2>3. todo' \in [Threads -> Seq(Blocks)]
    BY <1>1 DEF left, SyncInv, TypeInv
  <2> QED
    BY <1>1, <2>2, <2>3 DEF Held, HeldIn, hs
<1>12. s \in Storing \cup {"stored"} /\ (s = "stored" <=> left = 1)
  BY DEF Storing
<1> HIDE DEF s
<1> QED
  BY <1>0, <1>1, <1>4, <1>7, <1>8, <1>9, <1>10, <1>11, <1>12, StoreGoesOn

\* Before a tail is replaced the cache ends below it.
LEMMA SplitInv == ASSUME SyncInv, Store, Split(Sync) PROVE SyncInv'
<1> DEFINE hs == round.headers
           k == Len(hs) - Len(todo[Sync]) + 1
           b == Head(todo[Sync])
           n == Number[b] - 1
<1>0. at[Sync] = "split" /\ at[Sync] \in Fetched
  BY DEF Split, Fetched, Vouching
<1>1. /\ Goto(Sync, "check") /\ blocks' = Restrict(blocks, {h \in DOMAIN blocks : h < Number[b]})
      /\ UNCHANGED <<round, accounts, tip, peers, heights, asked, inbound, localHeight, synced, todo, ever>>
  BY <1>0 DEF Store, Split, peerVars, wire
<1>2. /\ k \in 1..Len(hs) /\ b = hs[k] /\ b \in Blocks
      /\ Number[b] = round.start + k - 1 /\ \A i \in 1..(k - 1) : Held(hs[i])
      /\ Follows(b)
  BY <1>0, NextHeader
<1>3. /\ Len(hs) \in Nat /\ DOMAIN hs = 1..Len(hs) /\ round.start \in Nat \ {0}
      /\ \A i \in 1..Len(hs) : Number[hs[i]] = round.start + i - 1
  <2>1. hs \in Seq(Blocks)
    BY <1>0, RoundNumbers
  <2>2. \A i \in 1..Len(hs) : Number[hs[i]] = round.start + i - 1
    BY <1>0, RoundNumbers
  <2>3. round.start \in Nat \ {0}
    BY <1>0, RoundNumbers
  <2> QED
    BY <2>1, <2>2, <2>3
<1>4. FirstFits(round.start, hs) /\ LeftOver(Sync)
  BY <1>0 DEF SyncInv, StoreInv, RoundInv
<1>5. /\ blocks \in Seq(Blocks) /\ Len(blocks) \in Nat /\ DOMAIN blocks = 1..Len(blocks)
      /\ FromRoot(blocks) /\ Range(blocks) \subseteq ever /\ ever \subseteq Blocks
  BY DEF SyncInv, CacheInv
<1>6. n \in 0..Len(blocks) /\ Number[b] = n + 1
  <2>1. Number[b] \in Nat \ {0}
    BY <1>2, CacheAssumption
  <2>2. Number[b] = 1 \/ Number[b] - 1 \in DOMAIN blocks
    BY <1>2 DEF Follows
  <2> HIDE DEF b
  <2> QED
    BY <1>5, <2>1, <2>2
<1> HIDE DEF n, b, hs, k
<1>7. blocks' = [h \in 1..n |-> blocks[h]]
  <2>1. {h \in DOMAIN blocks : h < Number[b]} = 1..n
    BY <1>5, <1>6
  <2> QED
    BY <1>1, <2>1 DEF Restrict
<1>8. CacheInv'
  <2>1. blocks' \in Seq(Blocks) /\ Len(blocks') = n /\ n \in Nat
    BY <1>5, <1>6, <1>7
  <2>2. \A i \in 1..(n - 1) : ValidChild(blocks[i], blocks[i + 1])
    BY <1>5, <1>6 DEF FromRoot, Linked
  <2>3. \A i \in 1..(n - 1) : ValidChild(blocks'[i], blocks'[i + 1])
    <3>1. \A i \in 1..(n - 1) : i \in 1..n /\ i + 1 \in 1..n
      BY <2>1
    <3> QED
      BY <1>7, <2>2, <3>1
  <2>4. blocks' # << >> => ValidChild(Root, blocks'[1])
    <3> SUFFICES ASSUME blocks' # << >> PROVE ValidChild(Root, blocks'[1])
      OBVIOUS
    <3>1. 1 \in 1..n
      BY <2>1
    <3>2. blocks # << >> /\ blocks'[1] = blocks[1]
      BY <1>5, <1>6, <1>7, <3>1
    <3> QED
      BY <1>5, <3>2 DEF FromRoot
  <2>5. FromRoot(blocks)'
    BY <2>1, <2>3, <2>4 DEF FromRoot, Linked, ValidChild
  <2>6. Range(blocks') \subseteq ever'
    BY <1>1, <1>5, <1>6, <1>7 DEF Range
  <2> QED
    BY <1>1, <1>5, <2>1, <2>5, <2>6 DEF CacheInv
<1>9. ASSUME NEW i \in 1..(k - 1) PROVE HeldIn(blocks', hs[i])
  <2>1. i \in 1..Len(hs) /\ i < k
    BY <1>2, <1>3
  <2>2. Number[hs[i]] = round.start + i - 1 /\ Number[hs[i]] < Number[b]
    BY <1>2, <1>3, <2>1
  <2>3. Number[hs[i]] \in DOMAIN blocks /\ blocks[Number[hs[i]]] = hs[i]
    BY <1>2 DEF Held
  <2>4. Number[hs[i]] \in 1..n
    BY <1>5, <1>6, <2>2, <2>3
  <2> QED
    BY <1>7, <2>3, <2>4 DEF HeldIn
<1>10. LeftOver(Sync)'
  <2>1. Len(hs) - Len(todo[Sync]) = k - 1 /\ UNCHANGED <<round, todo>>
    BY <1>1, <1>3, <1>4 DEF k, hs, LeftOver
  <2>2. \A i \in 1..(Len(hs) - Len(todo[Sync])) : HeldIn(blocks', hs[i])
    BY <1>9, <2>1
  <2> QED
    BY <1>4, <2>1, <2>2 DEF LeftOver, Held, HeldIn, hs
<1>11. FirstFits(round.start, round.headers)'
  <2>1. round.start - 1 \in DOMAIN blocks => round.start - 1 \in 1..n
    BY <1>2, <1>3, <1>5, <1>6
  <2> QED
    BY <1>1, <1>4, <1>7, <2>1 DEF FirstFits, hs
<1>12. (Divergence(round.headers) = {})'
  <2>1. ASSUME NEW i \in DOMAIN hs, Number[hs[i]] \in DOMAIN blocks' PROVE blocks'[Number[hs[i]]] = hs[i]
    <3>1. i \in 1..Len(hs) /\ round.start + i - 1 \in 1..n
      BY <1>3, <1>7, <2>1
    <3>2. i \in 1..(k - 1)
      BY <1>2, <1>3, <1>6, <3>1
    <3> QED
      BY <1>9, <3>2 DEF HeldIn
  <2>2. round'.headers = hs
    BY <1>1 DEF hs
  <2> QED
    BY <2>1, <2>2 DEF Divergence
<1>13. synced' \in Nat /\ todo' \in [Threads -> Seq(Blocks)]
  BY <1>1 DEF SyncInv, TypeInv
<1>14. "check" \in Storing /\ "check" # "stored"
  BY DEF Storing
<1> QED
  BY <1>0, <1>1, <1>8, <1>10, <1>11, <1>12, <1>13, <1>14, StoreGoesOn

LEMMA StoreInvHolds == ASSUME SyncInv, NothingEvicted', Store PROVE SyncInv'
<1>1. CASE at[Sync] = "check" /\ Held(Head(todo[Sync]))
  BY <1>1, PassOverInv
<1>2. CASE ~(at[Sync] = "check" /\ Held(Head(todo[Sync])))
  <2>1. StoreStep(Sync)
    BY <1>2 DEF Store
  <2> QED
    BY <2>1, RecordInv, InsertInv, SplitInv DEF StoreStep
<1> QED
  BY <1>1, <1>2

LEMMA InitInv == ASSUME Init, NothingEvicted PROVE SyncInv
<1>1. /\ LocalChain \in Seq(Blocks) /\ FromRoot(LocalChain) /\ Len(LocalChain) \in Nat
      /\ DOMAIN LocalChain = 1..Len(LocalChain)
  BY SyncAssumption
<1>2. \A i \in 1..Len(LocalChain) : Number[LocalChain[i]] = i
  BY <1>1, RootNumbers
<1>3. DOMAIN LocalChain \subseteq 1..MaxBlocks
  <2>1. ASSUME NEW i \in 1..Len(LocalChain) PROVE i <= MaxBlocks
    <3>1. LocalChain[i] \in ever
      BY <1>1 DEF Init, Range
    <3>2. Number[LocalChain[i]] <= MaxBlocks
      BY <3>1 DEF NothingEvicted
    <3> QED
      BY <1>2, <3>2
  <2> QED
    BY <1>1, <2>1, CacheAssumption
<1>4. blocks = LocalChain
  <2>1. Kept(DOMAIN LocalChain) = DOMAIN LocalChain
    BY <1>3, KeptAll
  <2> QED
    BY <1>1, <2>1 DEF Init, CacheOf, Restrict
<1>5. CacheInv
  BY <1>1, <1>4 DEF Init, CacheInv, Range
<1>6. TypeInv
  <2>1. at \in [Threads -> Steps] /\ at[Sync] = "tick"
    BY SyncAssumption DEF Init, Steps
  <2>2. todo \in [Threads -> Seq(Blocks)] /\ inbound \in Seq(Messages)
    BY DEF Init
  <2>3. round \in Rounds
    BY DEF Init, NoRound, Rounds
  <2>4. heights \in [peers -> Nat] /\ tip \in [Honest -> Nat]
    BY SyncAssumption DEF Init
  <2> QED
    BY <1>1, <2>1, <2>2, <2>3, <2>4 DEF Init, TypeInv
<1>7. at[Sync] = "tick" /\ accounts.vouched = None
  BY SyncAssumption DEF Init
<1>8. TipInv /\ WireInv /\ RoundInv /\ StoreInv
  BY <1>7, SyncAssumption DEF Init, TipInv, WireInv, RoundInv, StoreInv, Fetched, Vouching, Storing
<1> QED
  BY <1>5, <1>6, <1>8 DEF SyncInv

-----------------------------------------------------------------------------
(* As long as nothing was evicted the invariant holds: the cache is one    *)
(* chain from the root, the headers of a round still fit it when they are  *)
(* stored, and whatever is left of them follows what was stored.           *)
THEOREM SyncInvariant == SyncSpec => [](NothingEvicted => SyncInv)
<1>1. Init => (NothingEvicted => SyncInv)
  BY InitInv
<1>2. ASSUME NothingEvicted => SyncInv, [Next]_syncVars
      PROVE  (NothingEvicted => SyncInv)'
  <2> SUFFICES ASSUME NothingEvicted' PROVE SyncInv'
    OBVIOUS
  <2>1. ever \subseteq ever'
    <3>1. CASE Store
      BY <3>1 DEF Store, StoreStep, Check, Begin, Rest, Newline, Insert, Split, cache, cacheVars
    <3>2. CASE UNCHANGED cache
      BY <3>2 DEF cache, cacheVars
    <3>3. Next /\ ~Store => UNCHANGED cache
      BY DEF Next, SyncStep, TickAlone, Tick, Skip, TakeHeaders, TakeBodies, TakeSnapshot, TakeRefresh, Finish,
             Timeout, Answer, Grow, Lie, Announce, Leave, Join
    <3> QED
      BY <1>2, <3>1, <3>2, <3>3 DEF syncVars
  <2>2. SyncInv
    BY <1>2, <2>1 DEF NothingEvicted
  <2>3. CASE SyncStep \/ Timeout
    BY <2>2, <2>3, WaitInv, TickInv, TakeHeadersInv, TakeBodiesInv, TakeSnapshotInv, TakeRefreshInv,
       StoreInvHolds, FinishInv DEF SyncStep
  <2>4. CASE \E p \in Honest : Answer(p)
    BY <2>2, <2>4, AnswerInv
  <2>5. CASE \E p \in Peers \ Honest : Lie(p)
    BY <2>2, <2>5, LieInv
  <2>6. CASE \/ \E p \in Honest : Grow(p)
             \/ \E p \in Peers : Announce(p) \/ Leave(p) \/ Join(p)
    BY <2>2, <2>6, PeersInv
  <2>7. CASE UNCHANGED syncVars
    <3>1. UNCHANGED <<cacheVars, at, todo, round, accounts, peers, heights, tip, localHeight, synced, asked, inbound>>
      BY <2>7 DEF syncVars, cache, peerVars, own, wire
    <3>2. TypeInv' /\ TipInv' /\ WireInv'
      BY <2>2, <3>1 DEF SyncInv, TypeInv, TipInv, WireInv, Truthful, OnChain
    <3> QED
      BY <2>2, <3>1, <3>2, Outside
  <2> QED
    BY <1>2, <2>3, <2>4, <2>5, <2>6, <2>7 DEF Next
<1> QED
  BY <1>1, <1>2, PTL DEF SyncSpec

(* A round that ends well with an honest peer leaves the node on that      *)
(* peer's chain: the last header is held and is a block of that chain, and *)
(* two chains from the root that meet at a block are the same below it.    *)
THEOREM EndsOnPeersChain == SyncSpec => []OnPeersChain
<1>1. ASSUME NothingEvicted => SyncInv PROVE OnPeersChain
  <2> SUFFICES ASSUME at[Sync] = "stored", round.peer \in Honest, NothingEvicted
               PROVE  \A h \in 1..Number[Last(round.headers)] :
                        h \in DOMAIN blocks /\ blocks[h] = ChainOf[round.peer][h]
    BY DEF OnPeersChain
  <2> DEFINE last == Last(round.headers)
             chain == ChainOf[round.peer]
             n == Number[last]
  <2>0. SyncInv /\ at[Sync] \in Fetched
    BY <1>1 DEF Fetched, Vouching
  <2>1. round.headers \in Seq(Blocks) /\ Len(round.headers) \in DOMAIN round.headers /\ last \in Blocks
    BY <2>0, RoundNumbers DEF Last
  <2>2. Held(last)
    BY <2>0, <2>1 DEF SyncInv, StoreInv, Last
  <2>3. n \in DOMAIN chain /\ last = chain[n]
    BY <2>0, <2>1 DEF SyncInv, RoundInv, OnChain, Last
  <2>4. chain \in Seq(Blocks) /\ FromRoot(chain) /\ blocks \in Seq(Blocks) /\ FromRoot(blocks)
    BY <2>0, SyncAssumption DEF SyncInv, CacheInv
  <2>5. n \in Nat /\ n <= Len(blocks) /\ n <= Len(chain) /\ blocks[n] = chain[n]
    BY <2>2, <2>3, <2>4 DEF Held
  <2> HIDE DEF n, chain
  <2>6. \A h \in 1..n : blocks[h] = chain[h]
    BY <2>4, <2>5, SameBelow
  <2>7. \A h \in 1..n : h \in DOMAIN blocks
    BY <2>4, <2>5
  <2> QED
    BY <2>6, <2>7 DEF n, chain
<1> QED
  BY <1>1, SyncInvariant, PTL

(* The accounts held between rounds belong to a block the cache has taken: *)
(* nothing that was checked before they were installed fails later.        *)
THEOREM AccountsBelongToBlock == SyncSpec => []AccountsHaveBlock
<1>1. ASSUME NothingEvicted => SyncInv PROVE AccountsHaveBlock
  BY <1>1 DEF AccountsHaveBlock, SyncInv, StoreInv, Vouching, Storing
<1> QED
  BY <1>1, SyncInvariant, PTL
=============================================================================
