----------------------------- MODULE HeaderSync -----------------------------
(***************************************************************************)
(* The header sync task of a node that mines nothing itself: it asks the   *)
(* best scored peer for headers after its head, probes further and further *)
(* back when they do not fit, fetches bodies and a state snapshot, installs *)
(* the snapshot's accounts and stores or replaces blocks in the cache of   *)
(* module BlockCache.  Peers answer when they like; a timeout may pass     *)
(* before their answer, which then waits in the inbound channel.           *)
(*                                                                         *)
(* at[Sync] is where the task is: "tick", the three waits, "refresh" (the  *)
(* wait of a node that has caught up) or a step of the store.              *)
(***************************************************************************)
EXTENDS BlockCache

CONSTANTS
  Sync,                  \* the task
  Peers, Honest,
  ChainOf,               \* of each honest peer: its blocks from height 1, in the end
  FirstTip,              \* how many of them it has at first
  LocalChain,            \* the blocks this node starts with
  Forged,                \* header lists the other peers send
  BatchLimit, ReorgLimit, LookBack,   \* SYNC_BATCH_LIMIT, SYNC_REORG_BATCH_LIMIT, SYNC_REORG_LOOKBACK_BLOCKS
  MaxScore,              \* scores stay within it (1000)
  MaxInbound,            \* messages the inbound channel holds
  MaxSlow, MaxLies, MaxLeaves,   \* bounds of the instance
  None

FromRoot(chain) == Linked(chain) /\ (chain # << >> => ValidChild(Root, chain[1]))

ASSUME SyncAssumption ==
  /\ Threads = {Sync} /\ IsFiniteSet(Peers) /\ Honest \subseteq Peers
  /\ None \notin Blocks \cup Peers
  /\ {BatchLimit, ReorgLimit, LookBack, MaxScore, MaxInbound, MaxSlow, MaxLies, MaxLeaves} \subseteq Nat
  /\ BatchLimit > 0 /\ ReorgLimit > 0
  /\ Forged \subseteq Seq(Blocks)
  /\ ChainOf \in [Honest -> Seq(Blocks)] /\ FirstTip \in [Honest -> Nat]
  /\ \A p \in Honest : FromRoot(ChainOf[p]) /\ FirstTip[p] <= Len(ChainOf[p])
  /\ LocalChain \in Seq(Blocks) /\ FromRoot(LocalChain)

VARIABLES
  peers, heights, scores,   \* PeerManager: connected peers, heads they announced, scores
  localHeight, synced,      \* local_height and GLOBAL_SYNCED_HEIGHT
  status,                   \* SyncState
  round,                    \* peer, heights and headers of the round under way
  asked,                    \* requests peers have not answered yet
  inbound,                  \* answers in the channel
  accounts,                 \* the account snapshot held, and the block that vouched for it
  tip,                      \* how many blocks of its chain each honest peer has
  slow, lies, leaves        \* timeouts before an answer, forged answers, disconnects

cache == <<cacheVars, journal>>
peerVars == <<peers, heights, scores>>
own == <<localHeight, synced, status>>
wire == <<asked, inbound>>
counts == <<slow, lies, leaves>>
syncVars == <<cache, at, todo, peerVars, own, round, wire, accounts, tip, counts>>

NoRound == [peer |-> None, local |-> 0, target |-> 0, lookback |-> 0, start |-> 0, headers |-> << >>]

Init ==
  /\ blocks = CacheOf(LocalChain)
  /\ ever = Range(LocalChain)
  /\ journal = << << >> >>
  /\ at = [t \in Threads |-> "tick"]
  /\ todo = [t \in Threads |-> << >>]
  /\ peers = {} /\ heights = << >> /\ scores = << >>
  /\ localHeight = Len(LocalChain) /\ synced = Len(LocalChain)
  /\ status = "Idle"
  /\ round = NoRound
  /\ asked = {} /\ inbound = << >>
  /\ accounts = [from |-> None, vouched |-> None]
  /\ tip = FirstTip
  /\ slow = 0 /\ lies = 0 /\ leaves = 0

Highest(S) == Max({0} \cup S)
ChainHead == Highest(DOMAIN blocks)
Stay(t) == Goto(t, "tick") /\ round' = NoRound

\* PeerManager::update_score: a peer that has left gets its entry back.
Scored(p, delta) ==
  LET old == IF p \in DOMAIN scores THEN scores[p] ELSE 0
      new == Min({MaxScore, Max({-MaxScore, old + delta})})
  IN  [q \in DOMAIN scores \cup {p} |-> IF q = p THEN new ELSE scores[q]]

BestPeers == {p \in peers : \A q \in peers : scores[p] >= scores[q]}

\* A failed round: Recovering, and the peer pays.
Fail(delta) ==
  /\ status' = "Recovering"
  /\ scores' = Scored(round.peer, delta)
  /\ Stay(Sync)

(***************************************************************************)
(* Requests: of so many headers from a height, of the bodies of a list of  *)
(* headers, of the snapshot for a height.  A peer that has left cannot be  *)
(* sent to.                                                                *)
(***************************************************************************)
Request(p, kind, start, what) == [to |-> p, kind |-> kind, start |-> start, what |-> what]
Send(r) == asked' = asked \cup {r}

Limit(local, target, start) ==
  IF start <= local THEN Max({1, Min({local - start + 1, ReorgLimit})})
                    ELSE Max({1, Min({target - start + 1, BatchLimit})})

ProbeStart(local, lookback) == IF lookback = 0 THEN local + 1 ELSE Max({1, local - lookback})

\* Asks for headers with the given look-back, or fails the round.
AskHeaders(r, lookback) ==
  LET start == ProbeStart(r.local, lookback)
  IN  IF r.peer \in peers
      THEN /\ Send(Request(r.peer, "headers", start, Limit(r.local, r.target, start)))
           /\ round' = [r EXCEPT !.lookback = lookback, !.start = start]
           /\ Goto(Sync, "headers")
           /\ UNCHANGED <<status, scores>>
      ELSE /\ status' = "Recovering" /\ scores' = Scored(r.peer, -8) /\ Stay(Sync)
           /\ UNCHANGED asked

TickAlone ==
  /\ at[Sync] = "tick" /\ peers = {}
  /\ status' = "Recovering"
  /\ UNCHANGED <<cache, at, todo, peerVars, localHeight, synced, round, wire, accounts, tip, counts>>

Tick ==
  LET local == Max({localHeight, synced, ChainHead})
      target == Highest(Range(heights))
  IN  /\ at[Sync] = "tick" /\ peers # {}
      /\ localHeight' = local
      /\ \E p \in BestPeers :
           IF local >= target
           THEN /\ status' = "Complete"
                /\ Send(Request(p, "snapshot", local, 1))
                /\ round' = [NoRound EXCEPT !.peer = p, !.local = local]
                /\ Goto(Sync, "refresh")
                /\ UNCHANGED scores
           ELSE AskHeaders([NoRound EXCEPT !.peer = p, !.local = local, !.target = target], 0)
      /\ UNCHANGED <<cache, todo, peers, heights, synced, inbound, accounts, tip, counts>>

(***************************************************************************)
(* Waiting: messages that do not match are thrown away.                    *)
(***************************************************************************)
Numbers(headers) == [i \in DOMAIN headers |-> Number[headers[i]]]

Matches(m) ==
  /\ m.from = round.peer
  /\ CASE at[Sync] = "headers" -> m.kind = "headers" /\ m.data # << >> /\ Number[m.data[1]] = round.start
       [] at[Sync] = "bodies" -> m.kind = "bodies" /\ m.data.of = round.headers
       [] at[Sync] = "snapshot" -> m.kind = "snapshot" /\ m.data.number = Number[Last(round.headers)]
       [] at[Sync] = "refresh" -> m.kind = "snapshot" /\ m.data.number = round.local
       [] OTHER -> FALSE

Waiting == at[Sync] \in {"headers", "bodies", "snapshot", "refresh"}
Received(kinds) == at[Sync] \in kinds /\ inbound # << >> /\ Matches(Head(inbound))

Skip ==
  /\ Waiting /\ inbound # << >> /\ ~Matches(Head(inbound))
  /\ inbound' = Tail(inbound)
  /\ UNCHANGED <<cache, at, todo, peerVars, own, round, asked, accounts, tip, counts>>

\* The deadline passes: nothing more will come, or it comes too late.
Timeout ==
  /\ Waiting /\ inbound = << >>
  /\ IF \E r \in asked : r.to = round.peer THEN slow < MaxSlow /\ slow' = slow + 1 ELSE UNCHANGED slow
  /\ IF at[Sync] = "refresh" THEN Stay(Sync) /\ UNCHANGED <<status, scores>>
     ELSE Fail(IF at[Sync] = "headers" THEN -8 ELSE -10)
  /\ UNCHANGED <<cache, todo, peers, heights, localHeight, synced, wire, accounts, tip, lies, leaves>>

(***************************************************************************)
(* Headers: validate_headers_against_local_chain and the probe.            *)
(***************************************************************************)
FirstFits(start, headers) ==
  \/ start - 1 \in DOMAIN blocks /\ ValidChild(blocks[start - 1], headers[1])
  \/ start = 1 /\ ValidChild(Root, headers[1])

FirstOnly(headers) == Len(headers) > 0
Chained(headers) == Linked(headers)

SameLookBack(r) == Max({LookBack, r.lookback})
NextLookBack(r) == IF r.lookback = 0 THEN Max({LookBack, 1}) ELSE Min({2 * r.lookback, Max({r.local, 1})})

TakeHeaders ==
  /\ Received({"headers"})
  /\ inbound' = Tail(inbound)
  /\ LET headers == Head(inbound).data
         r == [round EXCEPT !.headers = headers]
     IN  IF ~FirstFits(round.start, headers) THEN AskHeaders(round, NextLookBack(round))
         ELSE IF ~Chained(headers) THEN Fail(-20) /\ UNCHANGED asked
         ELSE IF round.peer \notin peers THEN Fail(-10) /\ UNCHANGED asked
         ELSE /\ Send(Request(round.peer, "bodies", round.start, headers))
              /\ round' = r
              /\ Goto(Sync, "bodies")
              /\ UNCHANGED <<status, scores>>
  /\ UNCHANGED <<cache, todo, peers, heights, localHeight, synced, accounts, tip, counts>>

\* The bodies, one exchange for all of them: each has to be empty.
TakeBodies ==
  /\ Received({"bodies"})
  /\ inbound' = Tail(inbound)
  /\ IF Head(inbound).data.transactions > 0 THEN Fail(-10) /\ UNCHANGED asked
     ELSE IF round.peer \notin peers THEN Fail(-8) /\ UNCHANGED asked
     ELSE /\ Send(Request(round.peer, "snapshot", Number[Last(round.headers)], 1))
          /\ Goto(Sync, "snapshot")
          /\ UNCHANGED <<round, status, scores>>
  /\ UNCHANGED <<cache, todo, peers, heights, localHeight, synced, accounts, tip, counts>>

(***************************************************************************)
(* The snapshot: its proof is a hash of the block it goes with.  Accounts  *)
(* are replaced first, then the blocks stored.                             *)
(***************************************************************************)
Verify(b, snapshot) == snapshot.proves = b
AccountsOf(b, snapshot) == [from |-> snapshot.accounts, vouched |-> b]

Divergence(headers) ==
  {i \in DOMAIN headers : Number[headers[i]] \in DOMAIN blocks /\ blocks[Number[headers[i]]] # headers[i]}

TakeSnapshot ==
  /\ Received({"snapshot"})
  /\ inbound' = Tail(inbound)
  /\ LET headers == round.headers
     IN  IF ~Verify(Last(headers), Head(inbound).data)
         THEN Fail(-20) /\ UNCHANGED <<accounts, todo>>
         ELSE /\ accounts' = AccountsOf(Last(headers), Head(inbound).data)
              /\ IF Divergence(headers) # {}
                 THEN LET tail == SubSeq(headers, Min(Divergence(headers)), Len(headers))
                      IN  IF ValidateReplacement(tail) THEN CallReplace(Sync, tail) /\ UNCHANGED <<round, status, scores>>
                          ELSE Fail(-20) /\ UNCHANGED todo
                 ELSE /\ todo' = [todo EXCEPT ![Sync] = headers]
                      /\ Goto(Sync, "check")
                      /\ UNCHANGED <<round, status, scores>>
  /\ UNCHANGED <<cache, peers, heights, localHeight, synced, asked, tip, counts>>

TakeRefresh ==
  /\ Received({"refresh"})
  /\ inbound' = Tail(inbound)
  /\ accounts' = IF round.local \in DOMAIN blocks /\ Verify(blocks[round.local], Head(inbound).data)
                 THEN AccountsOf(blocks[round.local], Head(inbound).data) ELSE accounts
  /\ Stay(Sync)
  /\ UNCHANGED <<cache, todo, peerVars, own, asked, tip, counts>>

\* A header whose block the cache has is passed over, the others are stored.
Held(b) == Number[b] \in DOMAIN blocks /\ blocks[Number[b]] = b

Store ==
  /\ IF at[Sync] = "check" /\ Held(Head(todo[Sync]))
     THEN /\ todo' = [todo EXCEPT ![Sync] = Tail(@)]
          /\ Goto(Sync, IF Len(todo[Sync]) = 1 THEN "stored" ELSE "check")
          /\ UNCHANGED <<cache, synced>>
     ELSE /\ StoreStep(Sync)
          /\ synced' = IF at[Sync] = "insert" THEN Max({synced, Number[Head(todo[Sync])]}) ELSE synced
  /\ UNCHANGED <<peerVars, localHeight, status, round, wire, accounts, tip, counts>>

Finish ==
  /\ at[Sync] \in {"stored", "refused"}
  /\ todo' = [todo EXCEPT ![Sync] = << >>]
  /\ IF at[Sync] = "refused" THEN Fail(-20) /\ UNCHANGED <<localHeight, synced>>
     ELSE LET last == Number[Last(round.headers)]
          IN  /\ localHeight' = last /\ synced' = last
              /\ status' = IF last >= round.target THEN "Complete" ELSE "Syncing"
              /\ scores' = Scored(round.peer, 4)
              /\ Stay(Sync)
  /\ UNCHANGED <<cache, peers, heights, wire, accounts, tip, counts>>

(***************************************************************************)
(* Peers.  An honest one answers from its chain and its accounts of today, *)
(* whatever block the snapshot is for.                                     *)
(***************************************************************************)
Headers(p, r) == SubSeq(ChainOf[p], r.start, Min({tip[p], r.start + r.what - 1}))
Message(p, kind, data) == [from |-> p, kind |-> kind, data |-> data]
Bodies(headers, transactions) == [of |-> headers, transactions |-> transactions]
Snapshot(number, proves, from) == [number |-> number, proves |-> proves, accounts |-> from]

HonestAnswers(p, r) ==
  CASE r.kind = "headers" -> {Message(p, "headers", Headers(p, r))}
    [] r.kind = "bodies" -> {Message(p, "bodies", Bodies(r.what, 0))}
    [] r.kind = "snapshot" ->
         IF r.start \in 1..tip[p]
         THEN {Message(p, "snapshot", Snapshot(r.start, ChainOf[p][r.start], ChainOf[p][tip[p]]))} ELSE {}

ForgedAnswers(p, r) ==
  CASE r.kind = "headers" -> {Message(p, "headers", h) : h \in Forged}
    [] r.kind = "bodies" -> {Message(p, "bodies", Bodies(r.what, n)) : n \in {0, 1}}
    [] r.kind = "snapshot" -> {Message(p, "snapshot", Snapshot(r.start, b, "forged")) :
                                 b \in {x \in Blocks : Number[x] = r.start}}

\* try_send: an answer that finds the channel full is dropped.
Deliver(m) == inbound' = IF Len(inbound) < MaxInbound THEN Append(inbound, m) ELSE inbound

Answer(p) ==
  /\ \E r \in asked :
       /\ r.to = p /\ asked' = asked \ {r}
       /\ IF HonestAnswers(p, r) = {} THEN UNCHANGED inbound
          ELSE \E m \in HonestAnswers(p, r) : Deliver(m)
  /\ UNCHANGED <<cache, at, todo, peerVars, own, round, accounts, tip, counts>>

\* Not answering is answering with something no wait matches.
Lie(p) ==
  /\ \E r \in asked :
       /\ r.to = p /\ asked' = asked \ {r}
       /\ IF lies < MaxLies
          THEN \E m \in ForgedAnswers(p, r) : Deliver(m) /\ lies' = lies + 1
          ELSE UNCHANGED <<inbound, lies>>
  /\ UNCHANGED <<cache, at, todo, peerVars, own, round, accounts, tip, slow, leaves>>

Grow(p) ==
  /\ tip[p] < Len(ChainOf[p])
  /\ tip' = [tip EXCEPT ![p] = @ + 1]
  /\ UNCHANGED <<cache, at, todo, peerVars, own, round, wire, accounts, counts>>

\* AnnounceHead.  Bound of the instance: nobody announces more than an honest peer has.
Announce(p) ==
  /\ p \in peers
  /\ \E h \in IF p \in Honest THEN {tip[p]} ELSE Range(tip) :
       h # heights[p] /\ heights' = [heights EXCEPT ![p] = h]
  /\ UNCHANGED <<cache, at, todo, peers, scores, own, round, wire, accounts, tip, counts>>

Leave(p) ==
  /\ p \in peers /\ leaves < MaxLeaves
  /\ leaves' = leaves + 1
  /\ peers' = peers \ {p}
  /\ heights' = Restrict(heights, DOMAIN heights \ {p})
  /\ scores' = Restrict(scores, DOMAIN scores \ {p})
  /\ asked' = {r \in asked : r.to # p}
  /\ UNCHANGED <<cache, at, todo, own, round, inbound, accounts, tip, slow, lies>>

Join(p) ==
  /\ p \notin peers
  /\ peers' = peers \cup {p}
  /\ heights' = [q \in DOMAIN heights \cup {p} |-> IF q = p THEN 0 ELSE heights[q]]
  /\ scores' = Scored(p, 0)
  /\ UNCHANGED <<cache, at, todo, own, round, wire, accounts, tip, counts>>

SyncStep ==
  \/ TickAlone \/ Tick \/ Skip \/ TakeHeaders \/ TakeBodies \/ TakeSnapshot
  \/ TakeRefresh \/ Store \/ Finish

Next ==
  \/ SyncStep \/ Timeout
  \/ \E p \in Honest : Answer(p) \/ Grow(p)
  \/ \E p \in Peers \ Honest : Lie(p)
  \/ \E p \in Peers : Announce(p) \/ Leave(p) \/ Join(p)

\* The task runs, deadlines pass, honest peers answer, grow and announce, and who
\* has left comes back (the bootnode reconnector).
Fairness ==
  /\ WF_syncVars(SyncStep) /\ WF_syncVars(Timeout)
  /\ \A p \in Honest : WF_syncVars(Answer(p)) /\ WF_syncVars(Grow(p)) /\ WF_syncVars(Announce(p))
  /\ \A p \in Peers \ Honest : WF_syncVars(Lie(p))
  /\ \A p \in Peers : WF_syncVars(Join(p))

SyncSpec == Init /\ [][Next]_syncVars /\ Fairness
-----------------------------------------------------------------------------
\* The cache has not yet dropped a block for want of room (50,000 in the code).
NothingEvicted == \A b \in ever : Number[b] <= MaxBlocks

(* A round that ends well with an honest peer leaves the node on that peer's *)
(* chain, from the first block to the last header of the round: although    *)
(* the old blocks are dropped before the new ones come, the headers may be  *)
(* a late answer to an earlier request, and others may have sent blocks     *)
(* under it in earlier rounds.                                              *)
OnPeersChain ==
  at[Sync] = "stored" /\ round.peer \in Honest /\ NothingEvicted =>
    \A h \in 1..Number[Last(round.headers)] : h \in DOMAIN blocks /\ blocks[h] = ChainOf[round.peer][h]

(* Accounts are installed before the blocks are stored, yet between rounds  *)
(* the block that vouched for the accounts held is one the cache has taken: *)
(* what a header is checked for before the snapshot is asked for is all the *)
(* store checks later.  (Once blocks were evicted, the store refuses a      *)
(* chain that starts below what is left, and the accounts stay.)            *)
AccountsHaveBlock == at[Sync] = "tick" /\ NothingEvicted => accounts.vouched \in ever \cup {None}

(* Whatever the other peers send and however late answers come, the node    *)
(* ends up on an honest peer's chain and stays there.                       *)
Converges ==
  <>[](ChainHead > 0 /\ \E p \in Honest : blocks[ChainHead] = Last(ChainOf[p]))
=============================================================================
