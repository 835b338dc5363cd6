---------------------------- MODULE PeerNetwork ----------------------------
(***************************************************************************)
(* Connections of the P2P service: the tasks that accept and dial them, a  *)
(* monitor task per connection, the peer manager's maps they all change,   *)
(* bans, gossip limits, and the broadcasts that drop slow peers.           *)
(*                                                                         *)
(* Each map has a lock of its own and every step takes one.  activity and  *)
(* heights are always written together, in the same order: records stands  *)
(* for the two.  scores, which the end of the service leaves as they are   *)
(* and sync writes on its own, are in module HeaderSync.                   *)
(***************************************************************************)
EXTENDS Integers, FiniteSetsExt, SequencesExt, Functions

CONSTANTS
  Conns,                \* connections, each used once
  Peer, Ip,             \* of each connection: the id its handshake tells, its address
  Inbound,              \* connections that come in
  Listeners, Dialers,   \* the tasks that set connections up
  Broadcaster,          \* a thread that broadcasts, or stops the service
  Hashes,               \* of each connection: what its peer gossips about
  MaxPeers, MaxPerIp, MaxPerMinute, MaxGossip,   \* the configured limits
  Minute, BanTime, DedupTime, MaxDedup,          \* 60, ban_duration_secs, DEFAULT_DEDUP_TTL_SECS, MAX_DEDUP_ENTRIES
  MaxClock, MaxDrops,   \* bounds of the instance
  None

Tasks == Listeners \cup Dialers
Ids == Range(Peer)

ASSUME NetworkAssumption ==
  /\ Inbound \subseteq Conns
  /\ Conns \subseteq DOMAIN Peer /\ Conns \subseteq DOMAIN Ip /\ Conns \subseteq DOMAIN Hashes
  /\ {MaxPeers, MaxPerIp, MaxPerMinute, MaxGossip, Minute, BanTime, DedupTime, MaxDedup} \subseteq Nat
  /\ Broadcaster \notin Tasks /\ None \notin Conns \cup Ids

VARIABLES
  registered,      \* peers: id -> connection
  records,         \* ids with an entry in activity and heights
  bannedPeers, bannedIps,   \* -> when the ban ends
  accepts,         \* the listeners' windows, one per address
  window, seen,    \* gossip: window of each monitor, hash -> when it was seen
  pc, conn,        \* of each task: step and connection
  victims,         \* of each thread: the ids it still has to remove
  mon,             \* of each connection: the step of its monitor
  clock, drops

maps == <<registered, records>>
bans == <<bannedPeers, bannedIps>>
gossip == <<window, seen>>
tasks == <<pc, conn, victims>>
netVars == <<maps, bans, accepts, gossip, tasks, mon, clock, drops>>

Init ==
  /\ registered = << >> /\ records = {}
  /\ bannedPeers = << >> /\ bannedIps = << >>
  /\ accepts = [i \in Range(Ip) |-> << >>]
  /\ window = [c \in Conns |-> << >>] /\ seen = << >>
  /\ pc = [t \in Tasks \cup {Broadcaster} |-> "idle"]
  /\ conn = [t \in Tasks |-> None]
  /\ victims = [t \in Tasks \cup {Broadcaster} |-> << >>]
  /\ mon = [c \in Conns |-> "new"]
  /\ clock = 0 /\ drops = 0

Banned(list, x) == x \in DOMAIN list /\ list[x] > clock
Ban(list, x) == [y \in DOMAIN list \cup {x} |-> IF y = x THEN clock + BanTime ELSE list[y]]
Cleaned(list) == Restrict(list, {x \in DOMAIN list : list[x] > clock})
Without(f, x) == Restrict(f, DOMAIN f \ {x})

\* allow_rate_window: what is over a minute old leaves at the front.
Recent(w) ==
  LET live == {i \in DOMAIN w : clock - w[i] <= Minute}
  IN  IF live = {} THEN << >> ELSE SubSeq(w, Min(live), Len(w))
Allows(w, limit) == Len(Recent(w)) < limit
Noted(w, limit) == IF Allows(w, limit) THEN Append(Recent(w), clock) ELSE Recent(w)

\* mark_seen_hash: old entries leave, the oldest half when there are too many.
Remembered == {h \in DOMAIN seen : clock - seen[h] <= DedupTime}
Marked(h, kept) == [g \in kept \cup {h} |-> IF g = h THEN clock ELSE seen[g]]
OldestHalf(S) == {T \in SUBSET S : Cardinality(T) = MaxDedup \div 2 /\ \A g \in T, h \in S \ T : seen[g] <= seen[h]}

Step(t, s) == pc' = [pc EXCEPT ![t] = s]
Monitor(c, s) == mon' = [mon EXCEPT ![c] = s]
LoopOver(c, s) == Monitor(c, s) /\ window' = [window EXCEPT ![c] = << >>]
SetUpOver(t) == Step(t, "idle") /\ conn' = [conn EXCEPT ![t] = None]
Close(t) == SetUpOver(t) /\ Monitor(conn[t], "closed")

(***************************************************************************)
(* Setting up.  A listener bans an address that has too many connections   *)
(* or comes too often; a dialer skips who it knows.                        *)
(***************************************************************************)
FromIp(i) == {p \in DOMAIN registered : Ip[registered[p]] = i}
TooMany(i) == Cardinality(FromIp(i)) >= MaxPerIp

Accept(t) ==
  /\ t \in Listeners /\ pc[t] = "idle"
  /\ \E c \in Inbound :
       /\ mon[c] = "new"
       /\ bannedPeers' = Cleaned(bannedPeers) /\ bannedIps' = Cleaned(bannedIps)
       /\ IF Banned(bannedIps, Ip[c]) THEN Monitor(c, "closed") /\ UNCHANGED <<accepts, pc, conn>>
          ELSE /\ accepts' = IF TooMany(Ip[c]) THEN accepts ELSE [accepts EXCEPT ![Ip[c]] = Noted(@, MaxPerMinute)]
               /\ Step(t, IF TooMany(Ip[c]) \/ ~Allows(accepts[Ip[c]], MaxPerMinute) THEN "ban" ELSE "handshake")
               /\ conn' = [conn EXCEPT ![t] = c]
               /\ Monitor(c, "setup")
  /\ UNCHANGED <<maps, gossip, victims, clock, drops>>

Dial(t) ==
  /\ t \in Dialers /\ pc[t] = "idle"
  /\ \E c \in Conns \ Inbound :
       /\ mon[c] = "new" /\ Peer[c] \notin DOMAIN registered /\ ~Banned(bannedIps, Ip[c])
       /\ conn' = [conn EXCEPT ![t] = c]
       /\ Monitor(c, "setup")
  /\ Step(t, "handshake")
  /\ UNCHANGED <<maps, bans, accepts, gossip, victims, clock, drops>>

\* The socket fails, or the peer is of another network: any handshake may go wrong.
Handshake(t) ==
  /\ pc[t] = "handshake"
  /\ \/ Close(t)
     \/ /\ t \in Dialers => Peer[conn[t]] \notin DOMAIN registered
        /\ Step(t, "count") /\ UNCHANGED <<conn, mon>>
  /\ UNCHANGED <<maps, bans, accepts, gossip, victims, clock, drops>>

\* add_peer_with_sender_at
Full == Cardinality(DOMAIN registered) >= MaxPeers

Count(t) ==
  /\ pc[t] = "count"
  /\ bannedPeers' = Cleaned(bannedPeers) /\ bannedIps' = Cleaned(bannedIps)
  /\ IF Full THEN Close(t) ELSE Step(t, "bans") /\ UNCHANGED <<conn, mon>>
  /\ UNCHANGED <<maps, accepts, gossip, victims, clock, drops>>

CheckBans(t) ==
  /\ pc[t] = "bans"
  /\ IF Banned(bannedPeers, Peer[conn[t]]) \/ Banned(bannedIps, Ip[conn[t]]) THEN Close(t)
     ELSE Step(t, "twice") /\ UNCHANGED <<conn, mon>>
  /\ UNCHANGED <<maps, bans, accepts, gossip, victims, clock, drops>>

CheckTwice(t) ==
  /\ pc[t] = "twice"
  /\ IF Peer[conn[t]] \in DOMAIN registered THEN Close(t) ELSE Step(t, "insert") /\ UNCHANGED <<conn, mon>>
  /\ UNCHANGED <<maps, bans, accepts, gossip, victims, clock, drops>>

Insert(t) ==
  /\ pc[t] = "insert"
  /\ registered' = [p \in DOMAIN registered \cup {Peer[conn[t]]} |->
                      IF p = Peer[conn[t]] THEN conn[t] ELSE registered[p]]
  /\ Step(t, "record")
  /\ UNCHANGED <<records, bans, accepts, gossip, conn, victims, mon, clock, drops>>

\* The entries, and the monitor is started.
Record(t) ==
  /\ pc[t] = "record"
  /\ records' = records \cup {Peer[conn[t]]}
  /\ Monitor(conn[t], "open")
  /\ SetUpOver(t)
  /\ UNCHANGED <<registered, bans, accepts, gossip, victims, clock, drops>>

(***************************************************************************)
(* ban_ip by a listener, the removals it and a broadcast make, one id      *)
(* after the other, and the end of the service, which clears the maps.     *)
(***************************************************************************)
BanIp(t) ==
  /\ pc[t] = "ban"
  /\ bannedIps' = Ban(bannedIps, Ip[conn[t]])
  /\ \E order \in SetToSeqs(FromIp(Ip[conn[t]])) : victims' = [victims EXCEPT ![t] = order]
  /\ Monitor(conn[t], "closed")
  /\ Step(t, "remove")
  /\ UNCHANGED <<maps, bannedPeers, accepts, gossip, conn, clock, drops>>

Drop ==
  /\ pc[Broadcaster] = "idle" /\ drops < MaxDrops
  /\ drops' = drops + 1
  /\ \E slow \in SUBSET DOMAIN registered \ {{}} : \E order \in SetToSeqs(slow) :
       victims' = [victims EXCEPT ![Broadcaster] = order]
  /\ Step(Broadcaster, "remove")
  /\ UNCHANGED <<maps, bans, accepts, gossip, conn, mon, clock>>

RemovePeer(t) ==
  /\ pc[t] = "remove"
  /\ IF victims[t] = << >>
     THEN /\ Step(t, "idle") /\ UNCHANGED registered
          /\ conn' = IF t = Broadcaster THEN conn ELSE [conn EXCEPT ![t] = None]
     ELSE Step(t, "unrecord") /\ registered' = Without(registered, Head(victims[t])) /\ UNCHANGED conn
  /\ UNCHANGED <<records, bans, accepts, gossip, victims, mon, clock, drops>>

UnrecordVictim(t) ==
  /\ pc[t] = "unrecord"
  /\ records' = records \ {Head(victims[t])}
  /\ bannedPeers' = IF t = Broadcaster THEN bannedPeers ELSE Ban(bannedPeers, Head(victims[t]))
  /\ victims' = [victims EXCEPT ![t] = Tail(@)]
  /\ Step(t, "remove")
  /\ UNCHANGED <<registered, bannedIps, accepts, gossip, conn, mon, clock, drops>>

\* NetworkService::stop: tasks that wait are aborted, monitors are not.
Stop ==
  /\ pc[Broadcaster] = "idle" /\ drops < MaxDrops
  /\ drops' = drops + 1
  /\ registered' = << >>
  /\ pc' = [t \in DOMAIN pc |-> IF t = Broadcaster THEN "clear" ELSE IF pc[t] = "handshake" THEN "idle" ELSE pc[t]]
  /\ conn' = [t \in Tasks |-> IF pc[t] = "handshake" THEN None ELSE conn[t]]
  /\ mon' = [c \in Conns |-> IF \E t \in Tasks : pc[t] = "handshake" /\ conn[t] = c THEN "closed" ELSE mon[c]]
  /\ UNCHANGED <<records, bans, accepts, gossip, victims, clock>>

ClearRecords ==
  /\ pc[Broadcaster] = "clear"
  /\ records' = {}
  /\ Step(Broadcaster, "idle")
  /\ UNCHANGED <<registered, bans, accepts, gossip, conn, victims, mon, clock, drops>>

(***************************************************************************)
(* monitor_peer_socket of connection c.  "open" is its select; while it    *)
(* writes a line it sees nothing of what its branches wait for, however    *)
(* long the peer does not read.                                            *)
(***************************************************************************)
ReplacedUnseen(c) == Peer[c] \notin DOMAIN registered
SenderDropped(c) == c \notin Range(registered)

\* The socket ends, the peer is idle too long, or it asks for the end.
Hangup(c) ==
  /\ mon[c] = "open"
  /\ LoopOver(c, "leave")
  /\ UNCHANGED <<maps, bans, accepts, seen, tasks, clock, drops>>

Write(c) ==
  /\ mon[c] = "open"
  /\ Monitor(c, "write")
  /\ UNCHANGED <<maps, bans, accepts, gossip, tasks, clock, drops>>

\* The line is out, or the socket has failed.
Written(c) ==
  /\ mon[c] = "write"
  /\ \/ Monitor(c, "open") /\ UNCHANGED window
     \/ LoopOver(c, "leave")
  /\ UNCHANGED <<maps, bans, accepts, seen, tasks, clock, drops>>

\* Who holds the sender has let it go: recv yields None.
Dropped(c) ==
  /\ mon[c] = "open" /\ SenderDropped(c)
  /\ LoopOver(c, "leave")
  /\ UNCHANGED <<maps, bans, accepts, seen, tasks, clock, drops>>

Gossip(c) ==
  /\ mon[c] = "open"
  /\ IF ~Allows(window[c], MaxGossip) THEN LoopOver(c, "ban") /\ UNCHANGED seen
     ELSE /\ window' = [window EXCEPT ![c] = Noted(@, MaxGossip)]
          /\ UNCHANGED mon
          /\ \E h \in Hashes[c] :
               IF h \in Remembered THEN seen' = Restrict(seen, Remembered)
               ELSE IF Cardinality(Remembered) < MaxDedup THEN seen' = Marked(h, Remembered)
               ELSE \E old \in OldestHalf(Remembered) : seen' = Marked(h, Remembered \ old)
  /\ UNCHANGED <<maps, bans, accepts, tasks, clock, drops>>

\* ban_peer: the id, then the address the id is registered with.
BanSelf(c) ==
  /\ mon[c] = "ban"
  /\ bannedPeers' = Ban(bannedPeers, Peer[c])
  /\ Monitor(c, "ban_ip")
  /\ UNCHANGED <<maps, bannedIps, accepts, gossip, tasks, clock, drops>>

BanOwnIp(c) ==
  /\ mon[c] = "ban_ip"
  /\ bannedIps' = IF Peer[c] \in DOMAIN registered THEN Ban(bannedIps, Ip[registered[Peer[c]]]) ELSE bannedIps
  /\ Monitor(c, "remove")
  /\ UNCHANGED <<maps, bannedPeers, accepts, gossip, tasks, clock, drops>>

\* remove_peer: once inside ban_peer, once when the loop has ended.
Unregister(c) ==
  /\ mon[c] \in {"remove", "leave"}
  /\ registered' = Without(registered, Peer[c])
  /\ Monitor(c, IF mon[c] = "remove" THEN "removed" ELSE "left")
  /\ UNCHANGED <<records, bans, accepts, gossip, tasks, clock, drops>>

RecordsAfterOwn(c) == IF SenderDropped(c) THEN records ELSE records \ {Peer[c]}
RecordsAfter(c) == records \ {Peer[c]}

Unrecord(c) ==
  /\ mon[c] \in {"removed", "left"}
  /\ records' = RecordsAfter(c)
  /\ Monitor(c, IF mon[c] = "removed" THEN "leave" ELSE "closed")
  /\ UNCHANGED <<registered, bans, accepts, gossip, tasks, clock, drops>>

Tock ==
  /\ clock < MaxClock
  /\ clock' = clock + 1
  /\ UNCHANGED <<maps, bans, accepts, gossip, tasks, mon, drops>>

SetUp(t) ==
  \/ Accept(t) \/ Dial(t) \/ Handshake(t) \/ Count(t) \/ CheckBans(t) \/ CheckTwice(t)
  \/ Insert(t) \/ Record(t) \/ BanIp(t)
Removal(t) == RemovePeer(t) \/ UnrecordVictim(t)
Leaving(c) == BanSelf(c) \/ BanOwnIp(c) \/ Unregister(c) \/ Unrecord(c)

Next ==
  \/ Drop \/ Stop \/ ClearRecords \/ Tock
  \/ \E t \in Tasks : SetUp(t)
  \/ \E t \in Tasks \cup {Broadcaster} : Removal(t)
  \/ \E c \in Conns : Hangup(c) \/ Gossip(c) \/ Write(c) \/ Written(c) \/ Dropped(c) \/ Leaving(c)

\* A monitor on its way out gets there.  The select takes a ready branch at random: it
\* does not pass over the end of the channel for ever, if it is come back to for ever.
\* That a line gets written nobody promises.
NetworkSpec ==
  /\ Init /\ [][Next]_netVars
  /\ \A c \in Conns : WF_netVars(Leaving(c)) /\ SF_netVars(Dropped(c))
-----------------------------------------------------------------------------
SetUpBy(c) == \E t \in Tasks : conn[t] = c /\ pc[t] = "record"
Watched(c) == mon[c] \notin {"new", "setup", "closed"} \/ SetUpBy(c)

(* Two connections of one id may both pass the check for duplicates, and a  *)
(* monitor that ends removes its id whoever is registered under it; yet no  *)
(* entry stays behind: every registered connection has a monitor that will  *)
(* remove it, and every other entry of an id a connection of that id.       *)
NoGhostPeer ==
  /\ \A p \in DOMAIN registered : Watched(registered[p])
  /\ \A p \in records : \E c \in Conns : Peer[c] = p /\ Watched(c)

(* A connection that has lost its registration, to a ban, a broadcast, the  *)
(* end of the service or another connection of the same id, is closed, if   *)
(* its monitor does not write for ever to a peer that does not read.        *)
OrphansEnd ==
  \A c \in Conns :
    []<>(mon[c] # "write") => <>[](mon[c] \in {"open", "write"} => c \in Range(registered))
=============================================================================
