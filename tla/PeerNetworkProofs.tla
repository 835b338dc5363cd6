------------------------- MODULE PeerNetworkProofs -------------------------
(***************************************************************************)
(* NoGhostPeer for every set of connections, tasks and limits.             *)
(*                                                                         *)
(* A registration may lose its monitor in one way only: the monitor ends   *)
(* while its connection is registered.  So the invariant says who still    *)
(* has to do something about a connection: a task that sets it up, alone,  *)
(* or its monitor, which unregisters the id before it forgets the records. *)
(***************************************************************************)
EXTENDS PeerNetwork, PeerWire, SequenceTheorems, Discovery, FiniteSetTheorems, FoldFacts, TLAPS

SettingUp == {"handshake", "count", "bans", "twice", "insert", "record", "ban"}
TaskSteps == SettingUp \cup {"idle", "remove", "unrecord", "clear"}
MonitorSteps == {"open", "write", "ban", "ban_ip", "remove", "removed", "leave", "left"}

NetworkTypeOK ==
  /\ pc \in [Tasks \cup {Broadcaster} -> TaskSteps]
  /\ conn \in [Tasks -> Conns \cup {None}]
  /\ mon \in [Conns -> MonitorSteps \cup {"new", "setup", "closed"}]

\* A connection is set up by one task, until its monitor is started.
SetUpInv ==
  /\ \A t \in Tasks : pc[t] \in SettingUp => conn[t] \in Conns /\ mon[conn[t]] = "setup"
  /\ \A t, u \in Tasks : pc[t] \in SettingUp /\ pc[u] \in SettingUp /\ conn[t] = conn[u] => t = u

\* What is registered under an id is a connection of that id, and its monitor
\* has not passed the step that unregisters the id.
RegisteredInv ==
  \A p \in DOMAIN registered :
    /\ registered[p] \in Conns /\ Peer[registered[p]] = p
    /\ Watched(registered[p]) /\ mon[registered[p]] # "left"

RecordsInv == \A p \in records : \E c \in Conns : Peer[c] = p /\ Watched(c)

NetworkInv == NetworkTypeOK /\ SetUpInv /\ RegisteredInv /\ RecordsInv

LEMMA NetworkInit == Init => NetworkInv
<1> SUFFICES ASSUME Init PROVE NetworkInv
  OBVIOUS
<1> QED
  BY NetworkAssumption
  DEF Init, NetworkInv, NetworkTypeOK, SetUpInv, RegisteredInv, RecordsInv, SettingUp, TaskSteps, MonitorSteps

\* Maps that did not grow keep what is said of them, when nobody who watched has
\* stopped watching and no monitor has come to its last step.
LEMMA MapsKept ==
  ASSUME NetworkInv, NetworkTypeOK',
         records' \subseteq records, DOMAIN registered' \subseteq DOMAIN registered,
         \A p \in DOMAIN registered' : registered'[p] = registered[p],
         \A c \in Conns : Watched(c) => Watched(c)',
         \A c \in Conns : mon'[c] = "left" => mon[c] = "left"
  PROVE  RegisteredInv' /\ RecordsInv'
  BY DEF NetworkInv, RegisteredInv, RecordsInv

-----------------------------------------------------------------------------
(* The steps of a task.                                                    *)

LEMMA AcceptInv == ASSUME NetworkInv, NEW t \in Tasks, Accept(t) PROVE NetworkInv'
<1> USE NetworkAssumption DEF NetworkInv
<1>1. PICK c \in Conns :
        /\ mon[c] = "new" /\ pc[t] = "idle"
        /\ \/ Monitor(c, "closed") /\ UNCHANGED <<pc, conn>>
           \/ \E s \in {"ban", "handshake"} : Step(t, s) /\ conn' = [conn EXCEPT ![t] = c] /\ Monitor(c, "setup")
  BY DEF Accept
<1>2. NetworkTypeOK'
  BY <1>1 DEF NetworkTypeOK, Monitor, Step, SettingUp, TaskSteps
<1>3. /\ \A u \in Tasks : pc[u] \in SettingUp => conn[u] # c
      /\ pc[t] \notin SettingUp
  BY <1>1 DEF SetUpInv, SettingUp
<1>4. SetUpInv'
  BY <1>1, <1>3 DEF NetworkTypeOK, SetUpInv, Monitor, Step
<1>5. \A d \in Conns : Watched(d) => Watched(d)'
  BY <1>1, <1>3 DEF NetworkTypeOK, Monitor, Step, SettingUp, Watched, SetUpBy
<1>6. \A d \in Conns : mon'[d] = "left" => mon[d] = "left"
  BY <1>1 DEF NetworkTypeOK, Monitor
<1>7. RegisteredInv' /\ RecordsInv'
  BY <1>2, <1>5, <1>6, MapsKept DEF Accept, maps
<1> QED
  BY <1>2, <1>4, <1>7

LEMMA DialInv == ASSUME NetworkInv, NEW t \in Tasks, Dial(t) PROVE NetworkInv'
<1> USE NetworkAssumption DEF NetworkInv
<1>1. PICK c \in Conns :
        /\ mon[c] = "new" /\ pc[t] = "idle"
        /\ Step(t, "handshake") /\ conn' = [conn EXCEPT ![t] = c] /\ Monitor(c, "setup")
  BY DEF Dial
<1>2. NetworkTypeOK'
  BY <1>1 DEF NetworkTypeOK, Monitor, Step, SettingUp, TaskSteps
<1>3. /\ \A u \in Tasks : pc[u] \in SettingUp => conn[u] # c
      /\ pc[t] \notin SettingUp
  BY <1>1 DEF SetUpInv, SettingUp
<1>4. SetUpInv'
  BY <1>1, <1>3 DEF NetworkTypeOK, SetUpInv, Monitor, Step
<1>5. \A d \in Conns : Watched(d) => Watched(d)'
  BY <1>1, <1>2, <1>3 DEF NetworkTypeOK, Monitor, Step, MonitorSteps, SettingUp, Watched, SetUpBy
<1>6. \A d \in Conns : mon'[d] = "left" => mon[d] = "left"
  BY <1>1 DEF NetworkTypeOK, Monitor
<1>7. RegisteredInv' /\ RecordsInv'
  BY <1>2, <1>5, <1>6, MapsKept DEF Dial, maps
<1> QED
  BY <1>2, <1>4, <1>7

\* A task gives its connection up before it has registered it, or goes on.
LEMMA CheckInv ==
  ASSUME NetworkInv, NEW t \in Tasks, pc[t] \in {"handshake", "count", "bans", "twice", "ban"}, UNCHANGED maps,
         \/ Close(t)
         \/ Step(t, "remove") /\ Monitor(conn[t], "closed") /\ UNCHANGED conn
         \/ \E s \in {"count", "bans", "twice", "insert"} : Step(t, s) /\ UNCHANGED <<conn, mon>>
  PROVE  NetworkInv'
<1> USE NetworkAssumption DEF NetworkInv
<1>1. /\ pc[t] \in SettingUp /\ pc[t] # "record"
      /\ conn[t] \in Conns /\ mon[conn[t]] = "setup"
      /\ \A u \in Tasks : pc[u] \in SettingUp /\ conn[u] = conn[t] => u = t
  BY DEF SetUpInv, SettingUp
<1>2. NetworkTypeOK'
  BY <1>1 DEF NetworkTypeOK, Monitor, Step, Close, SetUpOver, SettingUp, TaskSteps
<1>3. SetUpInv'
  BY <1>1 DEF NetworkTypeOK, SetUpInv, Monitor, Step, Close, SetUpOver, SettingUp
<1>4. \A d \in Conns : Watched(d) => Watched(d)'
  BY <1>1, <1>2 DEF NetworkTypeOK, Monitor, Step, Close, SetUpOver, MonitorSteps, SettingUp, Watched, SetUpBy
<1>5. \A d \in Conns : mon'[d] = "left" => mon[d] = "left"
  BY <1>1 DEF NetworkTypeOK, Monitor, Close
<1>6. RegisteredInv' /\ RecordsInv'
  BY <1>2, <1>4, <1>5, MapsKept DEF maps
<1> QED
  BY <1>2, <1>3, <1>6

LEMMA InsertInv == ASSUME NetworkInv, NEW t \in Tasks, Insert(t) PROVE NetworkInv'
<1> USE NetworkAssumption DEF NetworkInv
<1> DEFINE c == conn[t]
<1>1. /\ pc[t] = "insert" /\ c \in Conns /\ mon[c] = "setup"
      /\ Step(t, "record") /\ UNCHANGED <<records, conn, mon>>
  BY DEF Insert, SetUpInv, SettingUp
<1>2. NetworkTypeOK'
  BY <1>1 DEF NetworkTypeOK, Step, SettingUp, TaskSteps
<1>3. SetUpInv'
  BY <1>1 DEF NetworkTypeOK, SetUpInv, Step, SettingUp
<1>4. (\A d \in Conns : Watched(d) => Watched(d)') /\ Watched(c)'
  BY <1>1, <1>2 DEF NetworkTypeOK, Step, MonitorSteps, Watched, SetUpBy
<1>5. /\ DOMAIN registered' = DOMAIN registered \cup {Peer[c]} /\ registered'[Peer[c]] = c
      /\ \A p \in DOMAIN registered : p # Peer[c] => registered'[p] = registered[p]
  BY DEF Insert
<1>6. RegisteredInv'
  BY <1>1, <1>4, <1>5 DEF RegisteredInv
<1>7. RecordsInv'
  BY <1>1, <1>4 DEF RecordsInv
<1> QED
  BY <1>2, <1>3, <1>6, <1>7

LEMMA RecordInv == ASSUME NetworkInv, NEW t \in Tasks, Record(t) PROVE NetworkInv'
<1> USE NetworkAssumption DEF NetworkInv
<1> PICK c \in Conns : c = conn[t] /\ pc[t] = "record"
  BY DEF Record, SetUpInv, SettingUp
<1>1. /\ pc[t] = "record" /\ c = conn[t] /\ mon[c] = "setup"
      /\ \A u \in Tasks : pc[u] \in SettingUp /\ conn[u] = c => u = t
      /\ Step(t, "idle") /\ conn' = [conn EXCEPT ![t] = None] /\ Monitor(c, "open")
      /\ records' = records \cup {Peer[c]} /\ UNCHANGED registered
  BY DEF Record, SetUpInv, SettingUp, SetUpOver
<1>2. NetworkTypeOK'
  BY <1>1 DEF NetworkTypeOK, Step, Monitor, SettingUp, TaskSteps, MonitorSteps
<1>3. SetUpInv'
  BY <1>1 DEF NetworkTypeOK, SetUpInv, Step, Monitor, SettingUp
<1>4. (\A d \in Conns : Watched(d) => Watched(d)') /\ Watched(c)'
  <2>1. Watched(c)'
    BY <1>1 DEF NetworkTypeOK, Monitor, Watched
  <2>2. ASSUME NEW d \in Conns, d # c, Watched(d) PROVE Watched(d)'
    BY <1>1, <2>2 DEF NetworkTypeOK, Step, Monitor, Watched, SetUpBy
  <2> QED
    BY <2>1, <2>2
<1>5. \A d \in Conns : mon'[d] = "left" => mon[d] = "left"
  BY <1>1 DEF NetworkTypeOK, Monitor
<1>6. RegisteredInv'
  BY <1>1, <1>4, <1>5 DEF RegisteredInv
<1>7. RecordsInv'
  BY <1>1, <1>4 DEF RecordsInv
<1> QED
  BY <1>2, <1>3, <1>6, <1>7

-----------------------------------------------------------------------------
(* The removals, of a task or of the broadcaster, and the end of the service. *)

\* Nobody's set-up and no monitor is touched.
LEMMA AsideInv ==
  ASSUME NetworkInv, NetworkTypeOK', UNCHANGED mon,
         \A t \in Tasks : \/ pc'[t] = pc[t] /\ conn'[t] = conn[t]
                          \/ pc[t] \notin SettingUp /\ pc'[t] \notin SettingUp,
         records' \subseteq records, DOMAIN registered' \subseteq DOMAIN registered,
         \A p \in DOMAIN registered' : registered'[p] = registered[p]
  PROVE  NetworkInv'
<1> USE NetworkAssumption DEF NetworkInv
<1>1. SetUpInv'
  BY DEF SetUpInv
<1>2. \A d \in Conns : Watched(d) => Watched(d)'
  BY DEF SettingUp, Watched, SetUpBy
<1>3. RegisteredInv' /\ RecordsInv'
  BY <1>2, MapsKept
<1> QED
  BY <1>1, <1>3

LEMMA RemovalInv == ASSUME NetworkInv, NEW t \in Tasks \cup {Broadcaster}, Removal(t) PROVE NetworkInv'
<1> USE NetworkAssumption DEF NetworkInv
<1>1. /\ pc[t] \in {"remove", "unrecord"} /\ UNCHANGED mon
      /\ \E s \in {"idle", "remove", "unrecord"} : Step(t, s)
      /\ conn' = conn \/ (t \in Tasks /\ conn' = [conn EXCEPT ![t] = None])
      /\ records' \subseteq records
      /\ UNCHANGED registered \/ registered' = Without(registered, Head(victims[t]))
  BY DEF Removal, RemovePeer, UnrecordVictim
<1>2. NetworkTypeOK'
  BY <1>1 DEF NetworkTypeOK, Step, SettingUp, TaskSteps
<1>3. \A u \in Tasks : \/ pc'[u] = pc[u] /\ conn'[u] = conn[u]
                       \/ pc[u] \notin SettingUp /\ pc'[u] \notin SettingUp
  BY <1>1 DEF NetworkTypeOK, Step, SettingUp
<1>4. /\ DOMAIN registered' \subseteq DOMAIN registered
      /\ \A p \in DOMAIN registered' : registered'[p] = registered[p]
  BY <1>1 DEF Without, Restrict
<1> QED
  BY <1>1, <1>2, <1>3, <1>4, AsideInv

LEMMA BroadcasterInv == ASSUME NetworkInv, Drop \/ ClearRecords PROVE NetworkInv'
<1> USE NetworkAssumption DEF NetworkInv
<1>1. /\ \E s \in {"idle", "remove"} : Step(Broadcaster, s)
      /\ UNCHANGED <<mon, conn, registered>> /\ records' \subseteq records
  BY DEF Drop, ClearRecords, maps
<1>2. NetworkTypeOK'
  BY <1>1 DEF NetworkTypeOK, Step, SettingUp, TaskSteps
<1>3. \A u \in Tasks : pc'[u] = pc[u] /\ conn'[u] = conn[u]
  BY <1>1 DEF NetworkTypeOK, Step
<1> QED
  BY <1>1, <1>2, <1>3, AsideInv

\* Aborted tasks wait for a handshake: what they set up is not registered.
LEMMA StopInv == ASSUME NetworkInv, Stop PROVE NetworkInv'
<1> USE NetworkAssumption DEF NetworkInv
<1>1. NetworkTypeOK'
  BY DEF Stop, NetworkTypeOK, SettingUp, TaskSteps
<1>2. \A t \in Tasks : /\ pc[t] = "handshake" => pc'[t] = "idle"
                       /\ pc[t] # "handshake" => pc'[t] = pc[t] /\ conn'[t] = conn[t]
  BY DEF Stop, NetworkTypeOK
<1>3. \A c \in Conns : \/ mon'[c] = mon[c]
                       \/ /\ mon'[c] = "closed" /\ mon[c] = "setup"
                          /\ \A t \in Tasks : pc[t] \in SettingUp /\ conn[t] = c => pc[t] = "handshake"
  BY DEF Stop, SetUpInv, SettingUp
<1>4. SetUpInv'
  <2>1. \A t \in Tasks : pc'[t] \in SettingUp => pc[t] = pc'[t] /\ pc[t] # "handshake" /\ conn'[t] = conn[t]
    BY <1>2 DEF SettingUp
  <2> QED
    BY <1>3, <2>1 DEF SetUpInv
<1>5. \A d \in Conns : Watched(d) => Watched(d)'
  BY <1>1, <1>2, <1>3 DEF MonitorSteps, SettingUp, Watched, SetUpBy
<1>6. \A d \in Conns : mon'[d] = "left" => mon[d] = "left"
  BY <1>3
<1>7. RegisteredInv' /\ RecordsInv'
  BY <1>1, <1>5, <1>6, MapsKept DEF Stop
<1> QED
  BY <1>1, <1>4, <1>7

-----------------------------------------------------------------------------
(* The steps of a monitor.                                                 *)

\* A monitor goes to a step from which it will still unregister its id.
LEMMA WatchInv ==
  ASSUME NetworkInv, NEW c \in Conns, mon[c] \in MonitorSteps, UNCHANGED <<maps, tasks>>,
         mon' = mon \/ \E s \in MonitorSteps \ {"left"} : Monitor(c, s)
  PROVE  NetworkInv'
<1> USE NetworkAssumption DEF NetworkInv
<1>1. NetworkTypeOK'
  BY DEF NetworkTypeOK, Monitor, tasks
<1>2. SetUpInv'
  BY DEF NetworkTypeOK, SetUpInv, Monitor, tasks, MonitorSteps
<1>3. \A d \in Conns : Watched(d) => Watched(d)'
  BY <1>1 DEF NetworkTypeOK, Monitor, MonitorSteps, tasks, Watched, SetUpBy
<1>4. \A d \in Conns : mon'[d] = "left" => mon[d] = "left"
  BY DEF NetworkTypeOK, Monitor
<1>5. RegisteredInv' /\ RecordsInv'
  BY <1>1, <1>3, <1>4, MapsKept DEF maps
<1> QED
  BY <1>1, <1>2, <1>5

LEMMA UnregisterInv == ASSUME NetworkInv, NEW c \in Conns, Unregister(c) PROVE NetworkInv'
<1> USE NetworkAssumption DEF NetworkInv
<1>1. /\ mon[c] \in {"remove", "leave"} /\ UNCHANGED <<records, tasks>>
      /\ \E s \in {"removed", "left"} : Monitor(c, s)
  BY DEF Unregister
<1>2. NetworkTypeOK'
  BY <1>1 DEF NetworkTypeOK, Monitor, tasks, MonitorSteps
<1>3. SetUpInv'
  BY <1>1 DEF NetworkTypeOK, SetUpInv, Monitor, tasks
<1>4. \A d \in Conns : Watched(d) => Watched(d)'
  BY <1>1, <1>2 DEF NetworkTypeOK, Monitor, tasks, MonitorSteps, Watched, SetUpBy
<1>5. \A d \in Conns : mon'[d] = "left" => mon[d] = "left" \/ d = c
  BY <1>1 DEF NetworkTypeOK, Monitor
<1>6. /\ DOMAIN registered' \subseteq DOMAIN registered \ {Peer[c]}
      /\ \A p \in DOMAIN registered' : registered'[p] = registered[p]
  BY DEF Unregister, Without, Restrict
<1>7. RegisteredInv'
  BY <1>4, <1>5, <1>6 DEF RegisteredInv
<1>8. RecordsInv'
  BY <1>1, <1>4 DEF RecordsInv
<1> QED
  BY <1>2, <1>3, <1>7, <1>8

LEMMA UnrecordInv == ASSUME NetworkInv, NEW c \in Conns, Unrecord(c) PROVE NetworkInv'
<1> USE NetworkAssumption DEF NetworkInv
<1>1. /\ mon[c] \in {"removed", "left"} /\ UNCHANGED <<registered, tasks>>
      /\ records' = records \ {Peer[c]}
      /\ Monitor(c, IF mon[c] = "removed" THEN "leave" ELSE "closed")
  BY DEF Unrecord, RecordsAfter
<1>2. NetworkTypeOK'
  BY <1>1 DEF NetworkTypeOK, Monitor, tasks, MonitorSteps
<1>3. SetUpInv'
  BY <1>1 DEF NetworkTypeOK, SetUpInv, Monitor, tasks
<1>4. \A d \in Conns : Watched(d) => Watched(d)' \/ (d = c /\ mon[c] = "left")
  BY <1>1, <1>2 DEF NetworkTypeOK, Monitor, tasks, MonitorSteps, Watched, SetUpBy
<1>5. \A d \in Conns : mon'[d] = "left" => mon[d] = "left"
  BY <1>1 DEF NetworkTypeOK, Monitor
<1>6. RegisteredInv'
  BY <1>1, <1>4, <1>5 DEF RegisteredInv
<1>7. RecordsInv'
  BY <1>1, <1>4 DEF RecordsInv
<1> QED
  BY <1>2, <1>3, <1>6, <1>7

-----------------------------------------------------------------------------
LEMMA NetworkStep == ASSUME NetworkInv, [Next]_netVars PROVE NetworkInv'
<1>1. CASE \E t \in Tasks : SetUp(t)
  <2> SUFFICES ASSUME NEW t \in Tasks, SetUp(t) PROVE NetworkInv'
    BY <1>1
  <2>1. CASE Handshake(t) \/ Count(t) \/ CheckBans(t) \/ CheckTwice(t) \/ BanIp(t)
    <3>1. pc[t] \in {"handshake", "count", "bans", "twice", "ban"} /\ UNCHANGED maps
      BY <2>1 DEF Handshake, Count, CheckBans, CheckTwice, BanIp
    <3>2. \/ Close(t)
          \/ Step(t, "remove") /\ Monitor(conn[t], "closed") /\ UNCHANGED conn
          \/ \E s \in {"count", "bans", "twice", "insert"} : Step(t, s) /\ UNCHANGED <<conn, mon>>
      BY <2>1 DEF Handshake, Count, CheckBans, CheckTwice, BanIp
    <3> QED
      BY <3>1, <3>2, CheckInv
  <2> QED
    BY <2>1, AcceptInv, DialInv, InsertInv, RecordInv DEF SetUp
<1>2. CASE \E t \in Tasks \cup {Broadcaster} : Removal(t)
  BY <1>2, RemovalInv
<1>3. CASE \E c \in Conns : Hangup(c) \/ Gossip(c) \/ Write(c) \/ Written(c) \/ Dropped(c) \/ Leaving(c)
  <2> SUFFICES ASSUME NEW c \in Conns,
                      Hangup(c) \/ Gossip(c) \/ Write(c) \/ Written(c) \/ Dropped(c) \/ Leaving(c)
               PROVE  NetworkInv'
    BY <1>3
  <2>1. CASE Hangup(c) \/ Gossip(c) \/ Write(c) \/ Written(c) \/ Dropped(c) \/ BanSelf(c) \/ BanOwnIp(c)
    <3>1. /\ mon[c] \in MonitorSteps /\ UNCHANGED <<maps, tasks>>
          /\ mon' = mon \/ \E s \in MonitorSteps \ {"left"} : Monitor(c, s)
      BY <2>1 DEF Hangup, Gossip, Write, Written, Dropped, BanSelf, BanOwnIp, LoopOver, MonitorSteps
    <3> QED
      BY <3>1, WatchInv
  <2> QED
    BY <2>1, UnregisterInv, UnrecordInv DEF Leaving
<1>4. CASE Tock \/ UNCHANGED netVars
  <2>1. UNCHANGED <<registered, records, pc, conn, mon>>
    BY <1>4 DEF Tock, netVars, maps, tasks
  <2> QED
    BY <2>1 DEF NetworkInv, NetworkTypeOK, SetUpInv, RegisteredInv, RecordsInv, Watched, SetUpBy
<1> QED
  BY <1>1, <1>2, <1>3, <1>4, BroadcasterInv, StopInv DEF Next

\* Who sets a connection up, whose monitor unregisters it: the inductive invariant.
THEOREM NetworkInvariant == NetworkSpec => []NetworkInv
  BY NetworkInit, NetworkStep, PTL DEF NetworkSpec

\* However tasks, monitors, bans and broadcasts interleave, what is registered or
\* recorded has a monitor that will end it.
THEOREM NoGhosts == NetworkSpec => []NoGhostPeer
<1>1. NetworkInv => NoGhostPeer
  BY DEF NetworkInv, RegisteredInv, RecordsInv, NoGhostPeer
<1> QED
  BY <1>1, NetworkInvariant, PTL

-----------------------------------------------------------------------------
(* The frames of a connection: InOrder.  The chunks under way, in the socket    *)
(* and with the writer, are what is left of the lines begun less those taken;   *)
(* what the reader has of a line belongs to the first of them.                  *)
Frames == Messages \cup {"garbled"}
Chunk == [line : Messages, part : Nat \ {0}, last : BOOLEAN]

\* What is under way is what is left of the lines of ls when n are taken: at[i] is the line that
\* chunk i is of.
IsLeft(st, ls, n, at) ==
  /\ \A i \in 1..Len(st) : st[i].line = ls[at[i]]
  /\ \A i \in 1..(Len(st) - 1) : IF st[i].last THEN at[i + 1] = at[i] + 1 /\ st[i + 1].part = 1
                                               ELSE at[i + 1] = at[i] /\ st[i + 1].part # 1
  /\ IF st = << >> THEN Len(ls) = n
     ELSE at[1] = n + 1 /\ at[Len(st)] = Len(ls) /\ st[Len(st)].last
Left(st, ls, n) == \E at \in [1..Len(st) -> 1..Len(ls)] : IsLeft(st, ls, n, at)

Stream(s) == socket[s] \o toWrite[OtherSide(s)]

\* What the read under way has is of the next line, from its beginning if nothing of it was
\* given up, and the rest of that line is to come.
HalfInv(s) ==
  LET next == Len(took[s]) + 1  cut == next \in cuts[s]
  IN  /\ half[s] # << >> => half[s][1].line = wrote[OtherSide(s)][next] /\ (half[s][1].part = 1 <=> ~cut)
      /\ half[s] # << >> \/ cut => Stream(s) # << >>
      /\ Stream(s) # << >> => (Stream(s)[1].part = 1 <=> half[s] = << >> /\ ~cut)

\* Only frames that are begun have been cut, and none of a websocket.
CutsInv(s) == cuts[s] \subseteq 1..(Len(took[s]) + 1) /\ (wire = "ws" => cuts[s] = {})

TakenInv(s) ==
  /\ Len(took[s]) <= Len(wrote[OtherSide(s)])
  /\ \A i \in 1..Len(took[s]) : took[s][i] = IF i \in cuts[s] THEN "garbled" ELSE wrote[OtherSide(s)][i]

DirectionInv(s) ==
  Left(Stream(s), wrote[OtherSide(s)], Len(took[s])) /\ HalfInv(s) /\ CutsInv(s) /\ TakenInv(s)

WireTypeOK ==
  /\ wire \in {"tcp", "ws"}
  /\ outbound \in [Sides -> Seq(Messages)]
  /\ toWrite \in [Sides -> Seq(Chunk)] /\ socket \in [Sides -> Seq(Chunk)] /\ half \in [Sides -> Seq(Chunk)]
  /\ wrote \in [Sides -> Seq(Messages)] /\ took \in [Sides -> Seq(Frames)]
  /\ cuts \in [Sides -> SUBSET (Nat \ {0})]

WireInv == WireTypeOK /\ \A s \in Sides : DirectionInv(s)

\* A chunk leaves the front: the line ends with it, or goes on.
LEMMA FrontLeaves ==
  ASSUME NEW st \in Seq(Chunk), NEW ls \in Seq(Messages), NEW n \in Nat, Left(st, ls, n), st # << >>
  PROVE  /\ n + 1 <= Len(ls) /\ st[1].line = ls[n + 1]
         /\ Left(Tail(st), ls, IF st[1].last THEN n + 1 ELSE n)
         /\ ~st[1].last => Tail(st) # << >> /\ Tail(st)[1].part # 1
         /\ st[1].last /\ Tail(st) # << >> => Tail(st)[1].part = 1
<1> DEFINE rest == Tail(st)
<1>1. PICK at \in [1..Len(st) -> 1..Len(ls)] : IsLeft(st, ls, n, at)
  BY DEF Left
<1>2. /\ rest \in Seq(Chunk) /\ Len(rest) = Len(st) - 1 /\ \A i \in 1..Len(rest) : rest[i] = st[i + 1]
      /\ Len(st) \in Nat \ {0} /\ Len(ls) \in Nat
  BY HeadTailProperties, EmptySeq, LenProperties
<1>3. rest = << >> <=> Len(rest) = 0
  BY <1>2, EmptySeq
<1>4. at[1] = n + 1 /\ at[1] \in 1..Len(ls) /\ at[Len(st)] = Len(ls) /\ st[Len(st)].last
  BY <1>1, <1>2 DEF IsLeft
<1>5. ~st[1].last => Len(st) # 1
  BY <1>4
<1>6. st[1].last /\ Len(st) # 1 => at[2] = n + 2 /\ st[2].part = 1
  BY <1>1, <1>2, <1>4 DEF IsLeft
<1>7. ~st[1].last => at[2] = n + 1 /\ st[2].part # 1
  BY <1>1, <1>2, <1>4, <1>5 DEF IsLeft
<1> DEFINE m == IF st[1].last THEN n + 1 ELSE n
           later == [i \in 1..Len(rest) |-> at[i + 1]]
<1>8. later \in [1..Len(rest) -> 1..Len(ls)]
  BY <1>2
<1>9. IsLeft(rest, ls, m, later)
  <2>1. \A i \in 1..Len(rest) : rest[i].line = ls[later[i]]
    BY <1>1, <1>2 DEF IsLeft
  <2>2. \A i \in 1..(Len(rest) - 1) : IF rest[i].last THEN later[i + 1] = later[i] + 1 /\ rest[i + 1].part = 1
                                                      ELSE later[i + 1] = later[i] /\ rest[i + 1].part # 1
    <3> SUFFICES ASSUME NEW i \in 1..(Len(rest) - 1)
                 PROVE  IF rest[i].last THEN later[i + 1] = later[i] + 1 /\ rest[i + 1].part = 1
                                        ELSE later[i + 1] = later[i] /\ rest[i + 1].part # 1
      OBVIOUS
    <3>1. /\ i + 1 \in 1..(Len(st) - 1) /\ rest[i] = st[i + 1] /\ rest[i + 1] = st[(i + 1) + 1]
          /\ later[i] = at[i + 1] /\ later[i + 1] = at[(i + 1) + 1]
      BY <1>2
    <3>2. \A j \in 1..(Len(st) - 1) : IF st[j].last THEN at[j + 1] = at[j] + 1 /\ st[j + 1].part = 1
                                                    ELSE at[j + 1] = at[j] /\ st[j + 1].part # 1
      BY <1>1 DEF IsLeft
    <3> QED
      BY <3>1, <3>2
  <2>3. CASE rest = << >>
    <3>1. Len(st) = 1 /\ st[1].last
      BY <1>2, <1>3, <1>4, <2>3
    <3> QED
      BY <1>4, <2>1, <2>2, <2>3, <3>1 DEF IsLeft
  <2>4. CASE rest # << >>
    <3>3. Len(rest) \in Nat \ {0} /\ Len(rest) = Len(st) - 1
      BY <1>2, <1>3, <2>4
    <3>1. later[1] = at[2] /\ later[Len(rest)] = at[Len(st)] /\ rest[Len(rest)] = st[Len(st)]
      BY <1>2, <3>3
    <3>2. later[1] = m + 1
      BY <1>2, <1>6, <1>7, <3>1, <3>3
    <3> QED
      BY <1>4, <2>1, <2>2, <2>4, <3>1, <3>2 DEF IsLeft
  <2> QED
    BY <2>3, <2>4
<1>10. Left(rest, ls, m)
  BY <1>8, <1>9 DEF Left
<1>11. st[1].line = ls[n + 1]
  BY <1>1, <1>2, <1>4 DEF IsLeft
<1> HIDE DEF later, rest
<1>12. Len(st) # 1 => rest # << >> /\ rest[1] = st[2]
  BY <1>2, <1>3
<1>13. ~st[1].last => rest # << >> /\ rest[1].part # 1
  BY <1>5, <1>7, <1>12
<1>14. st[1].last /\ rest # << >> => rest[1].part = 1
  BY <1>2, <1>3, <1>6, <1>12
<1>15. n + 1 <= Len(ls)
  BY <1>4
<1> QED
  BY <1>10, <1>11, <1>13, <1>14, <1>15 DEF rest

LEMMA LineIsChunks ==
  ASSUME NEW l \in Messages
  PROVE  /\ ChunksOf(l) \in Seq(Chunk) /\ ChunksOf(l) # << >>
         /\ \A i \in 1..Len(ChunksOf(l)) :
              ChunksOf(l)[i] = [line |-> l, part |-> i, last |-> i = Len(ChunksOf(l))]
<1> DEFINE k == Chunks
<1>1. k \in Nat \ {0}
  BY WireAssumption
<1>2. ChunksOf(l) = [i \in 1..k |-> [line |-> l, part |-> i, last |-> i = k]]
  BY DEF ChunksOf
<1> HIDE DEF k
<1>3. ChunksOf(l) \in [1..k -> Chunk]
  BY <1>1, <1>2 DEF Chunk
<1>4. ChunksOf(l) \in Seq(Chunk) /\ Len(ChunksOf(l)) = k
  BY <1>1, <1>2, <1>3
<1> QED
  BY <1>1, <1>2, <1>4, EmptySeq

\* A line is begun.
LEMMA LineBegins ==
  ASSUME NEW st \in Seq(Chunk), NEW ls \in Seq(Messages), NEW n \in Nat, Left(st, ls, n), NEW l \in Messages
  PROVE  /\ Left(st \o ChunksOf(l), Append(ls, l), n)
         /\ st \o ChunksOf(l) # << >>
         /\ st # << >> => (st \o ChunksOf(l))[1] = st[1]
         /\ st = << >> => (st \o ChunksOf(l))[1].part = 1
<1> DEFINE cs == ChunksOf(l)
           new == st \o cs
           lines == Append(ls, l)
           a == Len(st)
           k == Len(cs)
<1>1. PICK at \in [1..Len(st) -> 1..Len(ls)] : IsLeft(st, ls, n, at)
  BY DEF Left
<1>2. /\ cs \in Seq(Chunk) /\ k \in Nat \ {0}
      /\ \A i \in 1..k : cs[i] = [line |-> l, part |-> i, last |-> i = k]
  BY LineIsChunks, EmptySeq
<1>3. /\ new \in Seq(Chunk) /\ Len(new) = a + k /\ a \in Nat
      /\ \A i \in 1..a : new[i] = st[i]
      /\ \A i \in 1..k : new[a + i] = cs[i]
  <2> HIDE DEF cs
  <2> QED
    BY <1>2, ConcatProperties, LenProperties
<1>4. /\ lines \in Seq(Messages) /\ Len(lines) = Len(ls) + 1 /\ Len(ls) \in Nat /\ lines[Len(ls) + 1] = l
      /\ \A i \in 1..Len(ls) : lines[i] = ls[i]
  <2>1. lines \in Seq(Messages) /\ Len(lines) = Len(ls) + 1
    BY AppendProperties
  <2>2. lines[Len(ls) + 1] = l
    BY AppendProperties
  <2>3. \A i \in 1..Len(ls) : lines[i] = ls[i]
    BY AppendProperties
  <2>4. Len(ls) \in Nat
    BY LenProperties
  <2> QED
    BY <2>1, <2>2, <2>3, <2>4
<1> DEFINE both == [i \in 1..(a + k) |-> IF i <= a THEN at[i] ELSE Len(ls) + 1]
<1>5. both \in [1..Len(new) -> 1..Len(lines)]
  BY <1>2, <1>3, <1>4
<1>6. /\ \A i \in 1..a : both[i] = at[i] /\ at[i] \in 1..Len(ls)
      /\ \A i \in 1..k : both[a + i] = Len(ls) + 1
  <2>1. a \in Nat /\ k \in Nat /\ at \in [1..a -> 1..Len(ls)]
    BY <1>2, <1>3
  <2> HIDE DEF a, k
  <2>2. \A i \in 1..a : both[i] = at[i] /\ at[i] \in 1..Len(ls)
    BY <2>1
  <2>3. \A i \in 1..k : both[a + i] = Len(ls) + 1
    BY <2>1
  <2> QED
    BY <2>2, <2>3
<1>7. new # << >> /\ (st = << >> <=> a = 0)
  BY <1>2, <1>3, EmptySeq
<1> HIDE DEF new, cs, lines, both, a, k
<1>12. \A j \in 1..k : /\ new[a + j].line = l /\ new[a + j].part = j /\ both[a + j] = Len(ls) + 1
                       /\ new[a + j].last <=> j = k
  <2> SUFFICES ASSUME NEW j \in 1..k
               PROVE  /\ new[a + j].line = l /\ new[a + j].part = j /\ both[a + j] = Len(ls) + 1
                      /\ new[a + j].last <=> j = k
    OBVIOUS
  <2>1. new[a + j] = [line |-> l, part |-> j, last |-> j = k] /\ both[a + j] = Len(ls) + 1
    BY <1>2, <1>3, <1>6
  <2>2. new[a + j].line = l /\ new[a + j].part = j
    BY <2>1
  <2>3. new[a + j].last = (j = k)
    BY <2>1
  <2> QED
    BY <2>1, <2>2, <2>3
<1>8. IsLeft(new, lines, n, both)
  <2>1. \A i \in 1..Len(new) : new[i].line = lines[both[i]]
    <3> SUFFICES ASSUME NEW i \in 1..(a + k) PROVE new[i].line = lines[both[i]]
      BY <1>3
    <3>1. CASE i <= a
      <4>1. st[i].line = ls[at[i]]
        BY <1>1, <1>3, <3>1 DEF IsLeft, a
      <4> QED
        BY <1>3, <1>4, <1>6, <3>1, <4>1
    <3>2. CASE i > a
      <4>1. PICK j \in 1..k : i = a + j
        <5>1. i - a \in 1..k /\ i = a + (i - a)
          BY <1>2, <1>3, <3>2
        <5> QED
          BY <5>1
      <4> QED
        BY <1>4, <1>12, <4>1
    <3> QED
      BY <1>2, <1>3, <3>1, <3>2
  <2>2. ASSUME NEW i \in 1..(Len(new) - 1)
        PROVE  IF new[i].last THEN both[i + 1] = both[i] + 1 /\ new[i + 1].part = 1
                              ELSE both[i + 1] = both[i] /\ new[i + 1].part # 1
    <3>1. CASE i < a
      <4>1. IF st[i].last THEN at[i + 1] = at[i] + 1 /\ st[i + 1].part = 1
                          ELSE at[i + 1] = at[i] /\ st[i + 1].part # 1
        BY <1>1, <1>3, <3>1 DEF IsLeft, a
      <4>2. i \in 1..a /\ i + 1 \in 1..a
        BY <1>3, <3>1
      <4> QED
        BY <1>3, <1>6, <4>1, <4>2
    <3>2. CASE i = a
      <4>1. at[a] = Len(ls) /\ st[a].last /\ a \in 1..a /\ 1 \in 1..k
        BY <1>1, <1>2, <1>3, <1>7, <3>2 DEF IsLeft, a
      <4>2. both[a] = Len(ls) /\ new[a].last /\ both[a + 1] = Len(ls) + 1 /\ new[a + 1].part = 1
        BY <1>3, <1>6, <1>12, <4>1
      <4> QED
        BY <3>2, <4>2
    <3>3. CASE i > a
      <4>1. PICK j \in 1..k : i = a + j /\ j # k /\ j + 1 \in 1..k /\ j + 1 # 1 /\ i + 1 = a + (j + 1)
        <5>1. /\ i - a \in 1..k /\ i = a + (i - a) /\ i - a # k
              /\ (i - a) + 1 \in 1..k /\ (i - a) + 1 # 1 /\ i + 1 = a + ((i - a) + 1)
          BY <1>2, <1>3, <3>3
        <5> QED
          BY <5>1
      <4>2. ~new[i].last
        BY <1>12, <4>1
      <4>3. both[i + 1] = both[i] /\ new[i + 1].part # 1
        BY <1>12, <4>1
      <4> QED
        BY <4>2, <4>3
    <3> QED
      BY <1>2, <1>3, <3>1, <3>2, <3>3
  <2>3. both[Len(new)] = Len(lines) /\ new[Len(new)].last
    <3>1. k \in 1..k /\ Len(new) = a + k
      BY <1>2, <1>3
    <3> QED
      BY <1>4, <1>12, <3>1
  <2>4. both[1] = n + 1
    <3>1. CASE a = 0
      <4>1. Len(ls) = n /\ 1 \in 1..k /\ a + 1 = 1
        BY <1>1, <1>2, <1>7, <3>1 DEF IsLeft
      <4> QED
        BY <1>6, <3>1, <4>1
    <3>2. CASE a # 0
      <4>1. at[1] = n + 1 /\ 1 \in 1..a
        BY <1>1, <1>3, <1>7, <3>2 DEF IsLeft
      <4> QED
        BY <1>6, <4>1
    <3> QED
      BY <3>1, <3>2
  <2> QED
    BY <1>7, <2>1, <2>2, <2>3, <2>4 DEF IsLeft
<1>9. Left(new, lines, n)
  BY <1>5, <1>8 DEF Left
<1>10. a # 0 => new[1] = st[1]
  BY <1>3
<1>11. a = 0 => new[1].part = 1
  <2>1. 1 \in 1..k
    BY <1>2
  <2> QED
    BY <1>12, <2>1
<1> QED
  BY <1>2, <1>3, <1>7, <1>9, <1>10, <1>11 DEF new, cs, lines

LEMMA SidesDiffer ==
  ASSUME NEW s \in Sides
  PROVE  OtherSide(s) \in Sides /\ OtherSide(s) # s /\ OtherSide(OtherSide(s)) = s
         /\ \A t \in Sides : t = s \/ t = OtherSide(s)
  BY DEF Sides, OtherSide

LEMMA StreamType ==
  ASSUME WireTypeOK, NEW s \in Sides
  PROVE  /\ Stream(s) \in Seq(Chunk) /\ wrote[OtherSide(s)] \in Seq(Messages) /\ Len(took[s]) \in Nat
         /\ half[s] \in Seq(Chunk) /\ socket[s] \in Seq(Chunk) /\ took[s] \in Seq(Frames)
         /\ toWrite[s] \in Seq(Chunk) /\ toWrite[OtherSide(s)] \in Seq(Chunk)
         /\ wrote[s] \in Seq(Messages)
<1>1. OtherSide(s) \in Sides
  BY SidesDiffer
<1>2. toWrite[OtherSide(s)] \in Seq(Chunk) /\ socket[s] \in Seq(Chunk)
  BY <1>1 DEF WireTypeOK
<1>3. Stream(s) \in Seq(Chunk)
  BY <1>2, ConcatProperties DEF Stream
<1> QED
  BY <1>1, <1>2, <1>3, LenProperties DEF WireTypeOK

\* Nothing of a direction moves but what its reader may have given up.
LEMMA DirectionRests ==
  ASSUME WireInv, NEW s \in Sides, wire' = wire, Stream(s)' = Stream(s),
         wrote'[OtherSide(s)] = wrote[OtherSide(s)], took'[s] = took[s],
         \/ half'[s] = half[s] /\ cuts'[s] = cuts[s]
         \/ /\ wire = "tcp" /\ half[s] # << >> /\ half'[s] = << >>
            /\ cuts'[s] = cuts[s] \cup {Len(took[s]) + 1}
  PROVE  DirectionInv(s)'
<1>1. DirectionInv(s)
  BY DEF WireInv
<1>2. Left(Stream(s), wrote[OtherSide(s)], Len(took[s]))'
  BY <1>1 DEF DirectionInv, Left, IsLeft
<1>3. HalfInv(s)'
  BY <1>1 DEF DirectionInv, HalfInv
<1>5. Len(took[s]) \in Nat /\ wire \in {"tcp", "ws"}
  BY StreamType DEF WireInv, WireTypeOK
<1>6. CutsInv(s)'
  BY <1>1, <1>5 DEF DirectionInv, CutsInv
<1>4. TakenInv(s)'
  BY <1>1, <1>5 DEF DirectionInv, TakenInv
<1> QED
  BY <1>2, <1>3, <1>4, <1>6 DEF DirectionInv

LEMMA LinesAreLines == \A m \in Messages : LineOf(m) \in Messages
<1> SUFFICES ASSUME NEW m \in Messages PROVE LineOf(m) \in Messages
  OBVIOUS
<1>1. CASE m = "new block"
  <2>1. LineOf(m) = "block hash"
    BY <1>1 DEF LineOf
  <2> QED
    BY <2>1 DEF Messages
<1>2. CASE m # "new block"
  <2>1. LineOf(m) = m
    BY <1>2 DEF LineOf
  <2> QED
    BY <2>1
<1> QED
  BY <1>1, <1>2

\* A monitor that writes nothing begins a message.
LEMMA BegunKeeps ==
  ASSUME WireInv, NEW s \in Sides, NEW m \in Messages, toWrite[s] = << >>, Begun(s, m), wire' = wire,
         half'[OtherSide(s)] = half[OtherSide(s)], socket'[OtherSide(s)] = socket[OtherSide(s)],
         took'[OtherSide(s)] = took[OtherSide(s)], cuts'[OtherSide(s)] = cuts[OtherSide(s)]
  PROVE  /\ toWrite' \in [Sides -> Seq(Chunk)] /\ wrote' \in [Sides -> Seq(Messages)]
         /\ toWrite'[OtherSide(s)] = toWrite[OtherSide(s)] /\ wrote'[OtherSide(s)] = wrote[OtherSide(s)]
         /\ DirectionInv(OtherSide(s))'
<1>0. WireTypeOK
  BY DEF WireInv
<1>1. PICK w \in Sides : w = OtherSide(s) /\ w # s /\ OtherSide(w) = s
  BY SidesDiffer
<1>2. CASE ~IsWritten(m)
  <2>1. UNCHANGED <<toWrite, wrote>>
    BY <1>2 DEF Begun
  <2>2. Stream(w)' = Stream(w)
    BY <1>1, <2>1 DEF Stream
  <2>3. DirectionInv(w)'
    BY <1>1, <2>1, <2>2, DirectionRests
  <2> QED
    BY <1>0, <1>1, <2>1, <2>3 DEF WireTypeOK
<1>3. CASE IsWritten(m)
  <2> DEFINE l == LineOf(m)
             st == Stream(w)
             ls == wrote[s]
             n == Len(took[w])
  <2>1. /\ toWrite' = [toWrite EXCEPT ![s] = ChunksOf(l)]
        /\ wrote' = [wrote EXCEPT ![s] = Append(ls, l)]
    BY <1>3 DEF Begun
  <2>2. /\ l \in Messages /\ st \in Seq(Chunk) /\ ls \in Seq(Messages) /\ n \in Nat
        /\ socket[w] \in Seq(Chunk) /\ took[w] \in Seq(Frames) /\ Left(st, ls, n)
    BY <1>0, <1>1, StreamType, LinesAreLines DEF WireInv, DirectionInv
  <2>3. Append(ls, l) \in Seq(Messages) /\ ChunksOf(l) \in Seq(Chunk)
    BY <2>2, LineIsChunks
  <2>4. /\ toWrite' \in [Sides -> Seq(Chunk)] /\ wrote' \in [Sides -> Seq(Messages)]
        /\ toWrite'[w] = toWrite[w] /\ wrote'[w] = wrote[w]
        /\ toWrite'[s] = ChunksOf(l) /\ wrote'[s] = Append(ls, l)
    BY <1>0, <1>1, <2>1, <2>3 DEF WireTypeOK
  <2>5. st = socket[w]
    BY <1>1, <2>2, ConcatEmptySeq DEF Stream
  <2>6. Stream(w)' = st \o ChunksOf(l)
    BY <1>1, <2>4, <2>5 DEF Stream
  <2>7. /\ Left(st \o ChunksOf(l), Append(ls, l), n)
        /\ st \o ChunksOf(l) # << >>
        /\ st # << >> => (st \o ChunksOf(l))[1] = st[1]
        /\ st = << >> => (st \o ChunksOf(l))[1].part = 1
    <3> HIDE DEF st, ls, n, l
    <3> QED
      BY <2>2, LineBegins
  <2>8. /\ Len(Append(ls, l)) = Len(ls) + 1 /\ Len(ls) \in Nat
        /\ \A i \in 1..Len(ls) : Append(ls, l)[i] = ls[i]
    <3>1. Len(Append(ls, l)) = Len(ls) + 1
      BY <2>2
    <3>2. \A i \in 1..Len(ls) : Append(ls, l)[i] = ls[i]
      <4> HIDE DEF ls, l
      <4> QED
        BY <2>2, AppendProperties
    <3> QED
      BY <2>2, <3>1, <3>2, LenProperties
  <2>9. HalfInv(w) /\ CutsInv(w) /\ TakenInv(w)
    BY DEF WireInv, DirectionInv
  <2>10. st # << >> => n + 1 \in 1..Len(ls)
    <3> HIDE DEF st, ls, n
    <3> QED
      BY <2>2, <2>8, FrontLeaves
  <2> HIDE DEF st, ls, n, l
  <2>11. Left(Stream(w), wrote[s], Len(took[w]))'
    BY <1>1, <2>4, <2>6, <2>7 DEF n
  <2>12. HalfInv(w)'
    <3> DEFINE cut == n + 1 \in cuts[w]
    <3>1. /\ half[w] # << >> => half[w][1].line = ls[n + 1] /\ (half[w][1].part = 1 <=> ~cut)
          /\ half[w] # << >> \/ cut => st # << >>
          /\ st # << >> => (st[1].part = 1 <=> half[w] = << >> /\ ~cut)
      BY <1>1, <2>9 DEF HalfInv, st, ls, n
    <3>2. half[w] # << >> => Append(ls, l)[n + 1] = ls[n + 1]
      BY <2>8, <2>10, <3>1
    <3>3. (st \o ChunksOf(l))[1].part = 1 <=> half[w] = << >> /\ ~cut
      BY <2>7, <3>1
    <3>4. /\ Stream(w)' = st \o ChunksOf(l) /\ wrote'[s] = Append(ls, l)
          /\ Len(took[w])' = n /\ half'[w] = half[w] /\ cuts'[w] = cuts[w]
      BY <1>1, <2>4, <2>6 DEF n
    <3> QED
      BY <1>1, <2>7, <3>1, <3>2, <3>3, <3>4 DEF HalfInv
  <2>13. TakenInv(w)'
    <3>1. n <= Len(ls) /\ \A i \in 1..n : took[w][i] = IF i \in cuts[w] THEN "garbled" ELSE ls[i]
      BY <1>1, <2>9 DEF TakenInv, ls, n
    <3>2. n <= Len(Append(ls, l)) /\ \A i \in 1..n : Append(ls, l)[i] = ls[i]
      BY <2>2, <2>8, <3>1
    <3>3. /\ Len(took[w])' = n /\ wrote'[s] = Append(ls, l) /\ took'[w] = took[w]
          /\ cuts'[w] = cuts[w] /\ OtherSide(w) = s
      BY <1>1, <2>4 DEF n
    <3>4. ASSUME NEW i \in 1..n PROVE took[w][i] = IF i \in cuts[w] THEN "garbled" ELSE Append(ls, l)[i]
      BY <3>1, <3>2, <3>4
    <3> QED
      BY <3>2, <3>3, <3>4 DEF TakenInv
  <2>14. CutsInv(w)'
    BY <1>1, <2>9 DEF CutsInv
  <2> QED
    BY <1>1, <2>4, <2>11, <2>12, <2>13, <2>14 DEF DirectionInv
<1> QED
  BY <1>2, <1>3

\* The first chunk of what is under way is that of the socket, and reading it leaves the rest.
LEMMA SocketFirst ==
  ASSUME WireTypeOK, NEW s \in Sides, socket[s] # << >>
  PROVE  /\ Stream(s) # << >> /\ Stream(s)[1] = Head(socket[s])
         /\ Tail(socket[s]) \o toWrite[OtherSide(s)] = Tail(Stream(s))
<1> DEFINE a == socket[s]
           b == toWrite[OtherSide(s)]
<1>1. a \in Seq(Chunk) /\ b \in Seq(Chunk) /\ a # << >>
  BY StreamType
<1> HIDE DEF a, b
<1>2. /\ a \o b \in Seq(Chunk) /\ Len(a \o b) = Len(a) + Len(b) /\ Len(a) \in Nat \ {0} /\ Len(b) \in Nat
      /\ \A i \in 1..(Len(a) + Len(b)) : (a \o b)[i] = IF i <= Len(a) THEN a[i] ELSE b[i - Len(a)]
  BY <1>1, ConcatProperties, EmptySeq, LenProperties
<1>3. a \o b # << >> /\ (a \o b)[1] = Head(a)
  BY <1>1, <1>2, EmptySeq
<1>4. /\ Tail(a) \in Seq(Chunk) /\ Len(Tail(a)) = Len(a) - 1 /\ \A i \in 1..(Len(a) - 1) : Tail(a)[i] = a[i + 1]
  BY <1>1, HeadTailProperties
<1>5. /\ Tail(a) \o b \in Seq(Chunk) /\ Len(Tail(a) \o b) = Len(a) - 1 + Len(b)
      /\ \A i \in 1..(Len(a) - 1 + Len(b)) :
           (Tail(a) \o b)[i] = IF i <= Len(a) - 1 THEN Tail(a)[i] ELSE b[i - (Len(a) - 1)]
  BY <1>1, <1>4, ConcatProperties
<1>6. /\ Tail(a \o b) \in Seq(Chunk) /\ Len(Tail(a \o b)) = Len(a) + Len(b) - 1
      /\ \A i \in 1..(Len(a) + Len(b) - 1) : Tail(a \o b)[i] = (a \o b)[i + 1]
  BY <1>2, <1>3, HeadTailProperties
<1>7. \A i \in 1..(Len(a) - 1 + Len(b)) : (Tail(a) \o b)[i] = Tail(a \o b)[i]
  <2> SUFFICES ASSUME NEW i \in 1..(Len(a) - 1 + Len(b)) PROVE (Tail(a) \o b)[i] = Tail(a \o b)[i]
    OBVIOUS
  <2>1. Tail(a \o b)[i] = (a \o b)[i + 1] /\ i + 1 \in 1..(Len(a) + Len(b))
    BY <1>2, <1>6
  <2>2. CASE i <= Len(a) - 1
    BY <1>2, <1>4, <1>5, <2>1, <2>2
  <2>3. CASE i > Len(a) - 1
    <3>1. (a \o b)[i + 1] = b[i + 1 - Len(a)]
      BY <1>2, <2>1, <2>3
    <3>2. (Tail(a) \o b)[i] = b[i - (Len(a) - 1)]
      BY <1>2, <1>5, <2>3
    <3>3. i + 1 - Len(a) = i - (Len(a) - 1)
      BY <1>2
    <3> QED
      BY <2>1, <3>1, <3>2, <3>3
  <2> QED
    BY <1>2, <2>2, <2>3
<1>8. Tail(a) \o b = Tail(a \o b)
  <2>1. Len(Tail(a) \o b) = Len(Tail(a \o b))
    BY <1>2, <1>5, <1>6
  <2> QED
    BY <1>5, <1>6, <1>7, <2>1, SeqEqual
<1> QED
  BY <1>3, <1>8 DEF Stream, a, b

\* A chunk moves from the writer to the socket.
LEMMA ChunkMoves ==
  ASSUME NEW a \in Seq(Chunk), NEW b \in Seq(Chunk), b # << >>
  PROVE  Append(a, Head(b)) \o Tail(b) = a \o b
<1>1. Head(b) \in Chunk /\ Tail(b) \in Seq(Chunk)
  BY HeadTailProperties
<1>2. Append(a, Head(b)) = a \o <<Head(b)>>
  BY <1>1, AppendIsConcat
<1>3. <<Head(b)>> \in Seq(Chunk) /\ <<Head(b)>> \o Tail(b) = b
  <2>1. <<Head(b)>> \in Seq(Chunk)
    BY <1>1
  <2>2. 1 \in 1..Len(b) /\ Len(b) \in 1..Len(b) /\ SubSeq(b, 1, Len(b)) = b /\ Tail(b) = SubSeq(b, 2, Len(b)) /\ Head(b) = b[1]
    BY EmptySeq, SubSeqFull, TailIsSubSeq
  <2>3. SubSeq(b, 1, Len(b)) = <<b[1]>> \o SubSeq(b, 1 + 1, Len(b))
    BY <2>2, SubSeqRecursiveFirst
  <2> QED
    BY <2>1, <2>2, <2>3
<1> QED
  BY <1>1, <1>2, <1>3, ConcatAssociative

LEMMA WireStart == WireInit => WireInv
<1> SUFFICES ASSUME WireInit PROVE WireInv
  OBVIOUS
<1>1. << >> \in Seq(Chunk) /\ << >> \in Seq(Messages) /\ << >> \in Seq(Frames) /\ Len(<< >>) = 0 /\ << >> \o << >> = << >>
  BY EmptySeq, ConcatEmptySeq
<1>2. WireTypeOK
  BY <1>1, WireAssumption DEF WireInit, WireTypeOK, Sides
<1>3. ASSUME NEW s \in Sides PROVE DirectionInv(s)
  <2>1. Stream(s) = << >> /\ wrote[OtherSide(s)] = << >> /\ took[s] = << >> /\ half[s] = << >>
    BY <1>1, SidesDiffer DEF WireInit, Stream
  <2> DEFINE none == [i \in 1..0 |-> i]
  <2>2. none \in [1..0 -> 1..0]
    OBVIOUS
  <2>3. IsLeft(<< >>, << >>, 0, none)
    BY <1>1 DEF IsLeft
  <2>4. Left(<< >>, << >>, 0)
    BY <1>1, <2>2, <2>3 DEF Left
  <2> QED
    BY <1>1, <2>1, <2>4 DEF DirectionInv, HalfInv, CutsInv, TakenInv, WireInit
<1> QED
  BY <1>2, <1>3 DEF WireInv

\* The monitor begins a message of its own and gives up the read under way.
LEMMA OwnMessageKeeps ==
  ASSUME WireInv, NEW s \in Sides, NEW m \in Messages, Selects(s), GivenUp(s), Begun(s, m),
         UNCHANGED <<wire, socket, took>>, outbound' \in [Sides -> Seq(Messages)]
  PROVE  WireInv'
<1>0. WireTypeOK
  BY DEF WireInv
<1>1. PICK w \in Sides : w = OtherSide(s) /\ w # s /\ OtherSide(w) = s /\ \A t \in Sides : t = s \/ t = w
  BY SidesDiffer
<1>2. half' = [half EXCEPT ![s] = KeptOf(s)] /\ KeptOf(s) \in Seq(Chunk)
  BY <1>0, StreamType, EmptySeq DEF GivenUp, KeptOf
<1>3. half' \in [Sides -> Seq(Chunk)] /\ half'[w] = half[w] /\ half'[s] = KeptOf(s)
  BY <1>0, <1>1, <1>2 DEF WireTypeOK
<1>8. Len(took[s]) + 1 \in Nat \ {0} /\ cuts \in [Sides -> SUBSET (Nat \ {0})]
  BY <1>0, StreamType DEF WireTypeOK
<1>9. /\ cuts' \in [Sides -> SUBSET (Nat \ {0})] /\ cuts'[w] = cuts[w]
      /\ \/ half'[s] = half[s] /\ cuts'[s] = cuts[s]
         \/ /\ wire = "tcp" /\ half[s] # << >> /\ half'[s] = << >>
            /\ cuts'[s] = cuts[s] \cup {Len(took[s]) + 1}
  <2>1. CASE KeptOf(s) = half[s]
    BY <1>3, <1>8, <2>1 DEF GivenUp
  <2>2. CASE KeptOf(s) # half[s]
    <3>1. wire = "tcp" /\ half[s] # << >> /\ KeptOf(s) = << >>
      BY <1>0, <2>2 DEF KeptOf, WireTypeOK
    <3>2. cuts' = [cuts EXCEPT ![s] = cuts[s] \cup {Len(took[s]) + 1}]
      BY <2>2 DEF GivenUp
    <3> QED
      BY <1>1, <1>3, <1>8, <3>1, <3>2
  <2> QED
    BY <2>1, <2>2
<1>4. /\ toWrite' \in [Sides -> Seq(Chunk)] /\ wrote' \in [Sides -> Seq(Messages)]
      /\ toWrite'[w] = toWrite[w] /\ wrote'[w] = wrote[w] /\ DirectionInv(w)'
  BY <1>1, <1>3, <1>9, BegunKeeps DEF Selects
<1>5. Stream(s)' = Stream(s)
  BY <1>1, <1>4 DEF Stream
<1>6. DirectionInv(s)'
  BY <1>1, <1>4, <1>5, <1>9, DirectionRests
<1>7. WireTypeOK'
  BY <1>0, <1>3, <1>4, <1>9 DEF WireTypeOK
<1> QED
  BY <1>1, <1>4, <1>6, <1>7 DEF WireInv

LEMMA WriteChunkKeeps ==
  ASSUME WireInv, NEW s \in Sides, WriteChunk(s)
  PROVE  WireInv'
<1>0. WireTypeOK
  BY DEF WireInv
<1>1. PICK w \in Sides : w = OtherSide(s) /\ w # s /\ OtherSide(w) = s /\ \A t \in Sides : t = s \/ t = w
  BY SidesDiffer
<1>2. toWrite[s] \in Seq(Chunk) /\ toWrite[s] # << >> /\ socket[w] \in Seq(Chunk)
  BY <1>0, <1>1, StreamType DEF WriteChunk
<1>3. /\ Head(toWrite[s]) \in Chunk /\ Tail(toWrite[s]) \in Seq(Chunk)
      /\ Append(socket[w], Head(toWrite[s])) \in Seq(Chunk)
  BY <1>2, HeadTailProperties
<1>4. /\ toWrite' = [toWrite EXCEPT ![s] = Tail(toWrite[s])]
      /\ socket' = [socket EXCEPT ![w] = Append(socket[w], Head(toWrite[s]))]
      /\ UNCHANGED <<wire, outbound, half, silent, linked, wrote, took, cuts, ticks>>
  BY <1>1 DEF WriteChunk
<1>5. /\ toWrite' \in [Sides -> Seq(Chunk)] /\ socket' \in [Sides -> Seq(Chunk)]
      /\ toWrite'[s] = Tail(toWrite[s]) /\ toWrite'[w] = toWrite[w]
      /\ socket'[w] = Append(socket[w], Head(toWrite[s])) /\ socket'[s] = socket[s]
  BY <1>0, <1>1, <1>3, <1>4 DEF WireTypeOK
<1>6. Stream(w)' = Stream(w) /\ Stream(s)' = Stream(s)
  <2>1. Append(socket[w], Head(toWrite[s])) \o Tail(toWrite[s]) = socket[w] \o toWrite[s]
    BY <1>2, ChunkMoves
  <2> QED
    BY <1>1, <1>5, <2>1 DEF Stream
<1>7. DirectionInv(w)' /\ DirectionInv(s)'
  BY <1>1, <1>4, <1>6, DirectionRests
<1>8. WireTypeOK'
  BY <1>0, <1>4, <1>5 DEF WireTypeOK
<1> QED
  BY <1>1, <1>7, <1>8 DEF WireInv

LEMMA ReadChunkKeeps ==
  ASSUME WireInv, NEW s \in Sides, ReadChunk(s)
  PROVE  WireInv'
<1>0. WireTypeOK /\ DirectionInv(s)
  BY DEF WireInv
<1>1. PICK w \in Sides : w = OtherSide(s) /\ w # s /\ OtherSide(w) = s /\ \A t \in Sides : t = s \/ t = w
  BY SidesDiffer
<1> DEFINE c == Head(socket[s])
           st == Stream(s)
<1>2. /\ socket[s] \in Seq(Chunk) /\ socket[s] # << >> /\ c \in Chunk /\ Tail(socket[s]) \in Seq(Chunk)
      /\ half[s] \in Seq(Chunk) /\ Append(half[s], c) \in Seq(Chunk) /\ ~c.last
  BY <1>0, StreamType, HeadTailProperties DEF ReadChunk
<1>3. /\ half' = [half EXCEPT ![s] = Append(half[s], c)]
      /\ socket' = [socket EXCEPT ![s] = Tail(socket[s])]
      /\ UNCHANGED <<wire, outbound, toWrite, silent, linked, wrote, took, cuts, ticks>>
  BY DEF ReadChunk
<1>4. /\ half' \in [Sides -> Seq(Chunk)] /\ socket' \in [Sides -> Seq(Chunk)]
      /\ half'[s] = Append(half[s], c) /\ half'[w] = half[w]
      /\ socket'[s] = Tail(socket[s]) /\ socket'[w] = socket[w]
  BY <1>0, <1>1, <1>2, <1>3 DEF WireTypeOK
<1>5. st # << >> /\ st[1] = c /\ Stream(s)' = Tail(st)
  BY <1>0, <1>1, <1>2, <1>3, <1>4, SocketFirst DEF Stream
<1>6. /\ st \in Seq(Chunk) /\ wrote[w] \in Seq(Messages) /\ Len(took[s]) \in Nat
      /\ Left(st, wrote[w], Len(took[s]))
  BY <1>0, <1>1, StreamType DEF DirectionInv
<1> HIDE DEF c, st
<1>14. ~st[1].last
  BY <1>2, <1>5
<1>15. /\ st[1].line = wrote[w][Len(took[s]) + 1]
       /\ Left(Tail(st), wrote[w], IF st[1].last THEN Len(took[s]) + 1 ELSE Len(took[s]))
       /\ ~st[1].last => Tail(st) # << >> /\ Tail(st)[1].part # 1
  BY <1>5, <1>6, FrontLeaves
<1>7. /\ st[1].line = wrote[w][Len(took[s]) + 1]
      /\ Left(Tail(st), wrote[w], Len(took[s])) /\ Tail(st) # << >> /\ Tail(st)[1].part # 1
  BY <1>14, <1>15
<1>8. HalfInv(s)'
  <2>1. Append(half[s], c) # << >> /\ half[s] = << >> => Append(half[s], c)[1] = c
    BY <1>2
  <2>2. Append(half[s], c) # << >> /\ (half[s] # << >> => Append(half[s], c)[1] = half[s][1])
    BY <1>2, EmptySeq, AppendProperties
  <2> DEFINE cut == Len(took[s]) + 1 \in cuts[s]
  <2>3. /\ half[s] # << >> => half[s][1].line = wrote[w][Len(took[s]) + 1] /\ (half[s][1].part = 1 <=> ~cut)
        /\ st[1].part = 1 <=> half[s] = << >> /\ ~cut
    BY <1>0, <1>1, <1>5 DEF DirectionInv, HalfInv, st
  <2>4. /\ Append(half[s], c)[1].line = wrote[w][Len(took[s]) + 1]
        /\ Append(half[s], c)[1].part = 1 <=> ~cut
    BY <1>2, <1>5, <1>7, <2>1, <2>2, <2>3
  <2>5. took' = took /\ cuts' = cuts /\ wrote' = wrote
    BY <1>3
  <2> QED
    BY <1>1, <1>4, <1>5, <1>7, <2>2, <2>4, <2>5 DEF HalfInv
<1>9. TakenInv(s)' /\ CutsInv(s)'
  BY <1>0, <1>3 DEF DirectionInv, TakenInv, CutsInv
<1>10. DirectionInv(s)'
  BY <1>1, <1>3, <1>5, <1>7, <1>8, <1>9 DEF DirectionInv
<1>11. Stream(w)' = Stream(w)
  BY <1>1, <1>3, <1>4 DEF Stream
<1>12. DirectionInv(w)'
  BY <1>1, <1>3, <1>4, <1>11, DirectionRests
<1>13. WireTypeOK'
  BY <1>0, <1>3, <1>4 DEF WireTypeOK
<1> QED
  BY <1>1, <1>10, <1>12, <1>13 DEF WireInv

LEMMA AnswersAreMessages == \A frame : Answer(frame) \subseteq Messages
<1> SUFFICES ASSUME NEW frame PROVE Answer(frame) \subseteq Messages
  OBVIOUS
<1>1. \/ Answer(frame) = {"pong"}
      \/ Answer(frame) = {"headers", "no headers"}
      \/ Answer(frame) = {"block body", "full block"}
      \/ Answer(frame) = {"state snapshot", "full block"}
      \/ Answer(frame) = {"full block"}
  BY DEF Answer
<1>2. /\ "pong" \in Messages /\ "headers" \in Messages /\ "no headers" \in Messages
      /\ "block body" \in Messages /\ "full block" \in Messages /\ "state snapshot" \in Messages
  BY DEF Messages
<1> QED
  BY <1>1, <1>2, Zenon

LEMMA TakeFrameKeeps ==
  ASSUME WireInv, NEW s \in Sides, TakeFrame(s)
  PROVE  WireInv'
<1>0. WireTypeOK /\ DirectionInv(s)
  BY DEF WireInv
<1>1. PICK w \in Sides : w = OtherSide(s) /\ w # s /\ OtherSide(w) = s /\ \A t \in Sides : t = s \/ t = w
  BY SidesDiffer
<1> DEFINE c == Head(socket[s])
           st == Stream(s)
           chunks == Append(half[s], c)
           line == IF Whole(chunks) THEN chunks[1].line ELSE "garbled"
           n == Len(took[s])
<1>2. /\ socket[s] \in Seq(Chunk) /\ socket[s] # << >> /\ c \in Chunk /\ Tail(socket[s]) \in Seq(Chunk)
      /\ half[s] \in Seq(Chunk) /\ chunks \in Seq(Chunk) /\ c.last
  BY <1>0, StreamType, HeadTailProperties DEF TakeFrame
<1>3. PICK m \in Answer(FrameIn(chunks)) : Begun(s, m)
  BY DEF TakeFrame
<1>4. m \in Messages
  BY <1>3, AnswersAreMessages
<1>5. /\ took' = [took EXCEPT ![s] = Append(took[s], line)]
      /\ half' = [half EXCEPT ![s] = << >>]
      /\ socket' = [socket EXCEPT ![s] = Tail(socket[s])]
      /\ UNCHANGED <<wire, outbound, cuts, ticks>>
      /\ toWrite[s] = << >>
  BY DEF TakeFrame, Selects
<1>6. chunks # << >> /\ 1 \in 1..Len(chunks) /\ chunks[1] \in Chunk /\ chunks[1].line \in Messages
  <2>1. chunks # << >> /\ 1 \in 1..Len(chunks)
    BY <1>2, EmptySeq, AppendProperties
  <2>2. chunks[1] \in Chunk
    BY <1>2, <2>1, ElementOfSeq
  <2> QED
    BY <2>1, <2>2 DEF Chunk
<1>7. line \in Frames /\ << >> \in Seq(Chunk)
  <2> HIDE DEF chunks
  <2> QED
    BY <1>6, EmptySeq DEF Frames
<1> HIDE DEF line
<1>8. /\ half' \in [Sides -> Seq(Chunk)] /\ socket' \in [Sides -> Seq(Chunk)] /\ took' \in [Sides -> Seq(Frames)]
      /\ half'[s] = << >> /\ half'[w] = half[w] /\ took'[s] = Append(took[s], line) /\ took'[w] = took[w]
      /\ socket'[s] = Tail(socket[s]) /\ socket'[w] = socket[w]
  <2>1. took[s] \in Seq(Frames) /\ Append(took[s], line) \in Seq(Frames)
    BY <1>0, <1>7, StreamType
  <2> QED
    BY <1>0, <1>1, <1>2, <1>5, <1>7, <2>1 DEF WireTypeOK
<1>9. /\ toWrite' \in [Sides -> Seq(Chunk)] /\ wrote' \in [Sides -> Seq(Messages)]
      /\ toWrite'[w] = toWrite[w] /\ wrote'[w] = wrote[w] /\ DirectionInv(w)'
  BY <1>1, <1>3, <1>4, <1>5, <1>8, BegunKeeps
<1>10. st # << >> /\ st[1] = c /\ Stream(s)' = Tail(st)
  BY <1>0, <1>1, <1>2, <1>8, <1>9, SocketFirst DEF Stream
<1>11. /\ st \in Seq(Chunk) /\ wrote[w] \in Seq(Messages) /\ n \in Nat /\ took[s] \in Seq(Frames)
       /\ Left(st, wrote[w], n)
  BY <1>0, <1>1, StreamType DEF DirectionInv
<1> HIDE DEF c, st, n
<1>12. /\ n + 1 <= Len(wrote[w]) /\ st[1].line = wrote[w][n + 1]
       /\ Left(Tail(st), wrote[w], n + 1)
       /\ Tail(st) # << >> => Tail(st)[1].part = 1
  <2>1. st[1].last
    BY <1>2, <1>10
  <2>2. /\ n + 1 <= Len(wrote[w]) /\ st[1].line = wrote[w][n + 1]
        /\ Left(Tail(st), wrote[w], IF st[1].last THEN n + 1 ELSE n)
        /\ st[1].last /\ Tail(st) # << >> => Tail(st)[1].part = 1
    BY <1>10, <1>11, FrontLeaves
  <2> QED
    BY <2>1, <2>2
<1>13. line = IF n + 1 \in cuts[s] THEN "garbled" ELSE wrote[w][n + 1]
  <2>1. CASE half[s] = << >>
    <3>1. chunks[1] = st[1] /\ (st[1].part = 1 <=> n + 1 \notin cuts[s])
      BY <1>0, <1>1, <1>2, <1>10, <2>1 DEF DirectionInv, HalfInv, st, n
    <3> HIDE DEF chunks
    <3> QED
      BY <1>12, <3>1 DEF line, Whole
  <2>2. CASE half[s] # << >>
    <3>1. /\ chunks[1] = half[s][1] /\ half[s][1].line = wrote[w][n + 1]
          /\ half[s][1].part = 1 <=> n + 1 \notin cuts[s]
      BY <1>0, <1>1, <1>2, <2>2, EmptySeq, AppendProperties DEF DirectionInv, HalfInv, n
    <3> HIDE DEF chunks
    <3> QED
      BY <3>1 DEF line, Whole
  <2> QED
    BY <2>1, <2>2
<1>14. /\ Len(took'[s]) = n + 1 /\ took'[s][n + 1] = line
       /\ \A i \in 1..n : took'[s][i] = took[s][i]
  <2>1. Len(Append(took[s], line)) = n + 1
    BY <1>7, <1>11 DEF n
  <2>2. Append(took[s], line)[n + 1] = line
    BY <1>7, <1>11, AppendProperties DEF n
  <2>3. \A i \in 1..n : Append(took[s], line)[i] = took[s][i]
    BY <1>7, <1>11, AppendProperties DEF n
  <2> QED
    BY <1>8, <2>1, <2>2, <2>3
<1>19. cuts[s] \subseteq 1..(n + 1) /\ (wire = "ws" => cuts[s] = {})
  BY <1>0 DEF DirectionInv, CutsInv, n
<1>20. n + 1 + 1 \notin cuts[s] /\ cuts[s] \subseteq 1..(n + 1 + 1)
  BY <1>11, <1>19
<1>15. HalfInv(s)' /\ CutsInv(s)'
  <2>1. Len(took'[s]) = n + 1 /\ cuts' = cuts /\ wire' = wire
    BY <1>5, <1>14
  <2> QED
    BY <1>8, <1>10, <1>12, <1>19, <1>20, <2>1 DEF HalfInv, CutsInv
<1>16. TakenInv(s)'
  <2>1. \A i \in 1..n : took[s][i] = IF i \in cuts[s] THEN "garbled" ELSE wrote[w][i]
    BY <1>0, <1>1 DEF DirectionInv, TakenInv, n
  <2> SUFFICES ASSUME NEW i \in 1..(n + 1)
               PROVE  took'[s][i] = IF i \in cuts[s] THEN "garbled" ELSE wrote[w][i]
    BY <1>1, <1>5, <1>9, <1>11, <1>12, <1>14 DEF TakenInv
  <2>2. i \in 1..n \/ i = n + 1
    BY <1>11
  <2> QED
    BY <1>13, <1>14, <2>1, <2>2
<1>17. DirectionInv(s)'
  BY <1>1, <1>9, <1>10, <1>12, <1>14, <1>15, <1>16 DEF DirectionInv
<1>18. WireTypeOK'
  BY <1>0, <1>5, <1>8, <1>9 DEF WireTypeOK
<1> QED
  BY <1>1, <1>9, <1>17, <1>18 DEF WireInv

LEMMA WireStepInv == WireInv /\ [WireNext]_wireVars => WireInv'
<1> SUFFICES ASSUME WireInv, [WireNext]_wireVars PROVE WireInv'
  OBVIOUS
<1>0. WireTypeOK
  BY DEF WireInv
<1>1. ASSUME NEW s \in Sides, Heartbeat(s) PROVE WireInv'
  <2>1. "ping" \in Messages
    BY DEF Messages
  <2> QED
    BY <1>0, <1>1, <2>1, OwnMessageKeeps DEF Heartbeat, WireTypeOK
<1>2. ASSUME NEW s \in Sides, AnnounceHead(s) PROVE WireInv'
  <2>1. "head" \in Messages
    BY DEF Messages
  <2> QED
    BY <1>0, <1>2, <2>1, OwnMessageKeeps DEF AnnounceHead, WireTypeOK
<1>3. ASSUME NEW s \in Sides, SendOutbound(s) PROVE WireInv'
  <2>1. outbound \in [Sides -> Seq(Messages)] /\ outbound[s] \in Seq(Messages) /\ outbound[s] # << >>
    BY <1>0, <1>3 DEF SendOutbound, WireTypeOK
  <2>2. Head(outbound[s]) \in Messages /\ Tail(outbound[s]) \in Seq(Messages)
    BY <2>1, HeadTailProperties
  <2>3. outbound' \in [Sides -> Seq(Messages)]
    BY <1>3, <2>1, <2>2 DEF SendOutbound
  <2> QED
    BY <1>3, <2>2, <2>3, OwnMessageKeeps DEF SendOutbound
<1>4. ASSUME NEW s \in Sides, FrameFails(s) \/ PeerClosed(s) \/ UNCHANGED wireVars PROVE WireInv'
  <2>1. UNCHANGED <<wire, outbound, toWrite, socket, half, wrote, took, cuts>>
    BY <1>4 DEF FrameFails, PeerClosed, wireVars
  <2>2. ASSUME NEW t \in Sides PROVE DirectionInv(t)'
    <3>1. Stream(t)' = Stream(t)
      BY <2>1 DEF Stream
    <3> QED
      BY <2>1, <3>1, DirectionRests
  <2>3. WireTypeOK'
    BY <1>0, <2>1 DEF WireTypeOK
  <2> QED
    BY <2>2, <2>3 DEF WireInv
<1>5. "dialer" \in Sides
  BY DEF Sides
<1> QED
  BY <1>1, <1>2, <1>3, <1>4, <1>5, WriteChunkKeeps, ReadChunkKeeps, TakeFrameKeeps DEF WireNext

(* For any scripts of messages, any length of lines and any room in the sockets: a monitor takes the *)
(* lines of its peer in their order and whole, but for the rest of each line of which it gave up a    *)
(* read in the middle, which is one frame in that line's place; over a websocket it takes them all whole. *)
THEOREM WireKeepsOrder == WireSpec => []InOrder
<1>1. WireInv => InOrder
  <2> SUFFICES ASSUME WireInv, NEW s \in Sides
               PROVE  /\ Len(took[s]) <= Len(wrote[OtherSide(s)])
                      /\ \A i \in DOMAIN took[s] :
                           took[s][i] = IF i \in cuts[s] THEN "garbled" ELSE wrote[OtherSide(s)][i]
                      /\ wire = "ws" => cuts[s] = {}
    BY DEF InOrder
  <2>1. DOMAIN took[s] = 1..Len(took[s])
    BY StreamType, LenProperties DEF WireInv
  <2> QED
    BY <2>1 DEF WireInv, DirectionInv, TakenInv, CutsInv
<1> QED
  BY <1>1, WireStart, WireStepInv, PTL DEF WireSpec

-----------------------------------------------------------------------------
(* The table of known nodes: KnownIsBucketed, kept by each record and so by any *)
(* sequence of them that is folded into the table.                              *)
Records == [id : PeerIds, host : Hosts]
BucketNumbers == 0..(IdBits - 1)
IdsIn(buckets) == UNION {{buckets[b][i].id : i \in DOMAIN buckets[b]} : b \in DOMAIN buckets}

BucketsInv(buckets) ==
  \A b \in DOMAIN buckets : /\ Len(buckets[b]) <= BucketSize
                            /\ \A i, j \in DOMAIN buckets[b] : buckets[b][i].id = buckets[b][j].id => i = j
                            /\ \A i \in DOMAIN buckets[b] : BucketIndex(buckets[b][i].id) = b

\* The states of the table that agree with the map, but for the ids removed from it.
Tables(removed) ==
  {st \in [buckets : [BucketNumbers -> Seq(Records)], nodes : UNION {[ids -> Records] : ids \in SUBSET PeerIds}] :
     BucketsInv(st.buckets) /\ DOMAIN st.nodes \cup removed = IdsIn(st.buckets)}

TableInv == State \in Tables(removedNodes)

LEMMA EveryIdHasABucket ==
  ASSUME NEW id \in PeerIds
  PROVE  BucketIndex(id) \in BucketNumbers
<1> DEFINE d == Distance(LocalId, id)
           K == {k \in 0..(IdBits - 1) : 2^k <= d}
<1>1. d \in Nat \ {0} /\ IdBits \in Nat \ {0}
  BY DiscoveryAssumption
<1>2. IsFiniteSet(0..(IdBits - 1)) /\ Cardinality(0..(IdBits - 1)) = IdBits
  BY <1>1, FS_Interval
<1>3. 2^0 = 1
  OBVIOUS
<1> HIDE DEF d
<1>4. 0 \in K
  BY <1>1, <1>3
<1>5. IsFiniteSet(K) /\ Cardinality(K) <= IdBits /\ Cardinality(K) \in Nat
  BY <1>2, FS_Subset, FS_CardinalityType
<1>6. Cardinality(K) # 0
  BY <1>4, <1>5, FS_EmptySet
<1>7. BucketIndex(id) = IdBits - 1 - (IdBits - Cardinality(K))
  BY DEF BucketIndex, LeadingZerosOf, d
<1> HIDE DEF K
<1> QED
  BY <1>1, <1>5, <1>6, <1>7 DEF BucketNumbers

LEMMA TablesWith ==
  ASSUME NEW removed, NEW buckets \in [BucketNumbers -> Seq(Records)], BucketsInv(buckets),
         NEW nodes \in UNION {[ids -> Records] : ids \in SUBSET PeerIds},
         DOMAIN nodes \cup removed = IdsIn(buckets)
  PROVE  [buckets |-> buckets, nodes |-> nodes] \in Tables(removed)
  BY DEF Tables

LEMMA InsertKeeps ==
  ASSUME NEW removed, NEW st \in Tables(removed), NEW r \in Records
  PROVE  InsertNodeRecord(st, r) \in Tables(removed)
<1> DEFINE b == BucketIndex(r.id)
           bucket == st.buckets[b]
           nodes == Mapped(st.nodes, r)
           more == [st.buckets EXCEPT ![b] = Append(bucket, r)]
<1>1. /\ r.id \in PeerIds /\ b \in BucketNumbers
      /\ st.buckets \in [BucketNumbers -> Seq(Records)] /\ bucket \in Seq(Records)
      /\ st.nodes \in UNION {[ids -> Records] : ids \in SUBSET PeerIds}
      /\ BucketsInv(st.buckets) /\ DOMAIN st.nodes \cup removed = IdsIn(st.buckets)
      /\ st = [buckets |-> st.buckets, nodes |-> st.nodes]
  BY EveryIdHasABucket DEF Tables, Records
<1>2. /\ nodes \in UNION {[ids -> Records] : ids \in SUBSET PeerIds}
      /\ DOMAIN nodes = DOMAIN st.nodes \cup {r.id}
  <2>1. PICK ids \in SUBSET PeerIds : st.nodes \in [ids -> Records]
    BY <1>1
  <2>2. nodes \in [ids \cup {r.id} -> Records] /\ ids \cup {r.id} \in SUBSET PeerIds
    BY <1>1, <2>1 DEF Mapped
  <2> QED
    BY <2>1, <2>2
<1> HIDE DEF nodes
<1>3. CASE IsIn(bucket, r.id)
  <2>1. InsertNodeRecord(st, r) = [buckets |-> st.buckets, nodes |-> nodes]
    BY <1>1, <1>3 DEF InsertNodeRecord, nodes
  <2>2. r.id \in IdsIn(st.buckets)
    BY <1>1, <1>3 DEF IsIn, IdsIn
  <2>3. DOMAIN nodes \cup removed = IdsIn(st.buckets)
    BY <1>1, <1>2, <2>2
  <2>4. [buckets |-> st.buckets, nodes |-> nodes] \in Tables(removed)
    BY <1>1, <1>2, <2>3, TablesWith
  <2> QED
    BY <2>1, <2>4
<1>4. CASE ~IsIn(bucket, r.id) /\ Len(bucket) >= BucketSize
  BY <1>4 DEF InsertNodeRecord
<1>5. CASE ~IsIn(bucket, r.id) /\ ~(Len(bucket) >= BucketSize)
  <2>1. InsertNodeRecord(st, r) = [buckets |-> more, nodes |-> nodes]
    BY <1>5 DEF InsertNodeRecord, nodes
  <2>2. /\ Append(bucket, r) \in Seq(Records) /\ DOMAIN bucket = 1..Len(bucket) /\ Len(bucket) \in Nat
        /\ DOMAIN Append(bucket, r) = 1..(Len(bucket) + 1) /\ Len(Append(bucket, r)) = Len(bucket) + 1
        /\ Append(bucket, r)[Len(bucket) + 1] = r
        /\ \A i \in 1..Len(bucket) : Append(bucket, r)[i] = bucket[i]
    BY <1>1, AppendProperties, LenProperties
  <2>3. /\ more \in [BucketNumbers -> Seq(Records)] /\ more[b] = Append(bucket, r)
        /\ \A c \in BucketNumbers : c # b => more[c] = st.buckets[c]
        /\ DOMAIN more = BucketNumbers /\ DOMAIN st.buckets = BucketNumbers
    BY <1>1, <2>2
  <2>4. \A i \in 1..Len(bucket) : bucket[i].id # r.id
    BY <1>5, <2>2 DEF IsIn
  <2> DEFINE longer == Append(bucket, r)
  <2>5. /\ Len(bucket) <= BucketSize /\ \A i, j \in DOMAIN bucket : bucket[i].id = bucket[j].id => i = j
        /\ \A i \in DOMAIN bucket : BucketIndex(bucket[i].id) = b
    BY <1>1, <2>3 DEF BucketsInv
  <2>6. \A i \in 1..(Len(bucket) + 1) : i \in 1..Len(bucket) \/ i = Len(bucket) + 1
    BY <2>2
  <2> HIDE DEF more, longer, bucket
  <2>7. /\ Len(longer) <= BucketSize
        /\ \A i, j \in DOMAIN longer : longer[i].id = longer[j].id => i = j
        /\ \A i \in DOMAIN longer : BucketIndex(longer[i].id) = b
    <3>1. Len(longer) <= BucketSize
      BY <1>5, <2>2, DiscoveryAssumption DEF longer
    <3>2. \A i, j \in DOMAIN longer : longer[i].id = longer[j].id => i = j
      BY <2>2, <2>4, <2>5, <2>6 DEF longer
    <3>3. \A i \in DOMAIN longer : BucketIndex(longer[i].id) = b
      BY <2>2, <2>5, <2>6 DEF longer
    <3> QED
      BY <3>1, <3>2, <3>3
  <2>8. BucketsInv(more)
    <3> SUFFICES ASSUME NEW c \in BucketNumbers
                 PROVE  /\ Len(more[c]) <= BucketSize
                        /\ \A i, j \in DOMAIN more[c] : more[c][i].id = more[c][j].id => i = j
                        /\ \A i \in DOMAIN more[c] : BucketIndex(more[c][i].id) = c
      BY <2>3 DEF BucketsInv
    <3>1. CASE c = b
      BY <2>3, <2>7, <3>1 DEF longer
    <3>2. CASE c # b
      BY <1>1, <2>3, <3>2 DEF BucketsInv
    <3> QED
      BY <3>1, <3>2
  <2>9. IdsIn(more) = IdsIn(st.buckets) \cup {r.id}
    <3>1. {longer[i].id : i \in DOMAIN longer} = {bucket[i].id : i \in DOMAIN bucket} \cup {r.id}
      BY <2>2, <2>6 DEF longer
    <3> DEFINE of(t, c) == {t[c][i].id : i \in DOMAIN t[c]}
    <3>2. of(more, b) = of(st.buckets, b) \cup {r.id}
      BY <2>3, <3>1 DEF longer, bucket
    <3>3. \A c \in BucketNumbers : c # b => of(more, c) = of(st.buckets, c)
      BY <2>3
    <3>4. IdsIn(more) = UNION {of(more, c) : c \in BucketNumbers}
          /\ IdsIn(st.buckets) = UNION {of(st.buckets, c) : c \in BucketNumbers}
      BY <2>3 DEF IdsIn
    <3> HIDE DEF of
    <3>5. ASSUME NEW x PROVE x \in IdsIn(more) <=> x \in IdsIn(st.buckets) \/ x = r.id
      <4>1. x \in IdsIn(more) <=> \E c \in BucketNumbers : x \in of(more, c)
        BY <3>4
      <4>2. x \in IdsIn(st.buckets) <=> \E c \in BucketNumbers : x \in of(st.buckets, c)
        BY <3>4
      <4>3. x \in of(more, b) <=> x \in of(st.buckets, b) \/ x = r.id
        BY <3>2
      <4> QED
        BY <1>1, <3>3, <4>1, <4>2, <4>3
    <3> QED
      BY <3>5
  <2>10. DOMAIN nodes \cup removed = IdsIn(more)
    BY <1>1, <1>2, <2>9
  <2>11. [buckets |-> more, nodes |-> nodes] \in Tables(removed)
    BY <1>2, <2>3, <2>8, <2>10, TablesWith
  <2> QED
    BY <2>1, <2>11
<1> QED
  BY <1>3, <1>4, <1>5

\* Any number of records, in their order.
LEMMA InsertAllKeeps ==
  ASSUME NEW removed, NEW st \in Tables(removed), NEW rs \in Seq(Records)
  PROVE  FoldLeft(InsertNodeRecord, st, rs) \in Tables(removed)
<1> DEFINE D == DOMAIN rs
           V == Tables(removed)
           Body(f, s) == IF s = {} THEN st ELSE InsertNodeRecord(f[s \ {Max(s)}], rs[Max(s)])
           iter == CHOOSE f : f = [s \in SUBSET D |-> Body(f, s)]
           pick == [s \in SUBSET D |-> Max(s)]
           step == [p \in D \X V |-> InsertNodeRecord(p[2], rs[p[1]])]
<1>1. FoldLeft(InsertNodeRecord, st, rs) = iter[D]
  BY DEF FoldLeft, MapThenFoldSet
<1>2. IsFiniteSet(D) /\ D = 1..Len(rs) /\ \A i \in D : rs[i] \in Records
  BY FS_Interval
<1>3. \A s \in SUBSET D : s # {} => Max(s) \in s
  BY <1>2, GreatestOf
<1>4. \A t \in V, r \in Records : InsertNodeRecord(t, r) \in V
  BY InsertKeeps
<1>5. st \in V
  OBVIOUS
<1> HIDE DEF D, V
<1>6. iter = [s \in SUBSET D |-> Body(iter, s)]
  <2>1. Adds(step, D, V)
    BY <1>2, <1>4 DEF Adds
  <2>2. Picks(pick, D)
    BY <1>3 DEF Picks
  <2>3. PICK f \in [SUBSET D -> V] : FoldsBy(f, D, st, step, pick)
    <3> HIDE DEF step, pick
    <3> QED
      BY <1>2, <1>5, <2>1, <2>2, FoldExists
  <2>4. ASSUME NEW s \in SUBSET D PROVE f[s] = Body(f, s)
    <3>1. f[s] = IF s = {} THEN st ELSE step[<<pick[s], f[s \ {pick[s]}]>>]
      BY <2>3 DEF FoldsBy
    <3>2. s # {} => Max(s) \in D /\ f[s \ {Max(s)}] \in V
      BY <1>3, <2>3
    <3> QED
      BY <3>1, <3>2
  <2>5. f = [s \in SUBSET D |-> Body(f, s)]
    BY <2>3, <2>4
  <2> QED
    BY <2>5
<1> HIDE DEF iter
<1>7. iter[{}] \in V
  BY <1>5, <1>6
<1>8. ASSUME NEW s \in SUBSET D, s # {}, iter[s \ {pick[s]}] \in V PROVE iter[s] \in V
  <2>1. iter[s] = InsertNodeRecord(iter[s \ {Max(s)}], rs[Max(s)])
    BY <1>6, <1>8
  <2>2. rs[Max(s)] \in Records
    BY <1>2, <1>3, <1>8
  <2> QED
    BY <1>4, <1>8, <2>1, <2>2
<1>9. iter[D] \in V
  <2>1. \A s \in SUBSET D : s # {} => pick[s] \in s
    BY <1>3
  <2> HIDE DEF pick
  <2> QED
    BY <1>2, <1>7, <1>8, <2>1, FoldStays
<1> QED
  BY <1>1, <1>9 DEF V

LEMMA PutKeeps ==
  ASSUME TableInv, NEW rs \in Seq(Records), Put(rs)
  PROVE  TableInv'
<1> DEFINE st == FoldLeft(InsertNodeRecord, State, rs)
<1>1. table' = st.buckets /\ knownNodes' = st.nodes /\ removedNodes' = removedNodes \ DOMAIN st.nodes
  BY DEF Put
<1>2. st \in Tables(removedNodes)
  BY InsertAllKeeps DEF TableInv
<1> HIDE DEF st
<1>3. st = [buckets |-> st.buckets, nodes |-> st.nodes]
  BY <1>2 DEF Tables
<1>4. State' = st
  BY <1>1, <1>3 DEF State
<1>5. DOMAIN st.nodes \cup removedNodes' = DOMAIN st.nodes \cup removedNodes
  BY <1>1
<1>6. st \in Tables(removedNodes')
  BY <1>2, <1>5 DEF Tables
<1> QED
  BY <1>4, <1>6 DEF TableInv

LEMMA TableInit == DiscoveryInit => TableInv
<1> SUFFICES ASSUME DiscoveryInit PROVE TableInv
  OBVIOUS
<1>1. << >> \in Seq(Records) /\ Len(<< >>) = 0 /\ DOMAIN << >> = {} /\ << >> \in [{} -> Records]
  OBVIOUS
<1>2. table = [b \in BucketNumbers |-> << >>] /\ knownNodes = << >> /\ removedNodes = {}
  BY DEF DiscoveryInit, BucketNumbers
<1>3. BucketsInv(table) /\ IdsIn(table) = {}
  BY <1>1, <1>2, DiscoveryAssumption DEF BucketsInv, IdsIn
<1>4. State \in [buckets : [BucketNumbers -> Seq(Records)], nodes : UNION {[ids -> Records] : ids \in SUBSET PeerIds}]
  BY <1>1, <1>2 DEF State
<1> QED
  BY <1>1, <1>2, <1>3, <1>4 DEF TableInv, Tables, State

LEMMA TableStepInv == TableInv /\ [DiscoveryNext]_discoveryVars => TableInv'
<1> SUFFICES ASSUME TableInv, [DiscoveryNext]_discoveryVars PROVE TableInv'
  OBVIOUS
<1>1. ASSUME UNCHANGED <<table, knownNodes, removedNodes>> PROVE TableInv'
  BY <1>1 DEF TableInv, Tables, State
<1>2. CASE StartDiscovery
  <2>1. Bootnodes \in Seq(Records)
    BY DiscoveryAssumption DEF Records
  <2>2. Put(Bootnodes) \/ UNCHANGED <<table, knownNodes, removedNodes>>
    BY <1>2 DEF StartDiscovery
  <2> QED
    BY <1>1, <2>1, <2>2, PutKeeps
<1>3. CASE Discovered
  <2>1. PICK id \in PeerIds, host \in Hosts : Put(<<NodeRecord(id, host)>>)
    BY <1>3 DEF Discovered
  <2>2. <<NodeRecord(id, host)>> \in Seq(Records)
    BY DEF NodeRecord, Records
  <2> QED
    BY <2>1, <2>2, PutKeeps
<1>4. CASE StopDiscovery \/ DrawNode \/ UNCHANGED discoveryVars
  BY <1>1, <1>4 DEF StopDiscovery, DrawNode, discoveryVars
<1>5. ASSUME NEW id \in PeerIds, RemoveNode(id) PROVE TableInv'
  <2>1. /\ knownNodes' = [x \in DOMAIN knownNodes \ {id} |-> knownNodes[x]]
        /\ removedNodes' = removedNodes \cup ({id} \cap DOMAIN knownNodes)
        /\ table' = table
    BY <1>5 DEF RemoveNode
  <2>2. /\ knownNodes \in UNION {[ids -> Records] : ids \in SUBSET PeerIds}
        /\ table \in [BucketNumbers -> Seq(Records)] /\ BucketsInv(table)
        /\ DOMAIN knownNodes \cup removedNodes = IdsIn(table)
    BY DEF TableInv, Tables, State
  <2>3. knownNodes' \in UNION {[ids -> Records] : ids \in SUBSET PeerIds}
    <3>1. PICK ids \in SUBSET PeerIds : knownNodes \in [ids -> Records]
      BY <2>2
    <3>2. knownNodes' \in [ids \ {id} -> Records] /\ ids \ {id} \in SUBSET PeerIds
      BY <2>1, <3>1
    <3> QED
      BY <3>2
  <2>4. DOMAIN knownNodes' \cup removedNodes' = IdsIn(table)
    BY <2>1, <2>2
  <2> QED
    BY <2>1, <2>2, <2>3, <2>4 DEF TableInv, Tables, State
<1> QED
  BY <1>2, <1>3, <1>4, <1>5 DEF DiscoveryNext

(* For every number of bits and every size of the buckets, any bootnodes and any records that come:  *)
(* what is known and not removed is what the buckets hold, each record in the bucket of its distance. *)
THEOREM KnownStaysBucketed == DiscoverySpec => []KnownIsBucketed
<1>1. TableInv => KnownIsBucketed
  BY DEF TableInv, Tables, State, KnownIsBucketed, BucketsInv, IdsIn
<1> QED
  BY <1>1, TableInit, TableStepInv, PTL DEF DiscoverySpec
=============================================================================
