------------------------------ MODULE PeerWire ------------------------------
(***************************************************************************)
(* The two monitors of one connection, each a loop that waits for the      *)
(* first of: a tick of its heartbeat, a tick of its announcements, a       *)
(* frame, a message of the node for the peer.  What a branch writes it     *)
(* writes to the end before the loop goes on, chunk by chunk as the        *)
(* socket has room.                                                        *)
(*                                                                         *)
(* A frame that has arrived in part when another branch comes first is     *)
(* read on later from a websocket.  From a TCP socket, which is read byte  *)
(* by byte, the bytes read so far are gone with the read that is given up, *)
(* and the next takes the rest of the frame for a frame.                   *)
(***************************************************************************)
EXTENDS Integers, Sequences

CONSTANTS
  Scripts,        \* of each side: what the node has its monitor send
  Chunks,         \* of a line: where it may be cut
  SocketRoom,     \* chunks under way in one direction
  MaxSilent,      \* PEER_IDLE_TIMEOUT_SECS in heartbeats
  MaxTicks        \* bound of the instance: ticks of each side

Messages ==   \* ProtocolMessage, with and without what may be missing, and the words of a heartbeat
  {"disconnect", "disconnect without reason", "compute tx", "new block", "block hash", "head", "get block",
   "get headers", "headers", "no headers", "get block body", "block body", "full block",
   "get state snapshot", "state snapshot", "ping", "pong"}

ASSUME WireAssumption ==
  /\ Chunks \in Nat \ {0}
  /\ Scripts \in [{"dialer", "listener"} -> Seq(Messages)]

VARIABLES
  wire,           \* "tcp" or "ws"
  outbound,       \* of each side: messages not yet written
  toWrite,        \* chunks left of the line it is writing
  socket,         \* chunks on their way to it
  half,           \* chunks its read has so far
  silent,         \* heartbeats since the peer was last touched
  linked,         \* its loop is running
  wrote,          \* history: lines it began to write
  took,           \* history: frames it took, each the line it is of or "garbled"
  cuts,           \* history: places of the frames of which it gave up a part
  ticks

wireVars == <<wire, outbound, toWrite, socket, half, silent, linked, wrote, took, cuts, ticks>>

Sides == {"dialer", "listener"}
OtherSide(s) == IF s = "dialer" THEN "listener" ELSE "dialer"

WireInit ==
  /\ wire \in {"tcp", "ws"}
  /\ outbound = Scripts
  /\ toWrite = [s \in Sides |-> << >>] /\ socket = [s \in Sides |-> << >>] /\ half = [s \in Sides |-> << >>]
  /\ silent = [s \in Sides |-> 0]
  /\ linked = [s \in Sides |-> TRUE]
  /\ wrote = [s \in Sides |-> << >>] /\ took = [s \in Sides |-> << >>] /\ cuts = [s \in Sides |-> {}]
  /\ ticks = [s \in Sides |-> 0]

(***************************************************************************)
(* write_protocol_message: a block is announced by its hash alone, and one *)
(* that was asked for is not written at all.                               *)
(***************************************************************************)
LineOf(message) ==
  CASE message = "new block" -> "block hash"
    [] OTHER -> message
IsWritten(message) == message # "full block"
ChunksOf(line) == [i \in 1..Chunks |-> [line |-> line, part |-> i, last |-> i = Chunks]]

\* read_control_frame: what the frame of a line is.  No line has a frame for GETBLOCK, and the
\* separator after a word is trimmed with nothing after it: no headers, no reason.
FrameOf(line) ==
  CASE line \in {"get block", "no headers", "disconnect without reason"} -> "other"
    [] OTHER -> line
Whole(chunks) == chunks[1].part = 1
FrameIn(chunks) == IF Whole(chunks) THEN FrameOf(chunks[1].line) ELSE "other"

\* The loop is at its select.
Selects(s) == linked[s] /\ toWrite[s] = << >>
Begun(s, message) ==
  IF IsWritten(message)
  THEN /\ toWrite' = [toWrite EXCEPT ![s] = ChunksOf(LineOf(message))]
       /\ wrote' = [wrote EXCEPT ![s] = Append(@, LineOf(message))]
  ELSE UNCHANGED <<toWrite, wrote>>

\* The read that was under way is given up.
KeptByNone(s) == << >>
KeptOf(s) == IF wire = "ws" THEN half[s] ELSE << >>
GivenUp(s) ==
  /\ half' = [half EXCEPT ![s] = KeptOf(s)]
  /\ cuts' = IF KeptOf(s) = half[s] THEN cuts ELSE [cuts EXCEPT ![s] = @ \cup {Len(took[s]) + 1}]

Tick(s) == ticks[s] < MaxTicks[s] /\ ticks' = [ticks EXCEPT ![s] = @ + 1]

\* stale_peers, as the heartbeat under way counts.
StalePeer(s) == silent[s] + 1 > MaxSilent
TouchPeer(s) == silent' = [silent EXCEPT ![s] = 0]

Heartbeat(s) ==
  /\ Selects(s) /\ Tick(s)
  /\ GivenUp(s) /\ Begun(s, "ping")
  /\ silent' = [silent EXCEPT ![s] = @ + 1]
  /\ linked' = [linked EXCEPT ![s] = ~StalePeer(s)]
  /\ UNCHANGED <<wire, outbound, socket, took>>

AnnounceHead(s) ==
  /\ Selects(s) /\ Tick(s)
  /\ GivenUp(s) /\ Begun(s, "head")
  /\ UNCHANGED <<wire, outbound, socket, silent, linked, took>>

SendOutbound(s) ==
  /\ Selects(s) /\ outbound[s] # << >>
  /\ outbound' = [outbound EXCEPT ![s] = Tail(@)]
  /\ GivenUp(s) /\ Begun(s, Head(outbound[s]))
  /\ UNCHANGED <<wire, socket, silent, linked, took, ticks>>

WriteChunk(s) ==
  /\ linked[s] /\ toWrite[s] # << >> /\ Len(socket[OtherSide(s)]) < SocketRoom
  /\ toWrite' = [toWrite EXCEPT ![s] = Tail(@)]
  /\ socket' = [socket EXCEPT ![OtherSide(s)] = Append(@, Head(toWrite[s]))]
  /\ UNCHANGED <<wire, outbound, half, silent, linked, wrote, took, cuts, ticks>>

ReadChunk(s) ==
  /\ Selects(s) /\ socket[s] # << >> /\ ~Head(socket[s]).last
  /\ half' = [half EXCEPT ![s] = Append(@, Head(socket[s]))]
  /\ socket' = [socket EXCEPT ![s] = Tail(@)]
  /\ UNCHANGED <<wire, outbound, toWrite, silent, linked, wrote, took, cuts, ticks>>

(***************************************************************************)
(* The frame ends: the peer is touched, a question is answered, and what   *)
(* is not for the monitor itself goes to the node.                         *)
(***************************************************************************)
Answer(frame) ==
  CASE frame = "ping" -> {"pong"}
    [] frame = "get headers" -> {"headers", "no headers"}
    [] frame = "get block body" -> {"block body", "full block"}       \* or none
    [] frame = "get state snapshot" -> {"state snapshot", "full block"}
    [] OTHER -> {"full block"}

TakeFrame(s) ==
  /\ Selects(s) /\ socket[s] # << >> /\ Head(socket[s]).last
  /\ LET chunks == Append(half[s], Head(socket[s]))  frame == FrameIn(chunks)
     IN  /\ took' = [took EXCEPT ![s] = Append(@, IF Whole(chunks) THEN chunks[1].line ELSE "garbled")]
         /\ linked' = [linked EXCEPT ![s] = frame # "disconnect"]
         /\ IF frame = "disconnect" THEN UNCHANGED silent ELSE TouchPeer(s)
         /\ \E message \in Answer(frame) : Begun(s, message)
  /\ socket' = [socket EXCEPT ![s] = Tail(@)]
  /\ half' = [half EXCEPT ![s] = << >>]
  /\ UNCHANGED <<wire, outbound, cuts, ticks>>

\* A frame that is too long, or that is not what its first word says: the loop ends.
FrameFails(s) ==
  /\ Selects(s) /\ socket[s] # << >>
  /\ linked' = [linked EXCEPT ![s] = FALSE]
  /\ UNCHANGED <<wire, outbound, toWrite, socket, half, silent, wrote, took, cuts, ticks>>

\* End of the stream, or an error: the peer has closed, in the middle of a line or not.
PeerClosed(s) ==
  /\ linked[s] /\ ~linked[OtherSide(s)] /\ (socket[s] = << >> \/ toWrite[s] # << >>)
  /\ linked' = [linked EXCEPT ![s] = FALSE]
  /\ UNCHANGED <<wire, outbound, toWrite, socket, half, silent, wrote, took, cuts, ticks>>

WireNext ==
  \E s \in Sides :
    \/ Heartbeat(s) \/ AnnounceHead(s) \/ SendOutbound(s) \/ WriteChunk(s)
    \/ ReadChunk(s) \/ TakeFrame(s) \/ FrameFails(s) \/ PeerClosed(s)

WireSpec == WireInit /\ [][WireNext]_wireVars
-----------------------------------------------------------------------------
(* Whatever ticks and messages cut into the reading of frames, a monitor    *)
(* takes the lines its peer wrote, each in its place and whole, but for     *)
(* those of which a read was given up in the middle: of each of these it    *)
(* takes the rest for one frame.  Over a websocket there are none.          *)
InOrder ==
  \A s \in Sides :
    LET lines == wrote[OtherSide(s)]
    IN  /\ Len(took[s]) <= Len(lines)
        /\ \A i \in DOMAIN took[s] : took[s][i] = IF i \in cuts[s] THEN "garbled" ELSE lines[i]
        /\ wire = "ws" => cuts[s] = {}
=============================================================================
