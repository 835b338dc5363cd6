---------------------------- MODULE HeaderChain ----------------------------
(***************************************************************************)
(* A chain growing by mined, imported and synchronised headers while the   *)
(* clock runs, and may be set back, between them.                          *)
(***************************************************************************)
EXTENDS HeaderRules

CONSTANTS
  Digests, ExtraSizes, Versions,   \* what miners and peers hand in
  MaxClock, MaxHeight              \* bounds of the instance

ASSUME ChainAssumption ==
  Digests \subseteq Nat /\ ExtraSizes \subseteq Nat /\ Versions \subseteq Nat /\ MaxClock \in Nat

VARIABLES
  head,     \* the newest block
  clock,    \* current_unix_secs
  last      \* the latest block handed in: by whom, passed the RPC, stored; whether the
            \* clock was behind its parent, and it has the work its parent asks for

chainVars == <<head, clock, last>>

ChainInit ==
  /\ head \in {LegacyMiningRoot, GenesisBlock}
  /\ clock \in 1..MaxClock
  /\ last = [by |-> "none", passed |-> FALSE, stored |-> FALSE, back |-> FALSE, worked |-> TRUE]

SetClock == \E t \in (clock - 1)..MaxClock : t >= 0 /\ clock' = t /\ UNCHANGED <<head, last>>

\* The cache validates once more what the RPC has let through.
Store(h) == ValidateHeaderContents(head, h)

HandIn(by, h, passed) ==
  /\ head.number < MaxHeight
  /\ head' = IF passed /\ Store(h) THEN h ELSE head
  /\ last' = [by |-> by, passed |-> passed, stored |-> Store(h), back |-> clock < head.time,
              worked |-> h.version < PowVersion \/ h.digest * head.difficulty <= MaxTarget]
  /\ UNCHANGED clock

SubmitWork(digest, label) ==
  LET h == MinedHeader(head, head.number + 2, clock, digest, label)
      passed == ShareAccepted(head, digest, label)
  IN  HandIn("miner", h, passed)

\* Headers of others: right or wrong in one respect.
Candidates ==
  {Header(v, head.number + 1, head.number + 2, head.hash, t,
          AdjustMiningDifficulty(head.difficulty, head.time, t), x, d) :
     v \in Versions, t \in Monus(head.time, 1)..MaxClock, x \in ExtraSizes, d \in Digests}
Flawed(h) ==
  {h, [h EXCEPT !.sealed = FALSE], [h EXCEPT !.mixed = FALSE], [h EXCEPT !.parent = @ + 1],
      [h EXCEPT !.number = @ + 1], [h EXCEPT !.difficulty = @ + 1], [h EXCEPT !.version = 0],
      [h EXCEPT !.difficulty = BaseDifficulty]}

ImportBlock(h) == HandIn("import", h, ValidateImportedHeader(head, h))

SyncBlock(h) == HandIn("sync", h, TRUE)

ChainNext ==
  \/ SetClock
  \/ \E d \in Digests, x \in ExtraSizes : SubmitWork(d, x)
  \/ \E c \in Candidates : \E h \in Flawed(c) : ImportBlock(h) \/ SyncBlock(h)

ChainSpec == ChainInit /\ [][ChainNext]_chainVars
-----------------------------------------------------------------------------
(* A block the RPC lets through, mined (zero_submitWork) or imported        *)
(* (zero_importBlock), is not refused by the cache's own rules afterwards,  *)
(* when its job is gone: unless the clock was set back behind the parent.   *)
(* Whoever hands it in, what is stored has the work of its parent's         *)
(* difficulty, by the inequality that the digit-wise target stands for.     *)
PassedIsStored ==
  /\ last.passed /\ last.by # "sync" => last.stored \/ (last.by = "miner" /\ last.back)
  /\ last.stored => last.worked
=============================================================================
