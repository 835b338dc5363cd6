----------------------------- MODULE BlockCache -----------------------------
(***************************************************************************)
(* The process-wide cache of canonical blocks and the journal behind it:   *)
(* global_store_block and global_replace_block_chain, one lock or one      *)
(* write to the file per step, for any number of threads.                  *)
(*                                                                         *)
(* The height it advertises (GLOBAL_SYNCED_HEIGHT) is part of HeaderSync.   *)
(*                                                                         *)
(* A block is an identity: its hash covers its parent and its number.      *)
(* Sound are the blocks that pass validate_header_contents after their     *)
(* parent (module HeaderRules).  No caller stores height 0.                *)
(***************************************************************************)
EXTENDS Integers, FiniteSetsExt, SequencesExt, Functions

CONSTANTS
  Blocks, Root,       \* blocks of height 1 and more, and what height 1 follows
  Parent, Number,     \* of each block
  Sound,
  Threads,
  MaxBlocks,          \* MAX_GLOBAL_BLOCKS
  Persistence         \* is a journal configured?

ASSUME CacheAssumption ==
  /\ Root \notin Blocks
  /\ Parent \in [Blocks -> Blocks \cup {Root}]
  /\ Number \in [Blocks -> Nat \ {0}]
  /\ Sound \subseteq Blocks
  /\ \A b \in Sound : Number[b] = IF Parent[b] = Root THEN 1 ELSE Number[Parent[b]] + 1
  /\ MaxBlocks \in Nat \ {0}
  /\ Persistence \in BOOLEAN

VARIABLES
  blocks,    \* GLOBAL_BLOCKS: height -> block
  journal,   \* lines of fragments; the last line is not yet ended
  ever,      \* history: all blocks that were in the cache
  at,        \* where each thread is in its call
  todo       \* the blocks it still has to store

cacheVars == <<blocks, ever>>

CacheInit ==
  /\ blocks = << >>
  /\ journal = << << >> >>
  /\ ever = {}

ValidChild(p, b) == b \in Sound /\ Parent[b] = p

ValidateInsertAnyParent(b) ==
  Number[b] \in DOMAIN blocks => blocks[Number[b]] = b

\* validate_global_block_insert: the same hash again is fine, another one is a conflict.
ValidateInsert(b) ==
  \/ Number[b] \in DOMAIN blocks /\ blocks[Number[b]] = b
  \/ /\ Number[b] \notin DOMAIN blocks
     /\ IF Number[b] - 1 \in DOMAIN blocks
        THEN ValidChild(blocks[Number[b] - 1], b)
        ELSE Number[b] = 1 /\ ValidChild(Root, b)

Linked(chain) == \A i \in 1..(Len(chain) - 1) : ValidChild(chain[i], chain[i + 1])

\* validate_global_block_chain_replacement
ValidateReplacement(chain) ==
  LET start == Number[chain[1]]
  IN  /\ IF start = 1 THEN ValidChild(Root, chain[1])
         ELSE start - 1 \in DOMAIN blocks /\ ValidChild(blocks[start - 1], chain[1])
      /\ Linked(chain)

\* The newest MaxBlocks heights stay.
KeptOneLess(heights) == {h \in heights : Cardinality({g \in heights : g > h}) < MaxBlocks - 1}
Kept(heights) == {h \in heights : Cardinality({g \in heights : g > h}) < MaxBlocks}
WithBlock(b) ==
  LET heights == DOMAIN blocks \cup {Number[b]}
  IN  [h \in Kept(heights) |-> IF h = Number[b] THEN b ELSE blocks[h]]

Goto(t, step) == at' = [at EXCEPT ![t] = step]

(***************************************************************************)
(* global_store_block on the first block of todo.  A thread that is done   *)
(* is at "stored" with the last block, one whose block is refused at       *)
(* "refused".                                                              *)
(***************************************************************************)
Check(t) ==
  /\ at[t] = "check"
  /\ Goto(t, IF ~ValidateInsert(Head(todo[t])) THEN "refused"
             ELSE IF Persistence THEN "begin" ELSE "insert")
  /\ UNCHANGED <<cacheVars, journal, todo>>

\* persist_global_block: the record goes to the file in pieces, without a lock.
WriteFragment(t, fragment) ==
  journal' = [journal EXCEPT ![Len(journal)] = Append(@, <<Head(todo[t]), fragment>>)]

Begin(t) ==
  /\ at[t] = "begin"
  /\ WriteFragment(t, "begin")
  /\ Goto(t, "rest")
  /\ UNCHANGED <<cacheVars, todo>>

Rest(t) ==
  /\ at[t] = "rest"
  /\ WriteFragment(t, "rest")
  /\ Goto(t, "newline")
  /\ UNCHANGED <<cacheVars, todo>>

Newline(t) ==
  /\ at[t] = "newline"
  /\ journal' = Append(journal, << >>)
  /\ Goto(t, "insert")
  /\ UNCHANGED <<cacheVars, todo>>

Insert(t) ==
  /\ at[t] = "insert"
  /\ blocks' = WithBlock(Head(todo[t]))
  /\ ever' = ever \cup {Head(todo[t])}
  /\ todo' = [todo EXCEPT ![t] = IF Len(@) = 1 THEN @ ELSE Tail(@)]
  /\ Goto(t, IF Len(todo[t]) = 1 THEN "stored" ELSE "check")
  /\ UNCHANGED journal

\* global_replace_block_chain, after its validation: the tail goes before the new one comes.
Split(t) ==
  /\ at[t] = "split"
  /\ blocks' = Restrict(blocks, {h \in DOMAIN blocks : h < Number[Head(todo[t])]})
  /\ Goto(t, "check")
  /\ UNCHANGED <<ever, journal, todo>>

StoreStep(t) ==
  Check(t) \/ Begin(t) \/ Rest(t) \/ Newline(t) \/ Insert(t) \/ Split(t)

CallStore(t, b) == todo' = [todo EXCEPT ![t] = <<b>>] /\ Goto(t, "check")
CallReplace(t, chain) ==
  /\ ValidateReplacement(chain)
  /\ todo' = [todo EXCEPT ![t] = chain]
  /\ Goto(t, "split")

(***************************************************************************)
(* load_persisted_blocks: the latest record of each height, which together *)
(* must be a chain.  Only a last line that does not parse is overlooked.   *)
(***************************************************************************)
Record(b) == <<<<b, "begin">>, <<b, "rest">>>>
Parses(line) == \E b \in Blocks : line = Record(b)
FileLines == IF Last(journal) = << >> THEN Front(journal) ELSE journal
BlockOn(line) == line[1][1]
RecordsOn(lines) == {i \in DOMAIN lines : Parses(lines[i])}
HeightsOn(lines) == {Number[BlockOn(lines[i])] : i \in RecordsOn(lines)}
LinesAt(lines, h) == {i \in RecordsOn(lines) : Number[BlockOn(lines[i])] = h}
FirstOn(lines) == [h \in HeightsOn(lines) |-> BlockOn(lines[Min(LinesAt(lines, h))])]
LatestOn(lines) == [h \in HeightsOn(lines) |-> BlockOn(lines[Max(LinesAt(lines, h))])]
Loaded == LatestOn(FileLines)

ValidatePersistedChain(byHeight) ==
  \/ DOMAIN byHeight = {}
  \/ /\ 1 \in DOMAIN byHeight
     /\ ValidChild(Root, byHeight[1])
     /\ \A h \in DOMAIN byHeight \ {1} : h - 1 \in DOMAIN byHeight /\ ValidChild(byHeight[h - 1], byHeight[h])

LoadSucceeds ==
  /\ \A i \in DOMAIN FileLines : FileLines[i] = << >> \/ Parses(FileLines[i]) \/ i = Len(FileLines)
  /\ ValidatePersistedChain(Loaded)

\* configure_global_block_persistence at start-up.
CacheOf(byHeight) == Restrict(byHeight, Kept(DOMAIN byHeight))
LoadInto ==
  /\ blocks' = CacheOf(Loaded)
  /\ ever' = ever \cup Range(Loaded)
=============================================================================
