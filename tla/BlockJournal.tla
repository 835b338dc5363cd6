---------------------------- MODULE BlockJournal ----------------------------
(***************************************************************************)
(* A node that only synchronises: one task stores single blocks and        *)
(* replaces suffixes, the process is killed at any step and started again  *)
(* on its journal.  (Mining and the import RPC are off without mining      *)
(* configured and without a token, so nothing else stores.)                *)
(***************************************************************************)
EXTENDS BlockCache

CONSTANTS
  Sync,          \* the task
  Chains,        \* the chains of headers peers send
  TornWrites,    \* may the process die between the writes of one record?
  MaxCalls, MaxCrashes

ASSUME JournalAssumption ==
  /\ Sync \in Threads
  /\ Chains \subseteq Seq(Blocks) \ {<< >>}

VARIABLES
  node,          \* "up", "down", or "refused": start-up failed
  acked,         \* history: blocks reported stored and not replaced since
  calls, crashes

journalVars == <<cacheVars, at, todo, journal, node, acked, calls, crashes>>

JournalInit ==
  /\ CacheInit
  /\ at = [t \in Threads |-> "idle"]
  /\ todo = [t \in Threads |-> << >>]
  /\ node = "up"
  /\ acked = {}
  /\ calls = 0 /\ crashes = 0

Below(chain) == {b \in acked : Number[b] < Number[chain[1]]}

\* Sync asks for headers from the end of the cache or a few heights back.  A probe
\* further back than the cache reaches (50,000 blocks) is left out.
InWindow(b) == DOMAIN blocks = {} \/ Number[b] >= Min(DOMAIN blocks)

CallCache ==
  /\ node = "up" /\ at[Sync] = "idle" /\ calls < MaxCalls
  /\ calls' = calls + 1
  /\ \/ \E b \in {x \in Blocks : InWindow(x)} : CallStore(Sync, b) /\ UNCHANGED acked
     \/ \E chain \in Chains : CallReplace(Sync, chain) /\ acked' = Below(chain)
  /\ UNCHANGED <<cacheVars, journal, node, crashes>>

CacheStep ==
  /\ node = "up"
  /\ StoreStep(Sync)
  /\ acked' = IF at[Sync] = "insert" THEN acked \cup {Head(todo[Sync])} ELSE acked
  /\ UNCHANGED <<node, calls, crashes>>

ReturnCall ==
  /\ node = "up" /\ at[Sync] \in {"stored", "refused"}
  /\ Goto(Sync, "idle")
  /\ todo' = [todo EXCEPT ![Sync] = << >>]
  /\ UNCHANGED <<cacheVars, journal, node, acked, calls, crashes>>

CrashNode ==
  /\ node = "up" /\ crashes < MaxCrashes
  /\ TornWrites \/ at[Sync] \notin {"rest", "newline"}
  /\ node' = "down"
  /\ crashes' = crashes + 1
  /\ blocks' = << >>
  /\ at' = [t \in Threads |-> "idle"]
  /\ todo' = [t \in Threads |-> << >>]
  /\ UNCHANGED <<journal, ever, acked, calls>>

RestartFromJournal ==
  /\ node = "down"
  /\ IF LoadSucceeds THEN node' = "up" /\ LoadInto
     ELSE node' = "refused" /\ UNCHANGED cacheVars
  /\ UNCHANGED <<at, todo, journal, acked, calls, crashes>>

JournalNext == CallCache \/ CacheStep \/ ReturnCall \/ CrashNode \/ RestartFromJournal

JournalSpec == JournalInit /\ [][JournalNext]_journalVars
-----------------------------------------------------------------------------
Highest(heights) == Max({0} \cup heights)

(* Every block global_store_block reported stored, and no replacement has   *)
(* dropped since, is what the journal yields for its height, so that a      *)
(* restart brings it back.                                                  *)
AckedSurvives == \A b \in acked : Number[b] \in DOMAIN Loaded /\ Loaded[Number[b]] = b

(* Between calls, once the cache is as high as the journal ever was, the    *)
(* journal loads, and loads exactly the cache.  (While a new suffix is      *)
(* lower than the one it replaced, records of the old one are still in the  *)
(* journal and a restart may be refused.)                                   *)
JournalMirrorsCache ==
  node = "up" /\ at[Sync] = "idle" /\ Highest(DOMAIN blocks) = Highest(DOMAIN Loaded)
    => LoadSucceeds /\ CacheOf(Loaded) = blocks

(* Both: what the operator of a node that is started again relies on.       *)
JournalKeeps == AckedSurvives /\ JournalMirrorsCache
=============================================================================
