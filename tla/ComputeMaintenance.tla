------------------------- MODULE ComputeMaintenance -------------------------
(***************************************************************************)
(* The operator's commands on a compute database: rebuild_compute_db       *)
(* copies it into a new one, in today's format, and puts that in its place *)
(* by two renames; prune_compute_db deletes what retention has passed.     *)
(* Between them the node opens the database (creating it when there is     *)
(* none) and writes to it.  Commands and node may be killed at any step.   *)
(*                                                                         *)
(* An open database is locked; a command ends the lock of the old one      *)
(* before the renames.  In between, the operator keeps the node down, as   *)
(* the command's messages ask.  Removing a directory is one step.          *)
(***************************************************************************)
EXTENDS KeyValue

CONSTANTS
  DbKeys,         \* of outputs and results
  Outdated,       \* the keys retention has passed
  LegacyDb,       \* what the database holds at first: key -> format
  MaxRebuilds, MaxWrites   \* bounds of the instance

Formats == {"json", "binary"}
ASSUME MaintenanceAssumption ==
  /\ LegacyDb \in [DOMAIN LegacyDb -> Formats]
  /\ IsFiniteSet(Outdated)

VARIABLES
  databases,      \* by their place on the disk
  running,        \* the node has the database open
  rebuild,        \* the command under way: its step, number, flags, entries to copy, entries counted
  entries,        \* history: keys written and not pruned
  interrupted,    \* history: a rebuild ended between its renames
  rebuilt,        \* history: a rebuild has answered Ok
  writes

diskVars == <<databases, running, rebuild, entries, interrupted, rebuilt, writes>>

Live == <<"live", 0>>         \* the configured path
Target(n) == <<"rebuild", n>> \* path.rebuild-suffix, path.backup-suffix
Backup(n) == <<"backup", n>>

NoRebuild == [step |-> "none", n |-> 0, dryRun |-> FALSE, discard |-> FALSE, left |-> {}, counted |-> 0]

DiskInit ==
  /\ databases = [p \in {Live} |-> LegacyDb]
  /\ running = FALSE
  /\ rebuild = NoRebuild
  /\ entries = DOMAIN LegacyDb
  /\ interrupted = FALSE /\ rebuilt = FALSE
  /\ writes = 0

At(step) == rebuild.step = step
ToStep(step) == rebuild' = [rebuild EXCEPT !.step = step]
\* The command ends, with an answer or an error; its number is not used again.
Finish == rebuild' = [NoRebuild EXCEPT !.n = rebuild.n]
Move(from, to) == databases' = [p \in (DOMAIN databases \ {from}) \cup {to} |->
                                  IF p = to THEN databases[from] ELSE databases[p]]

(* The node *)
OpenDatabase == IF Live \in DOMAIN databases THEN databases ELSE PutEntry(databases, Live, Empty)

StartNode ==
  /\ ~running /\ At("none")
  /\ running' = TRUE
  /\ databases' = OpenDatabase
  /\ UNCHANGED <<rebuild, entries, interrupted, rebuilt, writes>>

NodeWrites(k) ==
  /\ running /\ writes < MaxWrites
  /\ writes' = writes + 1
  /\ databases' = [databases EXCEPT ![Live] = PutEntry(@, k, "binary")]
  /\ entries' = entries \cup {k}
  /\ UNCHANGED <<running, rebuild, interrupted, rebuilt>>

StopNode ==
  /\ running
  /\ running' = FALSE
  /\ UNCHANGED <<databases, rebuild, entries, interrupted, rebuilt, writes>>

(* rebuild_compute_db *)
Unlocked == TRUE
Lockable == ~running
CountEntries(p) == Cardinality(DOMAIN databases[p])

\* Opening the two and counting the source.  The time in the names makes them new.
BeginRebuild ==
  /\ At("none") /\ Live \in DOMAIN databases /\ Lockable /\ rebuild.n < MaxRebuilds
  /\ LET n == rebuild.n + 1
     IN  /\ databases' = PutEntry(databases, Target(n), Empty)
         /\ \E dry, discard \in BOOLEAN :
              rebuild' = [step |-> "copy", n |-> n, dryRun |-> dry, discard |-> discard,
                          left |-> DOMAIN databases[Live], counted |-> CountEntries(Live)]
  /\ UNCHANGED <<running, entries, interrupted, rebuilt, writes>>

CopyEntry(k) ==
  /\ At("copy") /\ k \in rebuild.left
  /\ databases' = [databases EXCEPT ![Target(rebuild.n)] = PutEntry(@, k, "binary")]
  /\ rebuild' = [rebuild EXCEPT !.left = @ \ {k}]
  /\ UNCHANGED <<running, entries, interrupted, rebuilt, writes>>

\* What does not decode, or a failed write, ends the command.
CopyFails ==
  /\ At("copy")
  /\ Finish
  /\ UNCHANGED <<databases, running, entries, interrupted, rebuilt, writes>>

CompareCounts ==
  /\ At("copy") /\ rebuild.left = {}
  /\ IF CountEntries(Target(rebuild.n)) # rebuild.counted THEN Finish /\ UNCHANGED databases
     ELSE IF rebuild.dryRun THEN Finish /\ databases' = DeleteEntry(databases, Target(rebuild.n))
     ELSE ToStep("set aside") /\ UNCHANGED databases
  /\ UNCHANGED <<running, entries, interrupted, rebuilt, writes>>

\* A rename that fails changes nothing.
SetAside ==
  /\ At("set aside")
  /\ \/ Move(Live, Backup(rebuild.n)) /\ ToStep("install")
     \/ Finish /\ UNCHANGED databases
  /\ UNCHANGED <<running, entries, interrupted, rebuilt, writes>>

Install ==
  /\ At("install")
  /\ \/ Move(Target(rebuild.n), Live) /\ ToStep("verify")
     \/ ToStep("roll back") /\ UNCHANGED databases
  /\ UNCHANGED <<running, entries, interrupted, rebuilt, writes>>

RollBack ==
  /\ At("roll back")
  /\ \/ Move(Backup(rebuild.n), Live) /\ UNCHANGED interrupted
     \/ interrupted' = TRUE /\ UNCHANGED databases
  /\ Finish
  /\ UNCHANGED <<running, entries, rebuilt, writes>>

\* The installed database is opened and counted; that may fail too.
VerifyInstalled ==
  /\ At("verify")
  /\ \/ /\ CountEntries(Live) = rebuild.counted
        /\ IF rebuild.discard THEN ToStep("discard") /\ UNCHANGED rebuilt ELSE Finish /\ rebuilt' = TRUE
     \/ Finish /\ UNCHANGED rebuilt
  /\ UNCHANGED <<databases, running, entries, interrupted, writes>>

DiscardBackup ==
  /\ At("discard")
  /\ databases' = DeleteEntry(databases, Backup(rebuild.n))
  /\ Finish
  /\ rebuilt' = TRUE
  /\ UNCHANGED <<running, entries, interrupted, writes>>

KillRebuild ==
  /\ ~At("none")
  /\ Finish
  /\ interrupted' = (interrupted \/ At("install") \/ At("roll back"))
  /\ UNCHANGED <<databases, running, entries, rebuilt, writes>>

(* prune_compute_db: one batch deletes what is outdated, or nothing does. *)
PruneDb ==
  /\ At("none") /\ Live \in DOMAIN databases /\ Lockable
  /\ LET outdated == DOMAIN databases[Live] \cap Outdated
         batch == SetToSeq({BatchDelete(k) : k \in outdated})
     IN  /\ outdated # {}
         /\ databases' = [databases EXCEPT ![Live] = WriteBatch(@, batch)]
         /\ entries' = entries \ outdated
  /\ UNCHANGED <<running, rebuild, interrupted, rebuilt, writes>>

DiskNext ==
  \/ StartNode \/ StopNode \/ PruneDb
  \/ \E k \in DbKeys : NodeWrites(k) \/ CopyEntry(k)
  \/ BeginRebuild \/ CopyFails \/ CompareCounts \/ SetAside \/ Install \/ RollBack
  \/ VerifyInstalled \/ DiscardBackup \/ KillRebuild

DiskSpec == DiskInit /\ [][DiskNext]_diskVars
-----------------------------------------------------------------------------
(* A rebuild killed or failing anywhere, with its copies, renames, roll-back *)
(* and the removal of the backup, loses no entry a node has written: every   *)
(* one is in some database on the disk; and, unless a rebuild ended between  *)
(* its renames, between commands the configured one holds them all, in       *)
(* today's format once a rebuild has answered Ok.                            *)
NothingLost ==
  /\ \A k \in entries : \E p \in DOMAIN databases : k \in DOMAIN databases[p]
  /\ At("none") /\ ~interrupted =>
       /\ Live \in DOMAIN databases /\ entries \subseteq DOMAIN databases[Live]
       /\ rebuilt => \A k \in DOMAIN databases[Live] : databases[Live][k] = "binary"
=============================================================================
