---------------------------- MODULE SchemaUpgrade ----------------------------
(***************************************************************************)
(* Opening the cache database: internal/store's ensureSchema, adoptOrCreate *)
(* and Snapshot.  A database is created, adopted from the C# port, refused, *)
(* or backed up and migrated step by step, by processes of several builds  *)
(* that may crash anywhere.  (At this commit migrations is empty; Steps > 0 *)
(* is the mechanism as a build with migrations will run it.)               *)
(***************************************************************************)
EXTENDS Naturals

CONSTANTS
  Proc,      \* processes that open the database
  Steps,     \* migrations the newest build has
  Build,     \* the schema versions of the builds in use
  MaxFaults  \* bound: failed calls and crashes

baseVersion == 1
Version == 0..(baseVersion + Steps)
Step    == baseVersion..(baseVersion + Steps - 1)  \* by the version it starts from

ASSUME StepsAssumption == Steps \in Nat /\ MaxFaults \in Nat
ASSUME BuildAssumption == Build \subseteq Version \ {0} /\ Build # {}

VARIABLES
  disk,    \* the database: where it comes from, user_version, the steps it ran
  journal, \* its journal mode, which is kept in its header
  backup,  \* <path>.pre-v<target>.bak, for each target
  tmp,     \* the same with .tmp, while a snapshot is written
  pc,      \* each process: where Open is
  target,  \* each process: the schema version of its build
  version, \* each process: ensureSchema's version
  created, \* each process: did it create the database?
  faults   \* failures so far

vars == <<disk, journal, backup, tmp, pc, target, version, created, faults>>

Kind == {"empty", "ours", "csharp", "csharp later", "legacy", "alien"}

\* Databases this tool does not own: of a later C# port, of the Python pipeline, of
\* something else.
Foreign == {"csharp later", "legacy", "alien"}
Database == [kind : Kind, version : Version, ran : [Step -> {0, 1, 2}]]
Fresh(kind) == [kind |-> kind, version |-> 0, ran |-> [i \in Step |-> 0]]

\* A copy of the database, whole or still being written by a process; or none.
File == [there : BOOLEAN, whole : BOOLEAN, by : Proc, of : Database]
NoFile == [there |-> FALSE, whole |-> FALSE, by |-> CHOOSE p \in Proc : TRUE,
           of |-> Fresh("empty")]

Stage == {"idle", "ping", "version", "tables", "create", "adopt", "clear", "vacuum",
          "copying", "rename", "step", "open", "failed"}

TypeOK ==
  /\ disk \in Database
  /\ journal \in {"rollback", "wal"}
  /\ backup \in [Build -> File]
  /\ tmp \in [Build -> File]
  /\ pc \in [Proc -> Stage]
  /\ target \in [Proc -> Build]
  /\ version \in [Proc -> Version]
  /\ created \in [Proc -> BOOLEAN]
  /\ faults \in 0..MaxFaults

\* Neither the C# port nor the Python pipeline sets user_version; what another
\* program has put there can be anything.  (Bound: no version beyond the newest.)
Init ==
  /\ \/ disk \in {Fresh(k) : k \in Kind \ {"ours"}}
     \/ \E v \in Version : disk = [Fresh("alien") EXCEPT !.version = v]
  /\ journal \in {"rollback", "wal"}
  /\ backup = [b \in Build |-> NoFile]
  /\ tmp = [b \in Build |-> NoFile]
  /\ pc = [p \in Proc |-> "idle"]
  /\ target = [p \in Proc |-> CHOOSE b \in Build : TRUE]
  /\ version = [p \in Proc |-> 0]
  /\ created = [p \in Proc |-> FALSE]
  /\ faults = 0

Goto(p, stage) == pc' = [pc EXCEPT ![p] = stage]

Fail(p) == Goto(p, "failed") /\ UNCHANGED <<target, version, created>>

-----------------------------------------------------------------------------
\* Open by a process of build b.
Open(p) ==
  /\ pc[p] = "idle"
  /\ \E b \in Build : target' = [target EXCEPT ![p] = b]
  /\ created' = [created EXCEPT ![p] = FALSE]
  /\ Goto(p, "ping")
  /\ UNCHANGED <<disk, journal, backup, tmp, version, faults>>

\* The first connection runs open's pragmas, before anything is known of the
\* database: journal_mode(WAL) is written into it.
Ping(p) ==
  /\ pc[p] = "ping"
  /\ journal' = "wal"
  /\ Goto(p, "version")
  /\ UNCHANGED <<disk, backup, tmp, target, version, created, faults>>

\* Mutant: a backup thought needless.
ProceedUnsafe(p, v, new) ==
  Goto(p, CASE v > target[p] -> "failed"
            [] v = target[p] -> "open"
            [] v < target[p] -> "step")

\* Where ensureSchema goes on from a database it takes to be at v.
Proceed(p, v, new) ==
  Goto(p, CASE v > target[p]           -> "failed"
            [] v = target[p]           -> "open"
            [] v < target[p] /\ new    -> "step"
            [] v < target[p] /\ ~new   -> "clear")

\* Mutant: the tables asked rather than user_version.
ReadTablesFirst(p) ==
  /\ pc[p] = "version"
  /\ version' = [version EXCEPT ![p] = disk.version]
  /\ Goto(p, "tables")
  /\ UNCHANGED <<disk, journal, backup, tmp, target, created, faults>>

ReadVersion(p) ==
  /\ pc[p] = "version"
  /\ version' = [version EXCEPT ![p] = disk.version]
  /\ IF disk.version = 0 THEN Goto(p, "tables") ELSE Proceed(p, disk.version, FALSE)
  /\ UNCHANGED <<disk, journal, backup, tmp, target, created, faults>>

\* Mutants: whatever the C# port migrated is adopted; nothing is.
TablesOfCSharp(p) ==
  CASE disk.kind = "empty" -> "create"
    [] disk.kind \in {"csharp", "csharp later"} -> "adopt"
    [] OTHER -> "failed"
TablesOfOurs(p) == IF disk.kind = "empty" THEN "create" ELSE "failed"

\* adoptOrCreate's switch, the C# port's migration history included.
Tables(p) ==
  CASE disk.kind = "empty"  -> "create"
    [] disk.kind = "csharp" -> "adopt"
    [] OTHER                -> "failed"

ReadTables(p) ==
  /\ pc[p] = "tables"
  /\ Goto(p, Tables(p))
  /\ UNCHANGED <<disk, journal, backup, tmp, target, version, created, faults>>

\* One transaction.  It fails if the tables have come into being meanwhile.
Create(p) ==
  /\ pc[p] = "create"
  /\ IF disk.kind = "empty"
     THEN /\ disk' = [disk EXCEPT !.kind = "ours", !.version = baseVersion]
          /\ version' = [version EXCEPT ![p] = baseVersion]
          /\ created' = [created EXCEPT ![p] = TRUE]
          /\ Proceed(p, baseVersion, TRUE)
          /\ UNCHANGED target
     ELSE Fail(p) /\ UNCHANGED disk
  /\ UNCHANGED <<journal, backup, tmp, faults>>

Adopt(p) ==
  /\ pc[p] = "adopt"
  /\ disk' = [disk EXCEPT !.version = baseVersion]
  /\ version' = [version EXCEPT ![p] = baseVersion]
  /\ Proceed(p, baseVersion, FALSE)
  /\ UNCHANGED <<journal, backup, tmp, target, created, faults>>

-----------------------------------------------------------------------------
\* Snapshot to the backup of the process's target.

\* Remove what an interrupted snapshot left.  The removal may fail, on Windows,
\* when another process has the file open; the error is ignored.
ClearTmp(p) ==
  /\ pc[p] = "clear"
  /\ \/ tmp' = [tmp EXCEPT ![target[p]] = NoFile]
     \/ UNCHANGED tmp /\ \E q \in Proc \ {p} : pc[q] = "copying" /\ tmp[target[p]].by = q
  /\ Goto(p, "vacuum")
  /\ UNCHANGED <<disk, journal, backup, target, version, created, faults>>

\* VACUUM INTO copies the database of the moment it starts, and insists on
\* creating the file; when it fails the file is removed.
Vacuum(p) ==
  /\ pc[p] = "vacuum"
  /\ IF tmp[target[p]].there
     THEN Fail(p) /\ tmp' = [tmp EXCEPT ![target[p]] = NoFile]
     ELSE /\ tmp' = [tmp EXCEPT ![target[p]] =
                       [there |-> TRUE, whole |-> FALSE, by |-> p, of |-> disk]]
          /\ Goto(p, "copying")
          /\ UNCHANGED <<target, version, created>>
  /\ UNCHANGED <<disk, journal, backup, faults>>

\* The file p writes, finished, whichever of the two names it has by now.
Finished(p, files) ==
  LET b == target[p] IN
  IF files[b].there /\ files[b].by = p THEN [files EXCEPT ![b].whole = TRUE] ELSE files

\* Mutant: the copy written in place.
CopyInPlace(p) ==
  /\ pc[p] = "copying"
  /\ backup' = [backup EXCEPT ![target[p]] = tmp[target[p]]]
  /\ Goto(p, "rename")
  /\ UNCHANGED <<disk, journal, tmp, target, version, created, faults>>

Copied(p) ==
  /\ pc[p] = "copying"
  /\ tmp' = Finished(p, tmp)
  /\ backup' = Finished(p, backup)
  /\ Goto(p, "rename")
  /\ UNCHANGED <<disk, journal, target, version, created, faults>>

\* The file is taken as it is found under the temporary name, if it is there.
Rename(p) ==
  /\ pc[p] = "rename"
  /\ IF tmp[target[p]].there
     THEN /\ backup' = [backup EXCEPT ![target[p]] = tmp[target[p]]]
          /\ tmp' = [tmp EXCEPT ![target[p]] = NoFile]
          /\ Goto(p, "step")
          /\ UNCHANGED <<target, version, created>>
     ELSE Fail(p) /\ UNCHANGED <<backup, tmp>>
  /\ UNCHANGED <<disk, journal, faults>>

-----------------------------------------------------------------------------
\* Step i has run, or has run more than once.
CountStep(ran, i) == [ran EXCEPT ![i] = IF @ = 0 THEN 1 ELSE 2]

\* Mutant: user_version set by the last step only.
UpgradedAtLast(v) ==
  [disk EXCEPT !.version = IF v = baseVersion + Steps THEN v ELSE @,
               !.ran = CountStep(disk.ran, v - 1)]

\* The database once the step to v has run in its transaction, user_version too.
Upgraded(v) == [disk EXCEPT !.version = v, !.ran = CountStep(disk.ran, v - 1)]

\* One step.  On a schema it was not written for it may fail, or do its harm.
Migrate(p) ==
  /\ pc[p] = "step"
  /\ \/ /\ disk' = Upgraded(version[p] + 1)
        /\ version' = [version EXCEPT ![p] = @ + 1]
        /\ Goto(p, IF version[p] + 1 = target[p] THEN "open" ELSE "step")
        /\ UNCHANGED <<target, created>>
     \/ /\ disk.version # version[p] \/ disk.kind \in Foreign
        /\ Fail(p) /\ UNCHANGED disk
  /\ UNCHANGED <<journal, backup, tmp, faults>>

\* The call fails; a transaction rolls back, a failed copy is removed.
CallFails(p) ==
  /\ pc[p] \notin {"idle", "open", "failed", "clear"}
  /\ faults < MaxFaults
  /\ faults' = faults + 1
  /\ IF pc[p] \in {"vacuum", "copying"}
     THEN tmp' = [tmp EXCEPT ![target[p]] = NoFile]
     ELSE UNCHANGED tmp
  /\ Fail(p)
  /\ UNCHANGED <<disk, journal, backup>>

\* The process ends, having run on the database or not; or it crashes.
Close(p) ==
  /\ pc[p] \in {"open", "failed"}
  /\ Goto(p, "idle")
  /\ UNCHANGED <<disk, journal, backup, tmp, target, version, created, faults>>

Crash(p) ==
  /\ pc[p] # "idle"
  /\ faults < MaxFaults
  /\ faults' = faults + 1
  /\ Goto(p, "idle")
  /\ UNCHANGED <<disk, journal, backup, tmp, target, version, created>>

Run(p) ==
  \/ Open(p) \/ Ping(p) \/ ReadVersion(p) \/ ReadTables(p) \/ Create(p) \/ Adopt(p)
  \/ ClearTmp(p) \/ Vacuum(p) \/ Copied(p) \/ Rename(p) \/ Migrate(p)
  \/ CallFails(p) \/ Close(p)

Next == \E p \in Proc : Run(p) \/ Crash(p)

Spec == Init /\ [][Next]_vars

\* Each call of Open returns, and the program is started again and again.
FairSpec == Spec /\ \A p \in Proc : WF_vars(Run(p))

-----------------------------------------------------------------------------
\* user_version says which schema a database of this tool has: every step below it
\* ran, once, and no other did ("migrations[i] takes the schema from version baseVersion+i to
\* baseVersion+i+1", schema.go), whatever failed or crashed.
VersionTells ==
  disk.version > 0 /\ disk.kind \notin Foreign =>
    \A i \in Step : disk.ran[i] = IF i < disk.version THEN 1 ELSE 0

\* A foreign database without a user_version keeps its tables and its version
\* ("refused rather than guessed at", adoptOrCreate), however many processes open
\* it.  Not so its journal mode, which Ping sets; and one with a user_version is
\* taken for this tool's.
LeavesOthersAlone ==
  [][disk.kind \in Foreign /\ disk.version = 0 => UNCHANGED disk]_vars

\* The version never goes back, whichever builds take turns: what a newer build
\* migrated an older one refuses, and what was adopted is not adopted again.
NeverBack == [][disk'.version >= disk.version]_vars

\* A step on a database the process did not create has a copy from before it to
\* fall back on, under the name of the version it is upgraded to; and no backup is
\* ever a partial copy, even after a crash ("an interrupted snapshot can never be
\* mistaken for a good one", snapshot.go).
StepsHaveBackup ==
  /\ \A b \in Build : backup[b].there => backup[b].whole
  /\ \A p \in Proc : pc[p] = "step" /\ ~created[p] =>
       LET b == backup[target[p]] IN
       /\ b.there
       /\ b.of.version >= baseVersion /\ b.of.version < target[p]
       /\ b.of.version <= disk.version /\ b.of.kind = disk.kind

\* Once nothing fails any more, a database this tool owns or adopts gets to the
\* schema of every build that is started again and again.  For one process at a time.
GetsCurrent ==
  \A b \in Build :
    []<>(\E p \in Proc : pc[p] = "version" /\ target[p] = b) =>
      (disk.kind \in Kind \ Foreign ~> disk.version >= b)
=============================================================================
