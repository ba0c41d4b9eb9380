------------------------- MODULE SchemaUpgradeProofs -------------------------
(***************************************************************************)
(* Theorems about SchemaUpgrade for any number of steps, builds and        *)
(* failures: for any number of processes, that foreign databases without a *)
(* version are left alone; for one process at a time, that user_version tells the truth and *)
(* that a whole copy of the database is there before a migration starts.   *)
(***************************************************************************)
EXTENDS SchemaUpgrade, TLAPS

\* A process past the checks of ensureSchema works on a database whose version it
\* knows, and which is behind its build; before them, on one without a version.
Migrating == {"clear", "vacuum", "copying", "rename", "step"}
RanToVersion ==
  disk.kind \notin Foreign =>
    \A i \in Step : disk.ran[i] = IF i < disk.version THEN 1 ELSE 0
Known ==
  /\ RanToVersion
  /\ \A p \in Proc :
       /\ pc[p] \in Migrating => /\ version[p] = disk.version
                                 /\ version[p] > 0 /\ version[p] < target[p]
       /\ pc[p] \in {"tables", "create", "adopt"} => disk.version = 0
       /\ pc[p] = "open" => disk.version = target[p]

\* No process gets beyond the tables of a foreign database without a version.
Alone == disk.kind \in Foreign /\ disk.version = 0
Untouched ==
  Alone => \A p \in Proc : pc[p] \in {"idle", "ping", "version", "tables", "failed"}

\* What both rest on of the types.
Shape ==
  /\ disk \in [kind : Kind, version : Nat, ran : [Step -> {0, 1, 2}]]
  /\ pc \in [Proc -> Stage]
  /\ version \in [Proc -> Nat]
  /\ target \in [Proc -> Build]

\* The initial states have the shape.
LEMMA InitShape == Init => Shape
<1> SUFFICES ASSUME Init PROVE Shape
  OBVIOUS
<1>1. disk \in [kind : Kind, version : Nat, ran : [Step -> {0, 1, 2}]]
  <2>1. CASE disk \in {Fresh(k) : k \in Kind \ {"ours"}}
    BY <2>1 DEF Fresh
  <2>2. CASE \E v \in Version : disk = [Fresh("alien") EXCEPT !.version = v]
    <3>1. PICK v \in Nat : disk = [Fresh("alien") EXCEPT !.version = v]
      BY <2>2 DEF Version
    <3>. QED  BY <3>1 DEF Fresh, Kind
  <2>. QED  BY <2>1, <2>2 DEF Init
<1>2. (CHOOSE b \in Build : TRUE) \in Build
  BY BuildAssumption
<1> QED
  BY <1>1, <1>2 DEF Init, Shape, Stage

\* Proceed goes to one of four stages, by comparing the version with the target.
LEMMA ProceedStage ==
  ASSUME Shape, NEW p \in Proc, NEW v \in Nat, NEW new \in BOOLEAN, Proceed(p, v, new)
  PROVE  \E stage \in {"failed", "open", "step", "clear"} :
           /\ Goto(p, stage)
           /\ stage = "open" => v = target[p]
           /\ stage \in {"step", "clear"} => v < target[p]
           /\ stage = "step" => new
<1>0. Version \subseteq Nat
  BY DEF Version
<1>1. target[p] \in Nat
  BY <1>0, BuildAssumption DEF Shape
<1>2. CASE v > target[p]
  BY <1>1, <1>2 DEF Proceed
<1>3. CASE v = target[p]
  BY <1>1, <1>3 DEF Proceed
<1>4. CASE v < target[p] /\ new
  BY <1>1, <1>4 DEF Proceed
<1>5. CASE v < target[p] /\ ~new
  BY <1>1, <1>5 DEF Proceed
<1> QED
  BY <1>1, <1>2, <1>3, <1>4, <1>5

\* Moving one process keeps pc a function into Stage.
LEMMA GotoShape ==
  ASSUME Shape, NEW p \in Proc, NEW stage \in Stage, Goto(p, stage)
  PROVE  pc' \in [Proc -> Stage]
  BY DEF Shape, Goto

\* Counting a step gives counts.
LEMMA CountShape ==
  ASSUME NEW ran \in [Step -> {0, 1, 2}], NEW i
  PROVE  CountStep(ran, i) \in [Step -> {0, 1, 2}]
  BY DEF CountStep

\* And every step keeps it.
LEMMA NextShape == Shape /\ [Next]_vars => Shape'
<1> SUFFICES ASSUME Shape, [Next]_vars PROVE Shape'
  OBVIOUS
<1> USE DEF Shape, Goto, Fail, Stage
<1>1. ASSUME NEW p \in Proc, Open(p) \/ Ping(p) PROVE Shape'
  BY <1>1 DEF Open, Ping
<1>2. ASSUME NEW p \in Proc, ReadVersion(p) PROVE Shape'
  <2>1. CASE disk.version = 0
    BY <1>2, <2>1 DEF ReadVersion
  <2>2. CASE disk.version # 0
    <3>1. Proceed(p, disk.version, FALSE)
      BY <1>2, <2>2 DEF ReadVersion
    <3>2. PICK stage \in {"failed", "open", "step", "clear"} : Goto(p, stage)
      BY <3>1, ProceedStage
    <3> QED  BY <1>2, <3>2 DEF ReadVersion
  <2> QED  BY <2>1, <2>2
<1>3. ASSUME NEW p \in Proc, ReadTables(p) PROVE Shape'
  BY <1>3 DEF ReadTables, Tables
<1>4. ASSUME NEW p \in Proc, Create(p) PROVE Shape'
  <2>1. CASE disk.kind = "empty"
    <3>1. Proceed(p, baseVersion, TRUE)
      BY <1>4, <2>1 DEF Create
    <3>2. PICK stage \in {"failed", "open", "step", "clear"} : Goto(p, stage)
      BY <3>1, ProceedStage DEF baseVersion
    <3>3. disk' \in [kind : Kind, version : Nat, ran : [Step -> {0, 1, 2}]]
      <4>1. disk' = [disk EXCEPT !.kind = "ours", !.version = baseVersion]
        BY <1>4, <2>1 DEF Create
      <4>2. "ours" \in Kind
        BY DEF Kind
      <4>3. baseVersion \in Nat
        BY DEF baseVersion
      <4> QED  BY <4>1, <4>2, <4>3
    <3>4. version' \in [Proc -> Nat] /\ UNCHANGED target
      BY <1>4, <2>1 DEF Create, baseVersion
    <3> QED  BY <3>2, <3>3, <3>4
  <2>2. CASE disk.kind # "empty"
    BY <1>4, <2>2 DEF Create
  <2> QED  BY <2>1, <2>2
<1>5. ASSUME NEW p \in Proc, Adopt(p) PROVE Shape'
  <2>1. PICK stage \in {"failed", "open", "step", "clear"} : Goto(p, stage)
    BY <1>5, ProceedStage DEF Adopt, baseVersion
  <2>2. disk' \in [kind : Kind, version : Nat, ran : [Step -> {0, 1, 2}]]
    BY <1>5 DEF Adopt, baseVersion
  <2> QED  BY <1>5, <2>1, <2>2 DEF Adopt, baseVersion
<1>6. ASSUME NEW p \in Proc, ClearTmp(p) PROVE Shape'
  BY <1>6 DEF ClearTmp
<1>7. ASSUME NEW p \in Proc, Vacuum(p) PROVE Shape'
  BY <1>7 DEF Vacuum
<1>8. ASSUME NEW p \in Proc, Copied(p) PROVE Shape'
  BY <1>8 DEF Copied
<1>9. ASSUME NEW p \in Proc, Rename(p) PROVE Shape'
  BY <1>9 DEF Rename
<1>10. ASSUME NEW p \in Proc, Migrate(p) PROVE Shape'
  <2>1. CASE disk' = Upgraded(version[p] + 1) /\ version' = [version EXCEPT ![p] = @ + 1]
    <3>1. disk' \in [kind : Kind, version : Nat, ran : [Step -> {0, 1, 2}]]
      <4> DEFINE n == version[p] + 1
                 r == CountStep(disk.ran, n - 1)
      <4>1. n \in Nat /\ disk.ran \in [Step -> {0, 1, 2}]
        OBVIOUS
      <4>2. r \in [Step -> {0, 1, 2}]
        BY <4>1, CountShape
      <4>3. disk' = [disk EXCEPT !.version = n, !.ran = r]
        BY <2>1 DEF Upgraded
      <4> HIDE DEF n, r
      <4> QED  BY <4>1, <4>2, <4>3
    <3>2. version' \in [Proc -> Nat]
      BY <2>1
    <3> QED  BY <1>10, <3>1, <3>2 DEF Migrate
  <2>2. CASE Fail(p) /\ UNCHANGED disk
    BY <2>2
  <2> QED  BY <1>10, <2>1, <2>2 DEF Migrate
<1>11. ASSUME NEW p \in Proc, CallFails(p) \/ Close(p) \/ Crash(p) PROVE Shape'
  BY <1>11 DEF CallFails, Close, Crash
<1>12. CASE UNCHANGED vars
  BY <1>12 DEF vars
<1> QED
  BY <1>1, <1>2, <1>3, <1>4, <1>5, <1>6, <1>7, <1>8, <1>9, <1>10, <1>11, <1>12
  DEF Next, Run

-----------------------------------------------------------------------------
\* A step that leaves the database alone, and moves one process within what a
\* foreign database allows, keeps Untouched.
LEMMA StaysUntouched ==
  ASSUME Shape, Untouched, NEW p \in Proc, NEW stage, UNCHANGED disk, Goto(p, stage),
         Alone => stage \in {"idle", "ping", "version", "tables", "failed"}
  PROVE  Untouched'
  BY DEF Shape, Untouched, Alone, Goto

\* Every step keeps Untouched, and leaves a foreign database alone.
LEMMA NextUntouched ==
  ASSUME Shape, Untouched, [Next]_vars
  PROVE  Untouched' /\ (Alone => UNCHANGED disk)
<1>1. ASSUME NEW p \in Proc, Open(p) \/ Ping(p) PROVE Untouched' /\ UNCHANGED disk
  BY <1>1, StaysUntouched DEF Open, Ping
<1>2. ASSUME NEW p \in Proc, ReadVersion(p) PROVE Untouched' /\ UNCHANGED disk
  <2>1. CASE disk.version = 0
    BY <1>2, <2>1, StaysUntouched DEF ReadVersion
  <2>2. CASE disk.version # 0
    BY <1>2, <2>2 DEF ReadVersion, Untouched, Alone
  <2> QED  BY <2>1, <2>2
<1>3. ASSUME NEW p \in Proc, ReadTables(p) PROVE Untouched' /\ UNCHANGED disk
  <2>1. Alone => Tables(p) = "failed"
    BY DEF Alone, Foreign, Tables
  <2> QED  BY <1>3, <2>1, StaysUntouched DEF ReadTables
<1>4. ASSUME NEW p \in Proc, Create(p) \/ Adopt(p) \/ Migrate(p)
      PROVE  Untouched' /\ ~Alone
  <2>1. ~Alone
    BY <1>4 DEF Untouched, Create, Adopt, Migrate
  <2>2. disk' = disk \/ disk'.version # 0
    <3>1. version[p] \in Nat
      BY DEF Shape
    <3>2. CASE Create(p) \/ Adopt(p)
      <4>1. CASE UNCHANGED disk
        BY <4>1
      <4>2. CASE disk' = [disk EXCEPT !.kind = "ours", !.version = 1]
        BY <4>2 DEF Shape
      <4>3. CASE disk' = [disk EXCEPT !.version = 1]
        BY <4>3 DEF Shape
      <4>. QED  BY <3>2, <4>1, <4>2, <4>3 DEF Create, Adopt, baseVersion
    <3>3. CASE Migrate(p)
      <4>1. disk' = disk \/ disk'.version = version[p] + 1
        BY <3>3 DEF Migrate, Upgraded, Shape
      <4>. QED  BY <3>1, <4>1
    <3>. QED  BY <1>4, <3>2, <3>3
  <2> QED  BY <2>1, <2>2 DEF Untouched, Alone
<1>5. ASSUME NEW p \in Proc, ClearTmp(p) \/ Vacuum(p) \/ Copied(p) \/ Rename(p)
      PROVE  Untouched' /\ UNCHANGED disk
  <2>1. ~Alone
    BY <1>5 DEF Untouched, ClearTmp, Vacuum, Copied, Rename
  <2>2. UNCHANGED disk
    BY <1>5 DEF ClearTmp, Vacuum, Copied, Rename
  <2> QED  BY <2>1, <2>2 DEF Untouched, Alone
<1>6. ASSUME NEW p \in Proc, CallFails(p) \/ Close(p) \/ Crash(p)
      PROVE  Untouched' /\ UNCHANGED disk
  BY <1>6, StaysUntouched DEF CallFails, Close, Crash, Fail
<1>7. CASE UNCHANGED vars
  BY <1>7 DEF vars, Untouched, Alone
<1> QED
  BY <1>1, <1>2, <1>3, <1>4, <1>5, <1>6, <1>7 DEF Next, Run

\* A database this tool does not own, and that has no user_version, keeps its tables
\* and version (adoptOrCreate), by however many processes of whatever builds it is
\* opened, failing or crashing anywhere.
THEOREM OthersAreLeftAlone == Spec => LeavesOthersAlone
<1>1. Init => Shape /\ Untouched
  <2>1. Init => Untouched
    BY DEF Init, Untouched
  <2> QED  BY <2>1, InitShape
<1>2. Shape /\ Untouched /\ [Next]_vars => (Shape /\ Untouched)'
  BY NextShape, NextUntouched
<1>3. Shape /\ Untouched /\ [Next]_vars => [disk.kind \in Foreign /\ disk.version = 0 => UNCHANGED disk]_vars
  BY NextUntouched DEF Alone
<1> QED
  BY <1>1, <1>2, <1>3, PTL DEF Spec, LeavesOthersAlone

-----------------------------------------------------------------------------
\* With one process, a step that leaves the database alone keeps Known if what it
\* claims of the stage it goes to is true.
LEMMA StaysKnown ==
  ASSUME Shape, Known, NEW p \in Proc, Proc = {p}, NEW stage, UNCHANGED <<disk, target>>,
         Goto(p, stage),
         stage \in Migrating => /\ version'[p] = disk.version
                                /\ version'[p] > 0 /\ version'[p] < target[p],
         stage \in {"tables", "create", "adopt"} => disk.version = 0,
         stage = "open" => disk.version = target[p]
  PROVE  Known'
<1>1. pc'[p] = stage
  BY DEF Shape, Goto
<1> QED
  BY <1>1 DEF Known, RanToVersion

\* Going on from version v, with the process's version set to it.
LEMMA ProceedKnown ==
  ASSUME Shape, NEW p \in Proc, Proc = {p}, NEW v \in Nat \ {0}, NEW new \in BOOLEAN,
         Proceed(p, v, new), version'[p] = v, disk'.version = v, UNCHANGED target,
         RanToVersion'
  PROVE  Known'
<1>1. PICK stage \in {"failed", "open", "step", "clear"} :
        /\ Goto(p, stage)
        /\ stage = "open" => v = target[p]
        /\ stage \in {"step", "clear"} => v < target[p]
  BY ProceedStage
<1>2. pc'[p] = stage
  BY <1>1 DEF Shape, Goto
<1> QED
  BY <1>1, <1>2 DEF Known, Migrating

\* A step of the only process keeps Known, and takes the version nowhere back.
LEMMA NextKnown ==
  ASSUME Shape, Known, NEW p \in Proc, Proc = {p}, [Next]_vars
  PROVE  Known' /\ disk'.version >= disk.version
<1>0. disk.version \in Nat /\ version[p] \in Nat /\ target[p] \in Nat
  <2>1. Version \subseteq Nat
    BY DEF Version
  <2> QED  BY <2>1, BuildAssumption DEF Shape
<1>1. CASE Open(p) \/ Ping(p)
  <2>1. pc'[p] \in {"ping", "version"} /\ UNCHANGED disk
    BY <1>1 DEF Open, Ping, Goto, Shape
  <2> QED  BY <1>0, <2>1 DEF Known, RanToVersion, Migrating
<1>2. CASE ReadVersion(p)
  <2>1. version'[p] = disk.version /\ UNCHANGED <<disk, target>>
    BY <1>2 DEF ReadVersion, Shape
  <2>2. CASE disk.version = 0
    BY <1>0, <1>2, <2>1, <2>2, StaysKnown DEF ReadVersion, Migrating
  <2>3. CASE disk.version # 0
    <3>1. \E new \in BOOLEAN : Proceed(p, disk.version, new)
      BY <1>2, <2>3 DEF ReadVersion
    <3>2. RanToVersion'
      BY <2>1 DEF Known, RanToVersion
    <3>3. disk.version \in Nat \ {0} /\ disk'.version = disk.version
      BY <1>0, <2>1, <2>3
    <3>4. Known'
      BY <2>1, <3>1, <3>2, <3>3, ProceedKnown
    <3> QED  BY <1>0, <3>3, <3>4
  <2> QED  BY <2>2, <2>3
<1>3. CASE ReadTables(p)
  <2>1. Tables(p) \in {"create", "adopt", "failed"} /\ disk.version = 0
    BY <1>3 DEF ReadTables, Tables, Known
  <2> QED  BY <1>0, <1>3, <2>1, StaysKnown DEF ReadTables, Migrating
<1>4. CASE Create(p) /\ disk.kind # "empty"
  BY <1>0, <1>4, StaysKnown DEF Create, Fail, Migrating
<1>5. CASE Adopt(p) \/ (Create(p) /\ disk.kind = "empty")
  <2>1. disk.version = 0 /\ UNCHANGED target
    BY <1>5 DEF Adopt, Create, Known
  <2>2. disk'.version = 1 /\ disk'.ran = disk.ran /\ version'[p] = 1
    BY <1>5 DEF Adopt, Create, Shape, baseVersion
  <2>3. \E new \in BOOLEAN : Proceed(p, 1, new)
    BY <1>5 DEF Adopt, Create, baseVersion
  <2>4. RanToVersion'
    <3>1. \A i \in Step : i \in Nat /\ i >= 1
      BY StepsAssumption DEF Step, baseVersion
    <3>2. disk.kind \in Foreign => disk'.kind \in Foreign
      BY <1>5 DEF Adopt, Create, Shape, Foreign
    <3> QED  BY <2>1, <2>2, <3>1, <3>2 DEF Known, RanToVersion
  <2>5. Known'
    BY <2>1, <2>2, <2>3, <2>4, ProceedKnown
  <2> QED  BY <2>1, <2>2, <2>5
<1>6. CASE ClearTmp(p) \/ Vacuum(p) \/ Copied(p) \/ Rename(p)
  <2>1. PICK stage \in {"vacuum", "copying", "rename", "step", "failed"} : Goto(p, stage)
    BY <1>6 DEF ClearTmp, Vacuum, Copied, Rename, Fail
  <2>2. UNCHANGED <<disk, target, version>>
    BY <1>6 DEF ClearTmp, Vacuum, Copied, Rename, Fail
  <2>3. version[p] = disk.version /\ version[p] > 0 /\ version[p] < target[p]
    BY <1>6 DEF ClearTmp, Vacuum, Copied, Rename, Known, Migrating
  <2> QED  BY <1>0, <2>1, <2>2, <2>3, StaysKnown
<1>7. CASE Migrate(p)
  <2>0. CASE Fail(p) /\ UNCHANGED disk
    BY <1>0, <2>0, StaysKnown DEF Fail, Migrating
  <2>1. version[p] = disk.version /\ version[p] > 0 /\ version[p] < target[p]
    BY <1>7 DEF Migrate, Known, Migrating
  <2>. SUFFICES ASSUME ~(Fail(p) /\ UNCHANGED disk)
                PROVE  Known' /\ disk'.version >= disk.version
    BY <2>0
  <2>2. /\ disk' = Upgraded(version[p] + 1)
        /\ version' = [version EXCEPT ![p] = @ + 1]
        /\ Goto(p, IF version[p] + 1 = target[p] THEN "open" ELSE "step")
        /\ UNCHANGED target
    BY <1>7, <2>1 DEF Migrate
  <2>3. disk'.version = version[p] + 1 /\ disk'.ran = CountStep(disk.ran, version[p])
    <3>1. version[p] + 1 - 1 = version[p]
      BY <1>0
    <3> QED  BY <2>2, <3>1 DEF Upgraded, Shape
  <2>4. RanToVersion'
    <3>0. disk'.kind = disk.kind
      BY <2>2 DEF Upgraded, Shape
    <3> SUFFICES ASSUME disk.kind \notin Foreign, NEW i \in Step
                 PROVE  disk'.ran[i] = IF i < disk'.version THEN 1 ELSE 0
      BY <3>0 DEF RanToVersion
    <3>1. i \in Nat /\ disk.ran \in [Step -> {0, 1, 2}]
      BY StepsAssumption DEF Step, baseVersion, Shape
    <3>2. disk.ran[i] = IF i < version[p] THEN 1 ELSE 0
      BY <2>1 DEF Known, RanToVersion
    <3>3. CASE i = version[p]
      BY <1>0, <2>3, <3>1, <3>2, <3>3 DEF CountStep
    <3>4. CASE i # version[p]
      <4>1. disk'.ran[i] = disk.ran[i]
        BY <2>3, <3>1, <3>4 DEF CountStep
      <4> QED  BY <1>0, <2>3, <3>1, <3>2, <3>4, <4>1
    <3> QED  BY <3>3, <3>4
  <2>5. version'[p] = version[p] + 1
    BY <2>2 DEF Shape
  <2>6. pc'[p] = IF version[p] + 1 = target[p] THEN "open" ELSE "step"
    BY <2>2 DEF Goto, Shape
  <2>7. Known'
    BY <1>0, <2>1, <2>2, <2>3, <2>4, <2>5, <2>6 DEF Known, Migrating
  <2> QED  BY <1>0, <2>1, <2>3, <2>7
<1>8. CASE CallFails(p) \/ Close(p) \/ Crash(p)
  <2>1. PICK stage \in {"failed", "idle"} : Goto(p, stage)
    BY <1>8 DEF CallFails, Close, Crash, Fail
  <2>2. UNCHANGED <<disk, target>>
    BY <1>8 DEF CallFails, Close, Crash, Fail
  <2> QED  BY <1>0, <2>1, <2>2, StaysKnown DEF Migrating
<1>9. CASE UNCHANGED vars
  BY <1>0, <1>9 DEF vars, Known, RanToVersion
<1> QED
  BY <1>1, <1>2, <1>3, <1>4, <1>5, <1>6, <1>7, <1>8, <1>9 DEF Next, Run

\* The initial states know nothing wrong.
LEMMA InitKnown == Init => Known
<1> SUFFICES ASSUME Init PROVE Known
  OBVIOUS
<1>1. disk.kind \notin Foreign => \E k \in Kind : disk = Fresh(k)
  BY DEF Init, Fresh, Foreign
<1>2. \A i \in Step : i \in Nat /\ i >= 1
  BY StepsAssumption DEF Step, baseVersion
<1>3. RanToVersion
  BY <1>1, <1>2 DEF Fresh, RanToVersion
<1>4. \A p \in Proc : pc[p] = "idle"
  BY DEF Init
<1> QED
  BY <1>3, <1>4 DEF Known, Migrating

\* For one process at a time user_version tells which steps have run, however
\* often opening fails or crashes, between whichever calls (ensureSchema).
THEOREM VersionAlwaysTells ==
  ASSUME NEW p \in Proc, Proc = {p}
  PROVE  Spec => []VersionTells
<1>1. Init => Shape /\ Known
  BY InitShape, InitKnown
<1>2. Shape /\ Known /\ [Next]_vars => (Shape /\ Known)'
  BY NextShape, NextKnown
<1>3. Shape /\ Known => VersionTells
  BY DEF Known, RanToVersion, VersionTells
<1> QED
  BY <1>1, <1>2, <1>3, PTL DEF Spec

\* Nor does it go back (ensureSchema refuses what a newer build migrated).
THEOREM VersionNeverGoesBack ==
  ASSUME NEW p \in Proc, Proc = {p}
  PROVE  Spec => NeverBack
<1>1. Init => Shape /\ Known
  BY InitShape, InitKnown
<1>2. Shape /\ Known /\ [Next]_vars => (Shape /\ Known)'
  BY NextShape, NextKnown
<1>3. Shape /\ Known /\ [Next]_vars => [disk'.version >= disk.version]_vars
  BY NextKnown
<1> QED
  BY <1>1, <1>2, <1>3, PTL DEF Spec, NeverBack

-----------------------------------------------------------------------------
\* The backup of the process's target is one to fall back on: of a version a step
\* starts from, no later than the database, which is the same one.
HasBackup(p) ==
  LET b == backup[target[p]] IN
  /\ b.there
  /\ b.of.version >= baseVersion /\ b.of.version < target[p]
  /\ b.of.version <= disk.version /\ b.of.kind = disk.kind

\* The copies, with p the only process: no backup is partial; while a snapshot is
\* under way its temporary file is the process's own and of the database as it is,
\* and whole once it can be renamed; and a step has its backup.
Copies(p) ==
  /\ \A b \in Build : backup[b].there => backup[b].whole
  /\ pc[p] \in {"copying", "rename"} =>
       LET t == tmp[target[p]] IN t.there /\ t.by = p /\ t.of = disk
  /\ pc[p] = "rename" => tmp[target[p]].whole
  /\ pc[p] = "step" /\ ~created[p] => HasBackup(p)

\* The types of what these are about.
Copy == [there : BOOLEAN, whole : BOOLEAN, by : Proc,
         of : [kind : Kind, version : Nat, ran : [Step -> {0, 1, 2}]]]
Filed ==
  /\ backup \in [Build -> Copy]
  /\ tmp \in [Build -> Copy]
  /\ created \in [Proc -> BOOLEAN]

\* No file is of that type too.
LEMMA NoFileFiled == ASSUME NEW p \in Proc PROVE NoFile \in Copy
<1>1. (CHOOSE q \in Proc : TRUE) \in Proc
  OBVIOUS
<1>2. Fresh("empty") \in [kind : Kind, version : Nat, ran : [Step -> {0, 1, 2}]]
  BY DEF Fresh, Kind
<1> QED
  BY <1>1, <1>2 DEF NoFile, Copy

\* Finishing what a process writes keeps the type, and only makes it whole.
LEMMA FinishedFiled ==
  ASSUME Shape, NEW p \in Proc, NEW files \in [Build -> Copy]
  PROVE  /\ Finished(p, files) \in [Build -> Copy]
         /\ \A b \in Build :
              /\ Finished(p, files)[b].there = files[b].there
              /\ Finished(p, files)[b].by = files[b].by
              /\ Finished(p, files)[b].of = files[b].of
              /\ files[b].whole => Finished(p, files)[b].whole
         /\ files[target[p]].there /\ files[target[p]].by = p =>
              Finished(p, files)[target[p]].whole
<1>1. target[p] \in Build
  BY DEF Shape
<1>2. CASE files[target[p]].there /\ files[target[p]].by = p
  <2>1. Finished(p, files) = [files EXCEPT ![target[p]].whole = TRUE]
    BY <1>2 DEF Finished
  <2>2. \A b \in Build : Finished(p, files)[b] =
          IF b = target[p] THEN [files[b] EXCEPT !.whole = TRUE] ELSE files[b]
    BY <1>1, <2>1
  <2>3. \A c \in Copy : LET w == [c EXCEPT !.whole = TRUE] IN
          w \in Copy /\ w.there = c.there /\ w.by = c.by /\ w.of = c.of /\ w.whole
    BY DEF Copy
  <2>4. \A b \in Build : files[b] \in Copy
    OBVIOUS
  <2>5. Finished(p, files) = [b \in Build |-> Finished(p, files)[b]]
    BY <2>1
  <2>6. \A b \in Build : Finished(p, files)[b] \in Copy
    BY <2>2, <2>3, <2>4
  <2>7. Finished(p, files) \in [Build -> Copy]
    BY <2>5, <2>6
  <2> QED  BY <1>1, <2>2, <2>3, <2>4, <2>7
<1>3. CASE ~(files[target[p]].there /\ files[target[p]].by = p)
  <2>1. Finished(p, files) = files
    BY <1>3 DEF Finished
  <2> QED  BY <1>3, <2>1
<1> QED
  BY <1>2, <1>3

\* Every step keeps the types.
LEMMA NextFiled ==
  ASSUME Shape, Filed, [Next]_vars
  PROVE  Filed'
<1>1. ASSUME NEW p \in Proc, Open(p) \/ Ping(p) \/ Create(p) PROVE Filed'
  BY <1>1 DEF Filed, Open, Ping, Create, Fail
<1>2. ASSUME NEW p \in Proc, ReadVersion(p) \/ ReadTables(p) \/ Adopt(p)
                             \/ Migrate(p) \/ Close(p) \/ Crash(p)
      PROVE  Filed'
  BY <1>2 DEF Filed, ReadVersion, ReadTables, Adopt, Migrate, Close, Crash, Fail
<1>3. ASSUME NEW p \in Proc, ClearTmp(p) \/ CallFails(p) PROVE Filed'
  BY <1>3, NoFileFiled DEF Filed, ClearTmp, CallFails, Fail
<1>4. ASSUME NEW p \in Proc, Vacuum(p) PROVE Filed'
  <2>1. CASE tmp[target[p]].there
    BY <1>4, <2>1, NoFileFiled DEF Filed, Vacuum, Fail
  <2>2. CASE ~tmp[target[p]].there
    <3>1. [there |-> TRUE, whole |-> FALSE, by |-> p, of |-> disk] \in Copy
      BY DEF Copy, Shape
    <3> QED  BY <1>4, <2>2, <3>1 DEF Filed, Vacuum
  <2> QED  BY <2>1, <2>2
<1>5. ASSUME NEW p \in Proc, Copied(p) PROVE Filed'
  BY <1>5, FinishedFiled DEF Filed, Copied
<1>6. ASSUME NEW p \in Proc, Rename(p) PROVE Filed'
  <2>1. target[p] \in Build
    BY DEF Shape
  <2> QED  BY <1>6, <2>1, NoFileFiled DEF Filed, Rename, Fail
<1>7. CASE UNCHANGED vars
  BY <1>7 DEF vars, Filed
<1> QED
  BY <1>1, <1>2, <1>3, <1>4, <1>5, <1>6, <1>7 DEF Next, Run

\* A step that leaves the files alone keeps Copies if the process goes where nothing
\* is claimed of them.
LEMMA StaysCopied ==
  ASSUME Shape, NEW p \in Proc, Copies(p), NEW stage, Goto(p, stage), UNCHANGED backup,
         stage \notin {"copying", "rename"}, stage = "step" => created'[p]
  PROVE  Copies(p)'
<1>1. pc'[p] = stage
  BY DEF Shape, Goto
<1> QED
  BY <1>1 DEF Copies

\* Going on with a database the process created, or one it did not.
LEMMA ProceedCopied ==
  ASSUME Shape, NEW p \in Proc, Copies(p), NEW v \in Nat, NEW new \in BOOLEAN,
         Proceed(p, v, new), UNCHANGED backup, new => created'[p]
  PROVE  Copies(p)'
<1>1. PICK stage \in {"failed", "open", "step", "clear"} :
        Goto(p, stage) /\ (stage = "step" => new)
  BY ProceedStage
<1> QED
  BY <1>1, StaysCopied

\* A step of the only process keeps Copies.
LEMMA NextCopied ==
  ASSUME Shape, Known, Filed, NEW p \in Proc, Proc = {p}, Copies(p), [Next]_vars
  PROVE  Copies(p)'
<1>0. /\ disk.version \in Nat /\ version[p] \in Nat /\ target[p] \in Nat
      /\ target[p] \in Build
  <2>1. Version \subseteq Nat
    BY DEF Version
  <2> QED  BY <2>1, BuildAssumption DEF Shape
<1>1. CASE Open(p) \/ Ping(p)
  BY <1>1, StaysCopied DEF Open, Ping
<1>2. CASE ReadVersion(p)
  <2>1. CASE disk.version = 0
    BY <1>2, <2>1, StaysCopied DEF ReadVersion
  <2>2. CASE disk.version # 0
    BY <1>0, <1>2, <2>2, ProceedCopied DEF ReadVersion
  <2> QED  BY <2>1, <2>2
<1>3. CASE ReadTables(p)
  <2>1. Tables(p) \in {"create", "adopt", "failed"}
    BY DEF Tables
  <2> QED  BY <1>3, <2>1, StaysCopied DEF ReadTables
<1>4. CASE Create(p)
  <2>1. CASE disk.kind = "empty"
    <3>1. created'[p] = TRUE
      BY <1>4, <2>1 DEF Create, Filed
    <3> QED  BY <1>4, <2>1, <3>1, ProceedCopied DEF Create, baseVersion
  <2>2. CASE disk.kind # "empty"
    BY <1>4, <2>2, StaysCopied DEF Create, Fail
  <2> QED  BY <2>1, <2>2
<1>5. CASE Adopt(p)
  BY <1>5, ProceedCopied DEF Adopt, baseVersion
<1>6. CASE ClearTmp(p)
  BY <1>6, StaysCopied DEF ClearTmp
<1>7. CASE Vacuum(p)
  <2>1. CASE tmp[target[p]].there
    BY <1>7, <2>1, StaysCopied DEF Vacuum, Fail
  <2>2. CASE ~tmp[target[p]].there
    <3>1. /\ pc'[p] = "copying" /\ target' = target /\ backup' = backup /\ disk' = disk
          /\ tmp'[target[p]] = [there |-> TRUE, whole |-> FALSE, by |-> p, of |-> disk]
      BY <1>0, <1>7, <2>2 DEF Vacuum, Goto, Shape, Filed
    <3> QED  BY <3>1 DEF Copies
  <2> QED  BY <2>1, <2>2
<1>8. CASE Copied(p)
  <2>1. /\ pc'[p] = "rename" /\ target' = target /\ disk' = disk
        /\ tmp' = Finished(p, tmp) /\ backup' = Finished(p, backup)
    BY <1>8 DEF Copied, Goto, Shape
  <2>2. \A b \in Build : backup'[b].there => backup'[b].whole
    BY <2>1, FinishedFiled DEF Filed, Copies
  <2>3. tmp[target[p]].there /\ tmp[target[p]].by = p /\ tmp[target[p]].of = disk
    BY <1>8 DEF Copied, Copies
  <2>4. LET t == tmp'[target'[p]] IN t.there /\ t.by = p /\ t.of = disk' /\ t.whole
    BY <1>0, <2>1, <2>3, FinishedFiled DEF Filed
  <2> QED  BY <2>1, <2>2, <2>4 DEF Copies
<1>9. CASE Rename(p)
  <2>1. LET t == tmp[target[p]] IN t.there /\ t.whole /\ t.of = disk
    BY <1>9 DEF Rename, Copies
  <2>2. /\ pc'[p] = "step" /\ target' = target /\ disk' = disk
        /\ backup' = [backup EXCEPT ![target[p]] = tmp[target[p]]]
    BY <1>9, <2>1 DEF Rename, Goto, Shape
  <2>3. \A b \in Build : backup'[b].there => backup'[b].whole
    BY <2>1, <2>2 DEF Filed, Copies
  <2>4. disk.version > 0 /\ disk.version < target[p]
    BY <1>9 DEF Rename, Known, Migrating
  <2>5. backup'[target[p]] = tmp[target[p]]
    BY <1>0, <2>2 DEF Filed
  <2>6. HasBackup(p)'
    BY <1>0, <2>1, <2>2, <2>4, <2>5 DEF HasBackup, baseVersion
  <2> QED  BY <2>2, <2>3, <2>6 DEF Copies
<1>10. CASE Migrate(p)
  <2>1. CASE disk' = Upgraded(version[p] + 1) /\ UNCHANGED <<target, created>>
             /\ Goto(p, IF version[p] + 1 = target[p] THEN "open" ELSE "step")
    <3>1. disk'.version = version[p] + 1 /\ disk'.kind = disk.kind
      BY <2>1 DEF Upgraded, Shape
    <3>2. pc'[p] \in {"open", "step"} /\ UNCHANGED backup
      BY <1>10, <2>1 DEF Migrate, Goto, Shape
    <3>3. version[p] = disk.version
      BY <1>10 DEF Migrate, Known, Migrating
    <3>4. ~created[p] => HasBackup(p)
      BY <1>10 DEF Migrate, Copies
    <3>5. backup[target[p]].of.version \in Nat
      BY <1>0 DEF Filed, Copy
    <3>6. ~created'[p] => HasBackup(p)'
      BY <1>0, <2>1, <3>1, <3>2, <3>3, <3>4, <3>5 DEF HasBackup
    <3> QED  BY <3>2, <3>6 DEF Copies
  <2>2. CASE Fail(p) /\ UNCHANGED backup
    BY <2>2, StaysCopied DEF Fail
  <2> QED  BY <1>10, <2>1, <2>2 DEF Migrate
<1>11. CASE CallFails(p) \/ Close(p) \/ Crash(p)
  BY <1>11, StaysCopied DEF CallFails, Close, Crash, Fail
<1>12. CASE UNCHANGED vars
  BY <1>12 DEF vars, Copies, HasBackup
<1> QED
  BY <1>1, <1>2, <1>3, <1>4, <1>5, <1>6, <1>7, <1>8, <1>9, <1>10, <1>11, <1>12
  DEF Next, Run

\* In the initial states there is no copy, and no process at work.
LEMMA InitCopied ==
  ASSUME NEW p \in Proc, Init
  PROVE  Filed /\ Copies(p)
<1>1. Filed
  BY NoFileFiled DEF Init, Filed
<1>2. Copies(p)
  BY DEF Init, Copies, NoFile
<1> QED
  BY <1>1, <1>2

\* For one process at a time no backup is ever partial, and no step runs on a
\* database the process did not create without a copy from before it, of the same
\* database, under the name of its target: after whatever failures and crashes,
\* whichever builds take turns (ensureSchema, Snapshot).
THEOREM StepsAlwaysHaveBackup ==
  ASSUME NEW p \in Proc, Proc = {p}
  PROVE  Spec => []StepsHaveBackup
<1> DEFINE I == Shape /\ Known /\ Filed /\ Copies(p)
<1>1. Init => I
  BY InitShape, InitKnown, InitCopied
<1>2. I /\ [Next]_vars => I'
  BY NextShape, NextKnown, NextFiled, NextCopied
<1>3. I => StepsHaveBackup
  BY DEF Copies, HasBackup, StepsHaveBackup
<1> QED
  BY <1>1, <1>2, <1>3, PTL DEF Spec

=============================================================================
