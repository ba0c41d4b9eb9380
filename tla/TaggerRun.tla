------------------------------ MODULE TaggerRun ------------------------------
(***************************************************************************)
(* One tagger run by internal/tagging/host.go against the SQLite cache of  *)
(* internal/store and a Hydrus client: discover, resolve identity,         *)
(* extract, derive, push, with progress saved after every extract chunk,   *)
(* after deriving and after every push batch.                              *)
(*                                                                         *)
(* Several processes (a scheduled run and one started by hand) may run the *)
(* tagger at once on one database.  Each keeps its work in memory only;    *)
(* what survives it is the database and what Hydrus was sent.              *)
(***************************************************************************)
EXTENDS Naturals, FiniteSets

CONSTANTS
  Proc,               \* processes that may run the tagger on this database
  DryRun,             \* those started with RunOptions.DryRun
  File,               \* Hydrus files (file id and hash are one identity here)
  TagSet,             \* canonical tag sets, told apart by their hash
  Empty,              \* the empty tag set
  None,               \* no row, no metadata, nothing to say
  TagsOf(_, _, _, _), \* Derive: file, derive version, artifact version, metadata
  HasExtract,         \* does the tagger implement FileExtractor?
  Rederive,           \* FileTagger.RederiveEveryRun
  MaxExtractVersion,  \* bound: extract versions the binary goes through
  MaxDeriveVersion,   \* bound: derive versions the binary goes through
  MaxRevision,        \* bound: revisions of a file's live Hydrus metadata
  MaxFaults,          \* bound: failures, cancellations and kills
  MetadataBatch, RecordBatch, PushBatch, \* RunOptions' batch sizes
  Concurrency                            \* RunOptions.ExtractConcurrency

ExtractVersion == 1..MaxExtractVersion
DeriveVersion  == 1..MaxDeriveVersion
Revision       == 0..MaxRevision

ASSUME ProcAssumption == DryRun \subseteq Proc /\ IsFiniteSet(Proc)
ASSUME FileAssumption == IsFiniteSet(File)
ASSUME TagAssumption ==
  /\ Empty \in TagSet
  /\ None \notin TagSet \cup Nat
  /\ \A f \in File, d \in DeriveVersion, c \in {0} \cup ExtractVersion, m \in Revision :
       TagsOf(f, d, c, m) \in TagSet
ASSUME FlagAssumption == HasExtract \in BOOLEAN /\ Rederive \in BOOLEAN
ASSUME BoundAssumption ==
  /\ {MaxExtractVersion, MaxDeriveVersion} \subseteq Nat \ {0}
  /\ {MaxRevision, MaxFaults} \subseteq Nat
  /\ {MetadataBatch, RecordBatch, PushBatch, Concurrency} \subseteq Nat \ {0}

VARIABLES
  \* The SQLite cache.
  refs,      \* files table: the files whose identity is cached
  state,     \* tagger_file_state: versions per file, 0 when unset
  chunks,    \* extract version whose artifact the cache holds, 0 for none
  tags,      \* tagger_tags: tag set last derived, None for no row
  ledger,    \* pushes: tag set last pushed, None for no row
  \* The world outside.
  sent,      \* the tag sets Hydrus was asked to add to each file, answered or not
  hydrus,    \* those it did add; it never loses one
  library,   \* the files the selector query matches
  meta,      \* the revision of each file's metadata
  build,     \* the versions compiled into the installed binary
  faults,    \* failures so far
  \* Each process's memory.
  pc,         \* the call it is about to make
  cancelled,  \* is its context done?
  files,      \* ids under consideration: the search result, then the known ones
  work,       \* ids the current stage has still to handle
  chunk,      \* files of the current extract chunk no reader has taken
  reading,    \* files a reader goroutine is busy with
  free,       \* slots left of the semaphore that bounds the readers
  outdated,   \* files whose stored derive version was behind when read
  extracted,  \* files extracted in this run
  fetched,    \* metadata as it was when fetched, None if it was not
  candidates, \* tag sets derived, or stored but unpushed; None for neither
  request,    \* what the AddTags call being made asks for each file, None for nothing
  pushed,     \* files Hydrus accepted a tag set for in this run
  pending,    \* outcomes not saved yet
  status,     \* the result's status
  flawed      \* has the result a failure count or a warning?

dbVars    == <<refs, state, chunks, tags, ledger>>
outside   == <<sent, hydrus, library, meta, build>>
worldVars == <<outside, faults>>
readers   == <<chunk, reading, free>>
procVars  == <<pc, cancelled, files, work, readers, outdated, extracted, fetched,
               candidates, request, pushed, pending, status, flawed>>
vars      == <<dbVars, worldVars, procVars>>

-----------------------------------------------------------------------------
Stage == {"idle", "discover", "resolve", "identify", "upsert", "states",
          "extract", "reading", "fetch", "derive", "unpushed", "ledger",
          "service", "push", "request", "savepush", "final"}

Stored   == TagSet \cup {None}
Versions == [extract : 0..MaxExtractVersion, derive : 0..MaxDeriveVersion]
Outcome  == [extract : ExtractVersion \cup {None}, derive : DeriveVersion \cup {None},
             tags : Stored, pushed : Stored]

\* An outcome that sets nothing: every field nil.
NoOutcome == [extract |-> None, derive |-> None, tags |-> None, pushed |-> None]
NothingPending == [f \in File |-> NoOutcome]
NoRequest == [f \in File |-> None]

TypeOK ==
  /\ refs \subseteq File
  /\ state \in [File -> Versions]
  /\ chunks \in [File -> 0..MaxExtractVersion]
  /\ tags \in [File -> Stored]
  /\ ledger \in [File -> Stored]
  /\ sent \in [File -> SUBSET TagSet]
  /\ hydrus \in [File -> SUBSET TagSet]
  /\ library \subseteq File
  /\ meta \in [File -> Revision]
  /\ build \in [extract : ExtractVersion, derive : DeriveVersion]
  /\ faults \in 0..MaxFaults
  /\ pc \in [Proc -> Stage]
  /\ cancelled \in [Proc -> BOOLEAN]
  /\ files \in [Proc -> SUBSET File]
  /\ work \in [Proc -> SUBSET File]
  /\ chunk \in [Proc -> SUBSET File]
  /\ reading \in [Proc -> SUBSET File]
  /\ free \in [Proc -> Nat]
  /\ outdated \in [Proc -> SUBSET File]
  /\ extracted \in [Proc -> SUBSET File]
  /\ fetched \in [Proc -> [File -> Revision \cup {None}]]
  /\ candidates \in [Proc -> [File -> Stored]]
  /\ request \in [Proc -> [File -> Stored]]
  /\ pushed \in [Proc -> SUBSET File]
  /\ pending \in [Proc -> [File -> Outcome]]
  /\ status \in [Proc -> {"none", "running", "completed", "failed", "killed"}]
  /\ flawed \in [Proc -> BOOLEAN]

Init ==
  /\ refs = {}
  /\ state = [f \in File |-> [extract |-> 0, derive |-> 0]]
  /\ chunks = [f \in File |-> 0]
  /\ tags = [f \in File |-> None]
  /\ ledger = [f \in File |-> None]
  /\ sent = [f \in File |-> {}]
  /\ hydrus = [f \in File |-> {}]
  /\ library = {}
  /\ meta = [f \in File |-> 0]
  /\ build = [extract |-> 1, derive |-> 1]
  /\ faults = 0
  /\ pc = [p \in Proc |-> "idle"]
  /\ cancelled = [p \in Proc |-> FALSE]
  /\ files = [p \in Proc |-> {}]
  /\ work = [p \in Proc |-> {}]
  /\ chunk = [p \in Proc |-> {}]
  /\ reading = [p \in Proc |-> {}]
  /\ free = [p \in Proc |-> Concurrency]
  /\ outdated = [p \in Proc |-> {}]
  /\ extracted = [p \in Proc |-> {}]
  /\ fetched = [p \in Proc |-> [f \in File |-> None]]
  /\ candidates = [p \in Proc |-> [f \in File |-> None]]
  /\ request = [p \in Proc |-> NoRequest]
  /\ pushed = [p \in Proc |-> {}]
  /\ pending = [p \in Proc |-> NothingPending]
  /\ status = [p \in Proc |-> "none"]
  /\ flawed = [p \in Proc |-> FALSE]

-----------------------------------------------------------------------------
\* What the process remembers of its run, besides where it is.
memory == <<files, work, readers, outdated, extracted, fetched, candidates, request,
            pushed, pending>>

Goto(p, stage) == pc' = [pc EXCEPT ![p] = stage]

\* A stage returns an error: nothing is left to do but the final save.
Fail(p) == Goto(p, "final") /\ status' = [status EXCEPT ![p] = "failed"]

Blame(p) == flawed' = [flawed EXCEPT ![p] = TRUE]

Fault == faults < MaxFaults /\ faults' = faults + 1

\* A call made under a context that is done may fail for that reason alone.
CallFault(p) == IF cancelled[p] THEN UNCHANGED faults ELSE Fault

\* The slices slices.Chunk cuts off S: full ones, or what is left.
Batches(S, size) ==
  {b \in (SUBSET S) \ {{}} :
     Cardinality(b) = IF Cardinality(S) < size THEN Cardinality(S) ELSE size}

-----------------------------------------------------------------------------
\* Saving: run.flush and Store.Record, one transaction.

\* Mutant: a field that is there is left alone.
CoalesceOld(new, old) == IF old = None THEN new ELSE old

Coalesce(new, old) == IF new = None THEN old ELSE new

\* Mutants: a row replaced rather than merged; tags left out of the transaction;
\* the hash of what was derived taken for the hash of what was pushed.
RecordStateReplacing(outcome) ==
  state' = [f \in File |-> IF {outcome[f].extract, outcome[f].derive} = {None}
             THEN state[f] ELSE [extract |-> Coalesce(outcome[f].extract, 0),
                                 derive  |-> Coalesce(outcome[f].derive, 0)]]
RecordNoTags(outcome) == UNCHANGED tags
RecordPushOfDerived(outcome) ==
  ledger' = [f \in File |-> Coalesce(outcome[f].tags, ledger[f])]

RecordState(outcome) ==
  state' = [f \in File |-> [extract |-> Coalesce(outcome[f].extract, state[f].extract),
                            derive  |-> Coalesce(outcome[f].derive, state[f].derive)]]
RecordTags(outcome) == tags' = [f \in File |-> Coalesce(outcome[f].tags, tags[f])]
RecordPush(outcome) == ledger' = [f \in File |-> Coalesce(outcome[f].pushed, ledger[f])]

Record(outcome) == RecordState(outcome) /\ RecordTags(outcome) /\ RecordPush(outcome)

\* Mutant: the dry run is not told apart.
SaveAlways(p) ==
  /\ Record(pending[p])
  /\ pending' = [pending EXCEPT ![p] = NothingPending]
  /\ UNCHANGED <<refs, chunks>>

\* A dry run forgets its outcomes instead of recording them.
Save(p) ==
  /\ IF p \in DryRun THEN UNCHANGED <<state, tags, ledger>> ELSE Record(pending[p])
  /\ pending' = [pending EXCEPT ![p] = NothingPending]
  /\ UNCHANGED <<refs, chunks>>

\* The store refuses, and what was to be saved stays pending.  Saving does not
\* look at the context, so cancellation alone never makes it fail.
SaveFails(p) ==
  /\ p \notin DryRun
  /\ pending[p] # NothingPending
  /\ Fault
  /\ UNCHANGED dbVars

-----------------------------------------------------------------------------
\* Discover and resolve identity.

Start(p) ==
  /\ pc[p] = "idle"
  /\ Goto(p, "discover")
  /\ status' = [status EXCEPT ![p] = "running"]
  /\ flawed' = [flawed EXCEPT ![p] = FALSE]
  /\ UNCHANGED <<dbVars, worldVars, memory, cancelled>>

Discover(p) ==
  /\ pc[p] = "discover"
  /\ files' = [files EXCEPT ![p] = library]
  /\ Goto(p, IF library = {} THEN "final" ELSE "resolve")
  /\ UNCHANGED <<dbVars, worldVars, cancelled, work, readers, outdated, extracted,
                 fetched, candidates, request, pushed, pending, status, flawed>>

Resolve(p) ==
  /\ pc[p] = "resolve"
  /\ work' = [work EXCEPT ![p] = files[p] \ refs]
  /\ Goto(p, IF files[p] \subseteq refs THEN "states" ELSE "identify")
  /\ UNCHANGED <<dbVars, worldVars, cancelled, files, readers, outdated, extracted,
                 fetched, candidates, request, pushed, pending, status, flawed>>

\* FileMetadata for one batch.  Hydrus may answer for some of it only.
Ask(p, batch, answered) ==
  /\ fetched' = [fetched EXCEPT ![p] =
                   [f \in File |-> IF f \in answered THEN meta[f] ELSE @[f]]]
  /\ IF answered = batch THEN UNCHANGED faults ELSE Fault

\* A file without metadata, or whose metadata has no hash, is skipped.
Identify(p) ==
  /\ pc[p] = "identify"
  /\ \E batch \in Batches(work[p], MetadataBatch) : \E answered \in SUBSET batch :
       /\ Ask(p, batch, answered)
       /\ work' = [work EXCEPT ![p] = @ \ batch]
       /\ files' = [files EXCEPT ![p] = @ \ (batch \ answered)]
       /\ IF answered = batch THEN UNCHANGED flawed ELSE Blame(p)
       /\ Goto(p, IF work[p] = batch THEN "upsert" ELSE "identify")
  /\ UNCHANGED <<dbVars, outside, cancelled, readers, outdated, extracted,
                 candidates, request, pushed, pending, status>>

Discovered(p) == {f \in files[p] : fetched[p][f] # None}

Upsert(p) ==
  /\ pc[p] = "upsert"
  /\ refs' = refs \cup Discovered(p)
  /\ Goto(p, "states")
  /\ UNCHANGED <<state, chunks, tags, ledger, worldVars, memory, cancelled,
                 status, flawed>>

\* FileStates: which files are behind is settled here, once for the run.
ReadStates(p) ==
  /\ pc[p] = "states"
  /\ work' = [work EXCEPT ![p] =
                IF HasExtract THEN {f \in files[p] : state[f].extract < build.extract}
                              ELSE {}]
  /\ outdated' = [outdated EXCEPT ![p] =
                    {f \in files[p] : state[f].derive < build.derive}]
  /\ Goto(p, "extract")
  /\ UNCHANGED <<dbVars, worldVars, cancelled, files, readers, extracted, fetched,
                 candidates, request, pushed, pending, status, flawed>>

-----------------------------------------------------------------------------
\* Extract: chunks of RecordBatch files, Concurrency readers at a time.

\* Mutant: the slot is not given back.
KeepSlot(p) == UNCHANGED free

\* A reader is done, with its file and with its slot.
GiveBack(p) == free' = [free EXCEPT ![p] = @ + 1]

\* A new semaphore for every chunk.
NextChunk(p) ==
  /\ pc[p] = "extract"
  /\ \E batch \in Batches(work[p], RecordBatch) :
       /\ chunk' = [chunk EXCEPT ![p] = batch]
       /\ work' = [work EXCEPT ![p] = @ \ batch]
  /\ free' = [free EXCEPT ![p] = Concurrency]
  /\ Goto(p, "reading")
  /\ UNCHANGED <<dbVars, worldVars, cancelled, files, reading, outdated, extracted,
                 fetched, candidates, request, pushed, pending, status, flawed>>

\* No new read starts once the context is done.
BeginRead(p) ==
  /\ pc[p] = "reading"
  /\ ~cancelled[p]
  /\ free[p] > 0
  /\ free' = [free EXCEPT ![p] = @ - 1]
  /\ \E f \in chunk[p] :
       /\ chunk' = [chunk EXCEPT ![p] = @ \ {f}]
       /\ reading' = [reading EXCEPT ![p] = @ \cup {f}]
  /\ UNCHANGED <<dbVars, worldVars, cancelled, pc, files, work, outdated, extracted,
                 fetched, candidates, request, pushed, pending, status, flawed>>

\* Extract returns nil: it has replaced the cached artifact.
ReadSucceeds(p) ==
  /\ pc[p] = "reading"
  /\ \E f \in reading[p] :
       /\ reading' = [reading EXCEPT ![p] = @ \ {f}] /\ GiveBack(p)
       /\ chunks' = [chunks EXCEPT ![f] = build.extract]
       /\ extracted' = [extracted EXCEPT ![p] = @ \cup {f}]
       /\ pending' = [pending EXCEPT ![p][f].extract = build.extract]
  /\ UNCHANGED <<refs, state, tags, ledger, worldVars, cancelled, pc, files, work,
                 chunk, outdated, fetched, candidates, request, pushed, status,
                 flawed>>

\* Extract returns an error.  Under a done context it is not reported.
ReadFails(p) ==
  /\ pc[p] = "reading"
  /\ \E f \in reading[p] : reading' = [reading EXCEPT ![p] = @ \ {f}]
  /\ GiveBack(p)
  /\ CallFault(p)
  /\ IF cancelled[p] THEN UNCHANGED flawed ELSE Blame(p)
  /\ UNCHANGED <<dbVars, outside, cancelled, pc, files, work, chunk, outdated,
                 extracted, fetched, candidates, request, pushed, pending, status>>

\* Mutant: the rest of the chunk is waited for even when no read will start.
ChunkDrained(p) == pc[p] = "reading" /\ reading[p] = {} /\ chunk[p] = {}

\* The context is looked at with a slot in hand.
ChunkDone(p) ==
  /\ pc[p] = "reading"
  /\ reading[p] = {}
  /\ chunk[p] = {} \/ (cancelled[p] /\ free[p] > 0)

SaveChunk(p) ==
  /\ ChunkDone(p)
  /\ chunk' = [chunk EXCEPT ![p] = {}]
  /\ \/ /\ Save(p)
        /\ UNCHANGED faults
        /\ IF cancelled[p] THEN Fail(p) ELSE Goto(p, "extract") /\ UNCHANGED status
     \/ SaveFails(p) /\ Fail(p) /\ UNCHANGED pending
  /\ UNCHANGED <<outside, cancelled, files, work, reading, free, outdated,
                 extracted, fetched, candidates, request, pushed, flawed>>

-----------------------------------------------------------------------------
\* Derive.

\* Mutant: live metadata is not derived from again.
TodoOnce(p) == {f \in files[p] : f \in extracted[p] \/ f \in outdated[p]}

Todo(p) == {f \in files[p] : Rederive \/ f \in extracted[p] \/ f \in outdated[p]}

\* Fetch the metadata of unfetched files; with none left to ask for, derive.
FetchOrDerive(p, unfetched) ==
  /\ work' = [work EXCEPT ![p] = IF unfetched = {} THEN Todo(p) ELSE unfetched]
  /\ Goto(p, IF unfetched = {} THEN "derive" ELSE "fetch")

PlanDerive(p) ==
  /\ pc[p] = "extract"
  /\ work[p] = {}
  /\ FetchOrDerive(p, {f \in Todo(p) : fetched[p][f] = None})
  /\ UNCHANGED <<dbVars, worldVars, cancelled, files, readers, outdated, extracted,
                 fetched, candidates, request, pushed, pending, status, flawed>>

Fetch(p) ==
  /\ pc[p] = "fetch"
  /\ \E batch \in Batches(work[p], MetadataBatch) : \E answered \in SUBSET batch :
       /\ Ask(p, batch, answered)
       /\ FetchOrDerive(p, work[p] \ batch)
  /\ UNCHANGED <<dbVars, outside, cancelled, files, readers, outdated, extracted,
                 candidates, request, pushed, pending, status, flawed>>

\* Derive reads the cached artifact as it is now, and the metadata as fetched.
Derive(p) ==
  /\ pc[p] = "derive"
  /\ \E f \in work[p] :
       LET derived == TagsOf(f, build.derive, chunks[f], fetched[p][f]) IN
       /\ fetched[p][f] # None
       /\ work' = [work EXCEPT ![p] = @ \ {f}]
       /\ candidates' = [candidates EXCEPT ![p][f] = derived]
       /\ pending' = [pending EXCEPT ![p][f].derive = build.derive,
                                     ![p][f].tags = derived]
  /\ UNCHANGED <<dbVars, worldVars, cancelled, pc, files, readers, outdated,
                 extracted, fetched, request, pushed, status, flawed>>

\* No metadata, or Derive returns an error: the file is left out of this run.
SkipDerive(p) ==
  /\ pc[p] = "derive"
  /\ \E f \in work[p] :
       /\ work' = [work EXCEPT ![p] = @ \ {f}]
       /\ IF fetched[p][f] = None THEN UNCHANGED faults ELSE ~cancelled[p] /\ Fault
  /\ Blame(p)
  /\ UNCHANGED <<dbVars, outside, cancelled, pc, files, readers, outdated,
                 extracted, fetched, candidates, request, pushed, pending, status>>

\* Derive returns an error under a done context: the stage returns at once.
AbandonDerive(p) ==
  /\ pc[p] = "derive"
  /\ cancelled[p]
  /\ \E f \in work[p] : fetched[p][f] # None
  /\ Fail(p)
  /\ UNCHANGED <<dbVars, worldVars, memory, cancelled, flawed>>

\* Tags are saved before any of them is pushed.
SaveDerived(p) ==
  /\ pc[p] = "derive"
  /\ work[p] = {}
  /\ \/ Save(p) /\ UNCHANGED <<faults, status>> /\ Goto(p, "unpushed")
     \/ SaveFails(p) /\ Fail(p) /\ UNCHANGED pending
  /\ UNCHANGED <<outside, cancelled, files, work, readers, outdated, extracted,
                 fetched, candidates, request, pushed, flawed>>

-----------------------------------------------------------------------------
\* Diff and push.

\* Mutant: what an earlier run failed to push is not looked for.
NotDerivedIgnored(p) == {f \in files[p] : FALSE}

NotDerived(p) == {f \in files[p] : candidates[p][f] = None}

\* UnpushedTags: stored tags that never reached Hydrus are candidates too.
ReadUnpushed(p) ==
  /\ pc[p] = "unpushed"
  /\ candidates' = [candidates EXCEPT ![p] =
       [f \in File |->
          IF f \in NotDerived(p) /\ tags[f] \notin {Empty, None, ledger[f]}
          THEN tags[f] ELSE @[f]]]
  /\ Goto(p, "ledger")
  /\ UNCHANGED <<dbVars, worldVars, cancelled, files, work, readers, outdated,
                 extracted, fetched, request, pushed, pending, status,
                 flawed>>

Candidates(p) == {f \in File : candidates[p][f] # None}

\* Mutant: the ledger is not consulted.
NeedingAll(p) == {f \in Candidates(p) : candidates[p][f] # Empty}

\* What is empty or already in the ledger needs no push.
Needing(p) == {f \in Candidates(p) : candidates[p][f] \notin {Empty, ledger[f]}}

\* PushedHashes, and the diff.
ReadLedger(p) ==
  /\ pc[p] = "ledger"
  /\ work' = [work EXCEPT ![p] = IF p \in DryRun THEN {} ELSE Needing(p)]
  /\ Goto(p, IF p \in DryRun \/ Needing(p) = {} THEN "final" ELSE "service")
  /\ UNCHANGED <<dbVars, worldVars, cancelled, files, readers, outdated, extracted,
                 fetched, candidates, request, pushed, pending, status, flawed>>

ResolveService(p) ==
  /\ pc[p] = "service"
  /\ Goto(p, "push")
  /\ UNCHANGED <<dbVars, worldVars, memory, cancelled, status, flawed>>

\* One AddTags request: files of one group, all with the same tag set.
Requests(p) ==
  UNION {Batches({f \in work[p] : candidates[p][f] = t}, PushBatch) : t \in TagSet}

\* The tag sets of each file, with those a request asks for.
With(had, asked) == [f \in File |-> had[f] \cup ({asked[f]} \ {None})]

Asked(p) == {f \in File : request[p][f] # None}

\* AddTags is called: from here on Hydrus may apply the request at any time.
Send(p) ==
  /\ pc[p] = "push"
  /\ \E batch \in Requests(p) :
       LET asked == [f \in File |-> IF f \in batch THEN candidates[p][f] ELSE None] IN
       /\ request' = [request EXCEPT ![p] = asked]
       /\ sent' = With(sent, asked)
  /\ Goto(p, "request")
  /\ UNCHANGED <<dbVars, hydrus, library, meta, build, faults, cancelled, files, work,
                 readers, outdated, extracted, fetched, candidates, pushed, pending,
                 status, flawed>>

\* AddTags returns nil: Hydrus has answered, and applied the request by then.
PushAccepted(p) ==
  /\ pc[p] = "request"
  /\ hydrus' = With(hydrus, request[p])
  /\ work' = [work EXCEPT ![p] = @ \ Asked(p)]
  /\ pushed' = [pushed EXCEPT ![p] = @ \cup Asked(p)]
  /\ pending' = [pending EXCEPT ![p] =
       [f \in File |-> IF f \in Asked(p) THEN [@[f] EXCEPT !.pushed = request[p][f]]
                       ELSE @[f]]]
  /\ request' = [request EXCEPT ![p] = NoRequest]
  /\ Goto(p, "savepush")
  /\ UNCHANGED <<dbVars, sent, library, meta, build, faults, cancelled, files, readers,
                 outdated, extracted, fetched, candidates, status, flawed>>

\* AddTags returns an error, its retries used up: whether Hydrus has applied the
\* request, or will, is not known.
PushFails(p) ==
  /\ pc[p] = "request"
  /\ IF cancelled[p]
     THEN Fail(p) /\ UNCHANGED <<work, flawed>>
     ELSE /\ work' = [work EXCEPT ![p] = @ \ Asked(p)]
          /\ Blame(p)
          /\ Goto(p, IF work[p] = Asked(p) THEN "final" ELSE "push")
          /\ UNCHANGED status
  /\ request' = [request EXCEPT ![p] = NoRequest]
  /\ CallFault(p)
  /\ UNCHANGED <<dbVars, outside, cancelled, files, readers, outdated, extracted,
                 fetched, candidates, pushed, pending>>

\* The ledger learns of a push before the next one is made.
SavePush(p) ==
  /\ pc[p] = "savepush"
  /\ \/ Save(p) /\ UNCHANGED <<faults, status>>
                /\ Goto(p, IF work[p] = {} THEN "final" ELSE "push")
     \/ SaveFails(p) /\ Fail(p) /\ UNCHANGED pending
  /\ UNCHANGED <<outside, cancelled, files, work, readers, outdated, extracted,
                 fetched, candidates, request, pushed, flawed>>

\* A call that ends the run when it fails: to Hydrus, or a read of the cache.
StageFails(p) ==
  /\ \/ pc[p] \in {"discover", "resolve", "identify", "states", "fetch", "service"}
     \/ pc[p] = "upsert" /\ Discovered(p) # {}
     \/ pc[p] = "unpushed" /\ NotDerived(p) # {}
     \/ pc[p] = "ledger" /\ Candidates(p) # {}
  /\ CallFault(p)
  /\ Fail(p)
  /\ UNCHANGED <<dbVars, outside, memory, cancelled, flawed>>

-----------------------------------------------------------------------------
\* The end of a run.

\* The process's memory is gone, unsaved outcomes with it.
Forget(p) ==
  /\ Goto(p, "idle")
  /\ cancelled' = [cancelled EXCEPT ![p] = FALSE]
  /\ files' = [files EXCEPT ![p] = {}]
  /\ work' = [work EXCEPT ![p] = {}]
  /\ chunk' = [chunk EXCEPT ![p] = {}]
  /\ reading' = [reading EXCEPT ![p] = {}]
  /\ free' = [free EXCEPT ![p] = Concurrency]
  /\ outdated' = [outdated EXCEPT ![p] = {}]
  /\ extracted' = [extracted EXCEPT ![p] = {}]
  /\ fetched' = [fetched EXCEPT ![p] = [f \in File |-> None]]
  /\ candidates' = [candidates EXCEPT ![p] = [f \in File |-> None]]
  /\ request' = [request EXCEPT ![p] = NoRequest]
  /\ pushed' = [pushed EXCEPT ![p] = {}]
  /\ pending' = [pending EXCEPT ![p] = NothingPending]

\* runTagger's last save, made however the stages ended.
Finish(p) ==
  /\ pc[p] = "final"
  /\ \/ /\ Save(p)
        /\ UNCHANGED faults
        /\ status' = [status EXCEPT ![p] = IF @ = "running" THEN "completed" ELSE @]
     \/ /\ SaveFails(p)
        /\ status' = [status EXCEPT ![p] = "failed"]
  /\ Forget(p)
  /\ UNCHANGED <<outside, flawed>>

\* Ctrl+C: the context is done from here on.
Cancel(p) ==
  /\ pc[p] # "idle"
  /\ ~cancelled[p]
  /\ Fault
  /\ cancelled' = [cancelled EXCEPT ![p] = TRUE]
  /\ UNCHANGED <<dbVars, outside, memory, pc, status, flawed>>

\* A second Ctrl+C, a crash: nothing more is saved.  Transactions are atomic; a
\* request on its way stays so.
Kill(p) ==
  /\ pc[p] # "idle"
  /\ Fault
  /\ status' = [status EXCEPT ![p] = "killed"]
  /\ Forget(p)
  /\ UNCHANGED <<dbVars, outside, flawed>>

-----------------------------------------------------------------------------
\* The world.

\* Hydrus adds a tag set it was asked for: while the caller waits, or long after it
\* gave up, whatever became of the file's tags meanwhile.
Handle ==
  /\ \E f \in File : \E t \in sent[f] \ hydrus[f] :
       hydrus' = [hydrus EXCEPT ![f] = @ \cup {t}]
  /\ UNCHANGED <<dbVars, sent, library, meta, build, faults, procVars>>

\* A file comes to match the query, or a file's metadata changes in Hydrus (a known
\* URL is added, say).
LibraryChanges ==
  /\ \/ \E f \in File \ library : library' = library \cup {f} /\ UNCHANGED meta
     \/ \E f \in File : /\ meta[f] < MaxRevision
                        /\ meta' = [meta EXCEPT ![f] = @ + 1] /\ UNCHANGED library
  /\ UNCHANGED <<dbVars, sent, hydrus, build, faults, procVars>>

\* A new binary is installed, while no process runs.
Upgrade ==
  /\ \A p \in Proc : pc[p] = "idle"
  /\ \/ build.extract < MaxExtractVersion /\ build' = [build EXCEPT !.extract = @ + 1]
     \/ build.derive < MaxDeriveVersion /\ build' = [build EXCEPT !.derive = @ + 1]
  /\ UNCHANGED <<dbVars, sent, hydrus, library, meta, faults, procVars>>

-----------------------------------------------------------------------------
\* The steps of a running process, its failures included.
Step(p) ==
  \/ Start(p) \/ Discover(p) \/ Resolve(p) \/ Identify(p) \/ Upsert(p) \/ ReadStates(p)
  \/ NextChunk(p) \/ BeginRead(p) \/ ReadSucceeds(p) \/ ReadFails(p) \/ SaveChunk(p)
  \/ PlanDerive(p) \/ Fetch(p) \/ Derive(p) \/ SkipDerive(p) \/ AbandonDerive(p)
  \/ SaveDerived(p) \/ ReadUnpushed(p) \/ ReadLedger(p) \/ ResolveService(p)
  \/ Send(p) \/ PushAccepted(p) \/ PushFails(p) \/ SavePush(p) \/ StageFails(p)
  \/ Finish(p)

Next ==
  \/ \E p \in Proc : Step(p) \/ Cancel(p) \/ Kill(p)
  \/ Handle \/ LibraryChanges \/ Upgrade

Spec == Init /\ [][Next]_vars

\* Every call returns (the client gives each request a timeout, SQLite a busy
\* timeout), and the tagger is run again and again, as a scheduled task is.
FairSpec == Spec /\ \A p \in Proc : WF_vars(Step(p))

-----------------------------------------------------------------------------
(***************************************************************************)
(* Properties.                                                             *)
(***************************************************************************)

\* The ledger never claims a push Hydrus did not get: a tag set recorded as
\* pushed (host.go's push, state.go's Record) was applied to that very file.
\* A false entry would be permanent, the diff in push skipping the file forever.
LedgerTruthful == \A f \in File : ledger[f] # None => ledger[f] \in hydrus[f]

\* A version recorded in tagger_file_state is backed by what it stands for: an
\* extract version by the artifact Extract cached before, a derive version by a
\* tagger_tags row.  The gates of extract and derive rely on it to skip work.
VersionsBacked ==
  \A f \in File : /\ state[f].extract <= chunks[f]
                  /\ state[f].derive > 0 => tags[f] # None

\* Record merges: whatever order outcomes are saved in, by whichever process, no
\* version goes back and no row disappears (COALESCE, ON CONFLICT in state.go).
NothingForgotten ==
  [][\A f \in File : /\ state'[f].extract >= state[f].extract
                     /\ state'[f].derive >= state[f].derive
                     /\ (tags[f] # None => tags'[f] # None)
                     /\ (ledger[f] # None => ledger'[f] # None)]_vars

\* The inductive strengthening of the two invariants above: outcomes not saved yet
\* are backed the same way and carry the versions of the installed binary, which
\* no stored version exceeds; an idle process has none.
OutcomesBacked ==
  \A p \in Proc : \A f \in File :
    LET o == pending[p][f] IN
    /\ o.pushed # None => o.pushed \in hydrus[f]
    /\ o.extract # None => o.extract = build.extract /\ chunks[f] = build.extract
    /\ o.derive # None => o.derive = build.derive /\ o.tags # None
VersionsCurrent ==
  \A f \in File : /\ state[f].extract <= build.extract
                  /\ state[f].derive <= build.derive
                  /\ chunks[f] <= build.extract
IdleHasNothing == \A p \in Proc : pc[p] = "idle" => pending[p] = NothingPending
Backed == /\ LedgerTruthful /\ VersionsBacked
          /\ OutcomesBacked /\ VersionsCurrent /\ IdleHasNothing

\* Until a run is over, each thing it did is stored or pending, so that saving
\* once more loses nothing ("a failed save is retried by the final flush instead
\* of being lost", host.go's flush).  For one process at a time.
ProgressKept ==
  \A p \in Proc \ DryRun : \A f \in File :
    /\ f \in extracted[p] => build.extract \in {state[f].extract, pending[p][f].extract}
    /\ candidates[p][f] # None => candidates[p][f] \in {tags[f], pending[p][f].tags}
    /\ f \in pushed[p] => candidates[p][f] \in {ledger[f], pending[p][f].pushed}

\* A tag set is only ever sent to Hydrus once it is stored for the file, and only
\* while the ledger holds another (derive saves "before pushing"; push diffs
\* against PushedHashes).  For one process at a time.
SentIsStoredAndNew ==
  \A p \in Proc : pc[p] \in {"push", "request"} =>
    \A f \in work[p] : tags[f] = candidates[p][f] /\ ledger[f] # candidates[p][f]

\* p's run ends with nothing to report: completed, no failure, no warning.
EndsClean(p) == pc[p] # "idle" /\ pc'[p] = "idle" /\ status'[p] = "completed" /\ ~flawed[p]

\* After a clean run every known file has derived tags, and those that are not
\* empty are in the ledger: no failure of an earlier run is left behind, which is
\* what UnpushedTags is for.  For one process at a time.
Delivers(p) == EndsClean(p) =>
  \A f \in files[p] : tags'[f] # None /\ tags'[f] \in {Empty, ledger'[f]}
CleanRunDelivers == [][\A p \in Proc \ DryRun : Delivers(p)]_vars

\* After a clean run the stored tags of every known file are those the installed
\* binary derives from the cached artifact, and from the metadata fetched in this
\* run where the tagger re-derives every time.  For one process at a time.
IsCurrent(p) == EndsClean(p) =>
  \A f \in files[p] : \E m \in Revision :
    /\ fetched[p][f] = m \/ (~Rederive /\ fetched[p][f] = None)
    /\ tags'[f] = TagsOf(f, build.derive, chunks[f], m)
CleanRunIsCurrent == [][\A p \in Proc \ DryRun : IsCurrent(p)]_vars

\* A dry run changes neither the run state, nor the tags, nor the ledger, and sends
\* nothing to Hydrus, whatever it runs into (RunOptions.DryRun; flush and push).
DryRunIsDry ==
  [][\A p \in DryRun : (pc'[p] # pc[p] \/ work'[p] # work[p] \/ reading'[p] # reading[p]) =>
       UNCHANGED <<state, tags, ledger, sent, hydrus>>]_vars

\* Every run ends: no stage waits for something that does not come.
RunsEnd == \A p \in Proc : pc[p] # "idle" ~> pc[p] = "idle"

\* The cache's tags, the requests, Hydrus and the push ledger behave as TagLedger
\* promises: what is requested was stored first, what Hydrus adds, however late, was
\* requested, what the ledger says was added, and a tag set that
\* stays stored reaches Hydrus and the ledger once failures stop ("otherwise a
\* failed push would be permanent", host.go's stages).  For one process at a time.
Promise == INSTANCE TagLedger WITH wanted <- tags, requested <- sent,
                                   delivered <- hydrus, acknowledged <- ledger
KeepsPromise == Promise!FairSpec

\* Once failures stop, running the tagger again and again brings every file that
\* matches to its tags, and the tags to Hydrus.  For one process at a time.
Converges ==
  <>[](\A f \in library :
         /\ tags[f] = TagsOf(f, build.derive, chunks[f], meta[f])
         /\ tags[f] \in {Empty, ledger[f]})

=============================================================================
