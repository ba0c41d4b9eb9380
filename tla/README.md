# hydrus-tagger in TLA+

Specifications of [hydrus-tagger](../src/README.md), the TLC runs that check
them on small instances, and TLAPS proofs of what matters most for every size.
Source paths below are relative to the repository; `host.go` without a path is
`internal/tagging/host.go`.

```
tlc -config TaggerVrchat.cfg MCTaggerVrchat     # one of the runs in PROJECT.json
tlapm TaggerRunProofs.tla                       # one of the eight proof modules
```

`PROJECT.json` lists the runs, the theorems, the lines of code each definition
stands for, the hazards the properties are aimed at, and for each property at
least one plausible bug (the definitions marked *Mutant* in the modules) that breaks it.

## 1. The system

hydrus-tagger is one executable. A scheduled task, or a person, starts `run`;
it looks for files in a Hydrus client, works out tags for them and pushes the
tags back. What it knows from one run to the next is in a SQLite file, the
cache.

| Component | State | Operations | Talks to |
|---|---|---|---|
| run command (`cmd/hydrus-tagger/run.go`, `main.go`), `Host.Run` | flags; service key; results so far | validate, preflight, snapshot for a dry run, open, each tagger in turn, exit code | Hydrus client, store, host; Ctrl+C through a context |
| tagging host, one tagger's run (`host.go`) | files, states, derived tags, *pending* outcomes, a mutex, a semaphore of readers | discover, resolve identity, extract, derive, diff and push; flush after every chunk, after deriving, after every push and at the end | tagger, store, Hydrus client |
| Hydrus client (`internal/hydrus`) | attempt counter, deadline, backoff | search, metadata in batches, services, add tags; retries | Hydrus, over HTTP |
| run state and ledger (`store/state.go`) | `files`, `tagger_file_state`, `tagger_tags`, `pushes` | identity, states, unpushed tags, pushed hashes, `Record` (merging upserts, one transaction) | SQLite, shared by processes |
| schema (`store/schema.go`, `snapshot.go`, `driver.go`) | `user_version`, backups, temporary copies | open, create, adopt, refuse, back up, migrate | SQLite, file system |
| cached chunks (`store/chunks.go`) | iTXt records per file | replace, load | SQLite |
| VRChat tagger (`internal/vrchat`) | versions | Extract: PNG to chunks; Derive: chunks to metadata, the richest of several, to tags | png reader, cached chunks |
| png reader (`internal/png`) | position, 32 KiB buffer | scan chunks, read iTXt, skip | a file |
| Twitter tagger (`internal/twitter`) | namespace | Derive from the known URLs of the live metadata, on every run | – |
| correlate (`internal/correlate`, `cmd/.../correlate.go`) | counters | count, pair, rank, report | Hydrus client |
| status, config, parity dump | – | read-only queries, settings, a dump to compare with | store |
| image_renamer | the output directory | walks, recognises, copies screenshots to normalised names; a separate program | file system |

### What is hard about it

*Interruption.* A run takes long, over a network share, and is meant to be
interrupted: Ctrl+C cancels a context and everything in flight ends early with
errors that must not be mistaken for failures; a second Ctrl+C, or a crash, ends
the process between any two statements. Every failure is meant to be mended by
the next run, from what the database holds. Most properties say just that.

*Two systems without a common transaction.* A push changes Hydrus, then the
ledger. Hydrus may apply a request whose reply is lost or that timed out, or
handle it after a retry of the same. The ledger may lag Hydrus, never lead it.

*Gates.* Work is skipped because of a recorded version (extract, derive) or
hash (push). A gate passed too early hides its file for good.

*Merged outcomes.* Outcomes are collected in memory with only some fields set,
flushed many times, kept after a failed flush and merged field by field.

*Concurrency.* Reader goroutines within a run; and whole processes, as a
scheduled run may meet one started by hand, of another build, on one database.

*The outside changes.* Files come to match, metadata gain URLs, services are
renamed, a new binary with higher versions is installed; the configuration comes
to name another client or service, of which the cache knows nothing.

*Many writers.* Services come in several forms by Hydrus's version, a
screenshot's metadata from four kinds of programs, some of which saved over
others; each combination is to give what any other gives.

## 2. What is correct, and where it is said

| Component | It is correct when | Properties |
|---|---|---|
| tagger's run | the ledger and the versions never claim what is not so, on the disk neither | `Backed`, `DurableBacked` |
| | progress is in the store or pending until it is over; saves lose nothing | `ProgressKept`, `NothingForgotten` |
| | tags are stored before they are sent, and sent only if new | `SentIsStoredAndNew` |
| | a clean run leaves nothing of earlier failures behind | `CleanRunDelivers`, `CleanRunIsCurrent` |
| | tags arrive in the end; runs end; dry runs are dry | `KeepsPromise`, `Converges`, `RunsEnd`, `DryRunIsDry` |
| run state: identity | a file is given its own tags, whichever ids clients have | `OneHydrusIsRight`, `ArtifactsAreOwn` |
| | the record decides which file is meant, and foreign files are refused | `RunsGoByTheRecord` |
| | what the ledger says was given, was, and where one target is used it all arrives there | `LedgerKnowsNotWhere`, `OneServiceArrives` |
| Hydrus request | a verdict is due when it is given, success is true, there always is a verdict | `NoEarlyVerdict`, `KeepsContract` |
| Hydrus services | a clear choice is taken and an unclear one is not, in whatever form the services come | `ClearChoiceIsTaken`, `OnePushTarget` |
| schema | `user_version` tells what ran, each step once; foreign databases without one keep tables and version | `VersionTells`, `LeavesOthersAlone` |
| | before a migration there is a whole copy; databases become current | `StepsHaveBackup`, `GetsCurrent` |
| png reader | a scan has all there is of the file, however it was read | `ReadsAllThereIs` |
| cached chunks | what is cached as read is what the file holds | `CacheIsTheFile` |
| VRChat tagger | the richest chunk is taken, the software of all | `BestIsDerived` |
| | a screenshot has the same tags whichever programs wrote of it | `SceneIsTagged` |
| | people and worlds are tagged by ids that are ids | `IdentityIsRight` |
| run command | preflight comes first; dry runs leave nothing unless their copy cannot be removed | `PreflightFirst`, `DryRunLeavesNoTrace` |
| | one tagger's failure stops no other, and the exit code tells | `OthersStillRun`, `ExitTells` |
| correlate | what is said of pairs is true of the sets of files | `PairedExactly`, `OneToOne`, `SuggestedIsBest`, `ClearCaseIsSuggested` |
| image_renamer | what a walk has passed is copied, but for what closing a copy lost unseen; torn copies need a fault, and later walks mend them | `PassedAreCopied`, `OneTornPerFault`, `Mends` |

All of these but the liveness properties and what VrchatTags decides are theorems
(section 6), as the type invariants of the modules that are proved about are; that of
VrchatTagger says what its variables hold.

## 3. The modules

### TaggerRun, TagLedger, MCTaggerVrchat, MCTaggerTwitter

`TaggerRun` is one tagger's run (`runTagger` and its stages) by any number of
processes `Proc` on one cache. The variables are the cache's tables (`refs`,
`state`, `chunks`, `tags`, `ledger`), the world (`sent`, which is what Hydrus was ever
asked to add, `hydrus`, `library`, `meta`, `build`) and each process's memory, which `Kill` and the end of a run forget.
`pc` names the call the process makes next; between two calls anything else may
happen.

| Code | Actions |
|---|---|
| search; `resolveFiles`; `FileStates` | `Start`, `Discover`, `Resolve`, `Identify`, `Upsert`, `ReadStates` |
| `extract`: chunks, readers, save | `NextChunk`, `BeginRead`, `ReadSucceeds`, `ReadFails`, `SaveChunk` |
| `derive`: gate, metadata, tags, save | `PlanDerive`, `Fetch`, `Derive`, `SkipDerive`, `AbandonDerive`, `SaveDerived` |
| push: `UnpushedTags`, `PushedHashes`, service, requests, saves | `ReadUnpushed`, `ReadLedger`, `ResolveService`, `Send`, `PushAccepted`, `PushFails`, `SavePush` |
| an error returned by a stage; the final flush | `StageFails`, `Finish` |
| Ctrl+C; second Ctrl+C or crash | `Cancel`, `Kill` |
| the outside | `Handle` (Hydrus), `LibraryChanges`, `Upgrade` |

`Save` is `flush` with `Store.Record`: every table in one transaction, fields
that are nil leave what is there. A dry run throws its outcomes away instead.
`ReadSucceeds` is `Extract` returning nil: the artifact is in `chunks`, as
`ReplaceChunks` committed it, while the version is only pending.
`free` counts the slots of the semaphore, which are what a reader takes and gives back
(`GiveBack`) and what `extract` waits for, its look at the context included.

A request has three steps. `Send` puts it in `sent`; `Handle` is Hydrus adding one tag
set of `sent` at any later time, or never: while the call waits, after it failed, after
the process was killed, after the file got other tags; `PushAccepted` is the call
returning nil, by when all of the request is applied; `PushFails` tells nothing of it.
This is what HydrusRequest and its contract allow.

Abstractions: a file's id and hash are one identity; a tag set is a value, and
equality of hashes is equality of sets; what a tagger derives is the constant
`TagsOf` of the file, the derive version, the artifact and the metadata, so the
two MC modules are the two taggers: VRChat's extracts and derives from the
artifact alone, Twitter's derives from metadata on every run (and runs on a
machine that may lose power, TaggerPower). `outdated` keeps,
of the states read at the start, the answer the derive gate takes from them.

`TagLedger` is the promise a user cares about, in four actions: tags are wanted;
requested, only while they are wanted; delivered, once they were requested and however
late; acknowledged, once they are delivered. `KeepsPromise` says that TaggerRun with
`tags`, `sent`, `hydrus` and `ledger` for the four implements it, fairness included.

### TaggerPower

`open` (`store/driver.go`) puts SQLite in WAL mode with `synchronous=NORMAL`: a commit
does not wait for the disk. `durable` is what the tables would be after a power
failure; `Sync` brings it up to the last commit, at any time or never, and
`PowerLoss` ends every process and takes the tables back to it, while Hydrus keeps
what it was given. Commits get lost from the end only, which is what SQLite
promises of WAL, so that `durable` is always some earlier state of the tables as a
whole: `DurableBacked` is the difference it makes that they are saved in the order
of host.go.

### FileIdentity, MCFileIdentity

The one identity that TaggerRun has for a file taken apart: the id, a number
of one Hydrus database, and the hash, which pushes go to. `files` is the table of
that name; `known` the result of `resolveFiles`; `client` and `service` what the
configuration names, which may change whenever nothing runs (`Configure`). A stage is
one step here. A tag set is the file it was derived from, so that tags on the
wrong file can be seen: `TagsFor` is the artifact's file for a tagger that reads
bytes, and the live metadata's for one that does not. `Upsert` is
`UpsertFileRefs` with its refusals: a hash on record under another id ends the
run, an id on record keeps its hash. A push that fails is applied at that step or not at
all: when it is applied matters for TaggerRun's properties and not for these, which ask
whose tags were given and where. Processes that run together are assumed to share one
configuration. Nothing in the code enforces it; with one scheduled task it is so.
In `MCFileIdentity` the two databases have
one file in common, under different ids.

### HydrusRequest, RequestContract

One call of `HTTPClient.do` (`internal/hydrus/client.go`): `attempt`, `reply`
for `attemptOutcome`, `done` for the caller's context. Hydrus (`Handle`) works
on each attempt's request in its own time, long after the client stopped
waiting, too. Statuses are grouped as `isTransientStatus` does. `RequestContract`
is what `TaggerRun` assumes of any call (accepted means applied; failed means that it
may have been applied or may be later), and `KeepsContract` checks that `do` keeps it: the link between the
two models.

### SchemaUpgrade

`ensureSchema`, `adoptOrCreate` and `Snapshot` by several processes of several
builds. `disk` is the database: its kind (as `adoptOrCreate` can tell it from its
tables), `user_version`, and how often each migration ran. `backup` and `tmp`
are the files of each target version; a file being copied belongs to the process
writing it, even after another renamed it. `Ping` is the first connection with
`open`'s pragmas, which put any database in WAL mode (`journal`) before anything is
known of it. A database of another program has any `user_version`; the C# port and the
Python pipeline set none. A negative one is left out. Every call is an action, every call
may fail (`CallFails`), and the process may die at any point (`Crash`). At this
commit `migrations` is empty; `Steps > 0` is the mechanism as a build with
migrations will run it.

### PngReader, ChunkLoader, VrchatTagger, MCVrchatTagger

`PngReader` is `read` over `fileReader`: `at` is the position of the file, and
`buffered` what bufio holds of the bytes before it. A read returns as few bytes
as it likes (`Fill`, `ReadDirect`), and the share may fail it (`ReadError`) or a
seek (`SkipFails`). Bytes of chunks other than iTXt have no content; a payload
is a sequence of symbols of which NUL is one; a chunk knows where it starts; `need`
counts what `readExactly` still waits for. `ReadsAllThereIs` compares a finished scan with the
file as a whole: `Texts`, `ScanResult` and `Layouts` know neither position nor buffer.

`ChunkLoader` holds the operators of `loader.go`, `contenttype.go` and
`sanitize.go`. A text is a document, perhaps wrapped in NULs, byte order marks and
spaces; which kinds of document it is, and what the parser for each is given, the
document says itself.

`VrchatTags` takes it from there: `xmp.go` (`ParseXMP` with its two forms,
`ExtractEmbedded`, `ExtractEditorSoftware`), `lineparser.go`, `normalizer.go`, the part of
`jsonvalue.go` that looks into values, and `tagbuilder.go`. JSON is a tree, an XML
document the entries that matter in document order, a line a sequence of words
and separators. Whether a word is an id, begins like one (`WorldLike`, by which a bare
world is told in a line), is a number or a timestamp is a constant; a
position and a quality give no tag and only have their syntax here; case, what else
words are made of, and the order of the tags are left out.

`VrchatTagger` joins them to the rows of `itxt_chunks`: `Extract`, reading,
`ReplaceChunks` in one transaction, `SaveVersion` (the host's) after it, and
`Derive`. The cache starts empty or with rows and a version that the legacy
pipeline left. `TaggerRun` has all this as one artifact; here is what the artifact
consists of, and `CacheIsTheFile` is why its `ReadSucceeds` may take it for the file's.
`WrittenByVRCX`, `WrittenByVRChat`, `WrittenCompactly`, `Resaved` and `WrittenAsLine` are
the programs that write of a screenshot, and each document tells who wrote it of
what, for `SceneIsTagged` to compare with; the tagger does not look at that. A line may
have a segment that is none at any place, or one of players that gives none: that one
may cost the players (section 5), and the property holds it to costing nothing else.

### RunCommand

`run` of `cmd/hydrus-tagger/run.go` with its deferred removal of the snapshot,
`exitCode`, and the loop of `Host.Run`. A tagger's run is one step with the ways
it can end: completed or failed, pushed or not, its last save lost or not.
`ChangeServices` gives Hydrus other services at any time. `removeDB` ignores the errors
of `os.Remove` (`run.go:178`): while another program `held` the copy, it stays
(`Remains`), and nobody hears of it. The copies that a migration of the snapshot would
make beside it come from the migrations, of which there are none yet.

`ServiceReply` is what it learns of the services: an entry of the reply has a key
of its own, possibly empty, or only the name of the member it is, or neither; services of other
types and repetitions stand among them (`Replies`). `Collected` is what
`collectLocalTagServices` makes of a reply, and `Choices` whether one service fits.

### Correlate

The fetch loop of `runCorrelate`, which may stop at any batch, and `Correlate`:
the counting loop file by file with the four counters, each with the file in which it
first saw a key (which is the order its keys are ranged over in), then the report in one
step (it reads nothing but the counters). `Ranked` has the stable sort as what it
gives: the sequence of the ids in which each ranks before the later ones.
Similarities are exact fractions where the code has float64 quotients, which for small
counts compare alike. The runner-up's limit is a product of float64 (`correlate.go:301`):
when it is hit exactly (`AtTheLimit`), the verdict may fall either way (`Verdicts`), as
with 2/5 against six tenths of 2/3, which the code rejects. The report ranks by
similarities in four decimals (`Rounded`). The properties do not use the counters; they
are stated over the sets of files, as the comment of `Correlate` is.

### ImageRenamer, MCImageRenamer

One walk after another over a directory whose photos come and go. `At` is the
path the walk is at; `Unmatched`, `Refused` and what is neither are what the three
`process...File` functions return; `Open`, `Copy` and `Stamp` are `copyFile` and
`Chtimes`, with `Fail` between any two. `CloseFails` is the one failure the program does
not look at: `copyFile` defers `out.Close()` and drops its error
(`image_renamer.go:263`), so that the walk goes on to stamp a torn copy. `unseen` is a
history variable with the names of these. `copies` holds for each canonical name whose
bytes the copy has, if all, whether it has its time and whether it can be opened
for writing. Digits of a time below the hour are like the hour.

## 4. The runs

Bounds are constants of the configurations and guards of the actions that would
exceed them, never state constraints, which would cut behaviours short under
the liveness properties.

| Run | Instance | Shows |
|---|---|---|
| `tagger_vrchat` | 1 process, 3 files, chunks of 2, pushes of 1 request per file, 1 reader slot, 2 derive versions, 2 faults | progress kept; stored before sent; clean runs deliver; refinement of TagLedger with fairness, Hydrus applying failed requests however late; runs end |
| `tagger_shared` | 2 processes and a dry one, 1 file, 2 derive versions, 1 fault | the inductive invariant, merging and the dry run, with others on the database |
| `tagger_twitter` | 1 process, 2 files, 2 revisions of metadata, 2 faults or power losses, the log synced at any time or never | the disk is backed; clean runs are current; convergence |
| `tagger_lost` | 1 process, 2 files, 2 faults | *violated*: see findings |
| `file_identity` | 1 process, an extracting tagger and one that does not, 2 clients with 2 ids each for 3 files, 2 services, 2 targets used, 1 fault | whose tags a file gets; the record; the ledger across targets; arrival with one target |
| `hydrus_request` | 3 retries, the default | verdicts, contract |
| `schema_upgrade` | 1 process, 3 builds, 2 migrations, 3 faults; a database of each kind, an unknown one with any version | version, backups, foreign databases, convergence |
| `vrchat_tagger` | 1 file: every cut of 4 layouts, every payload of up to 6 bytes; signature and header of 2 bytes, checksum of 1, buffer of 3, payloads up to 9. Legacy caches of up to 3 rows of 5 kinds, and of one row with any document that any of the writers makes of several screenshots, or with any mixture of 4 XMP elements, each absent, empty, proper or not | reading, caching, contest, tags, identity |
| `run_command` | 2 taggers, 2 services, 2 names, replies of up to 3 entries | all of the command's properties |
| `run_unsaved` | the same | *violated*: see findings |
| `correlate` | 3 ids, 2 names, at most 3 files, the default similarity, a runner-up ratio of 3/4, minimum overlap 2 | pairing, ranking |
| `image_renamer` | 8 photos, 2 faults, those in closing a copy included | what is passed is copied, torn copies, mending |

Why these are enough. Files interact only through batches, the semaphore and
groups of equal tags: with three files, chunks of two and one slot a chunk is
left over, a file waits for the slot another has (and would for ever, were it not given
back), a batch can be partly done when something fails, and a push is split. Readers side
by side are in `tagger_lost`, and in the proofs with any number of slots.
`tagger_twitter` is of a tagger that extracts nothing, so that of `DurableBacked` the half
about artifacts is shown by its proof and not by this run.
Two faults allow a failure and its mending failing, or a kill, or a power loss
after either. With one file two
processes meet at every statement: the cache is read and written row by row and
no property relates two rows. Two derive versions and one extract version give
every order of stale and current that the gates can tell apart; the extract gate
compares exactly as the derive gate does, and the proofs cover the rest. One
revision of metadata makes the tags of a file change once, after any stage.
Two ids and three files are a file only one client has, for each, and one that
both have under different ids, which is all that `UpsertFileRefs` tells apart; two
targets are a change of client, of service or of both. With
three builds an older one follows a newer one and a migration stops half-way.
The buffer of three bytes is longer than a header and shorter than most payloads,
so that reads come from it and past it, and skips end within, at and beyond it
and the file; five bytes are the shortest record, six give each of its parts a
byte to spare, of which the layouts have the longest, of just the permitted length.
Three rows are a best, a loser and a tie. The screenshots have names that are
blank, plain or hold a comma, no, one or two players, and tools
that are and are not Adobe's; a malformed segment, or one of players without any, stands at
every place of a line.
Three entries of a reply are both services and one repeated, or one of another type.
Three ids tie for a name or share all files; three files leave room for
similarities of one third, one half and two thirds, on either side of both
thresholds, and exactly at them: the ratio is not the default's six tenths because three
quarters of two thirds is one half, while six tenths are hit by larger sets only. Of the eight photos two share a name, one copy cannot be opened again
and three are refused for three reasons. For all that is proved (section 6) no
bound matters.

`tagger_shared` and `tagger_lost` use symmetry over files and over real
processes: no definition tells them apart, `TagsOf` included, and neither run
checks liveness. Runs with `CHECK_DEADLOCK FALSE` are of things that stop: a
request, a command, a report. The taggers, the schema and the walks go on for
ever and are checked for deadlock.

### Fairness

* `TaggerRun`: weak fairness of each process's steps, failures included. Each
  request has a deadline and a bounded number of retries (HydrusRequest's
  liveness), so that `PushAccepted` or `PushFails` follows `Send`, SQLite a busy timeout, a file read an end; and `Start` is a step
  because the task is scheduled. Ctrl+C, kills and the outside are never forced,
  `Handle` included: a delivery is due only when a call is accepted.
  Convergence is under finitely many faults, which `MaxFaults` states.
* `TaggerPower`: the same, and nothing is assumed of `Sync`: the log may stay off
  the disk until the power fails.
* `FileIdentity`: weak fairness of each process's steps, and strong fairness of the
  start of each tagger, as every run of the tool runs all of them in turn, though a
  start is not possible while another tagger runs.
* `ImageRenamer`: weak fairness of the walk's steps: file operations return, and
  the program is started again. `Mends` asks in its formula that in the end no
  photo is there that a walk refuses.
* `HydrusRequest`: weak fairness of `do`'s own steps, as each attempt has a
  deadline and each backoff a timer. Nothing is assumed of Hydrus or the caller.
* `SchemaUpgrade`: weak fairness of each process: each call returns and the
  program is started again. `GetsCurrent` moreover assumes, in its formula, that
  a build is started again and again.

Runs that check safety only use the specifications without fairness.

### What holds for one process only

`ProgressKept`, `SentIsStoredAndNew`, `CleanRunDelivers`, `CleanRunIsCurrent`,
`KeepsPromise` and `Converges` are about one process at a time, and the runs say
so by `Proc`. With two, a run may push tags the other has just replaced, and a
process with older metadata may overwrite newer tags (until the next run). What
survives two processes is `Backed`, `NothingForgotten`, `DryRunIsDry`. Likewise
`VersionTells`, `StepsHaveBackup` and `GetsCurrent`: the version is read before the step's
transaction, so two processes that migrate at once may both run a step, and two
may go on taking each other's snapshot from under the temporary name, for both
clear it first. No document promises otherwise, so these are limits and no
findings.

## 5. Findings

* `tagger_lost`: that a file must be derived again because its artifact is new
  is known only in memory (`extracted`, host.go:458). A file first derived
  without an artifact (its read failed) is at the current derive version. If
  the next run reads it, saves the extract version and stops before its tags are
  saved, both gates are passed: no later run derives it, and clean runs complete
  with tags that are not those of the cached chunks, until a derive version
  moves. The same holds when the extract version moves alone.
* `run_unsaved`: a cancelled run whose last save fails still ends as "cancelled;
  progress so far was saved", for `Host.Run` returns the context's error whatever
  the tagger's result holds (`host.go:155`).

The code differs from what is written of it also here, where the models follow the code
and no run is made of the difference alone:

* A database of another program that has a `user_version` is not refused: the tables are
  looked at only when it is 0 (`schema.go:42`), so that such a one is taken for this
  tool's, migrated, or refused as newer. `LeavesOthersAlone` is about those without.
* `schema.go:128` refuses a database of another program with "refusing to modify it",
  but opening it has switched it to WAL by then (`driver.go:70`): its
  header has changed (`Ping`).
* `lineparser.go:66` says that each field parser leaves the metadata untouched when its
  field is malformed. A `players` segment without a sound entry replaces the players of
  an earlier one by none (`:149`). `SceneIsTagged` allows for that and no more.
* `run.go:174` says that `removeDB` deletes a throwaway database and everything beside
  it. A file that cannot be removed stays, and nothing is said (`:178`, `:182`).

Not findings, as no document says otherwise or nothing can come of them yet, but
worth knowing:

* The pre-migration backup is named after the target only (`schema.go:59`). Once
  two or more migrations are pending, an attempt that runs the first and fails is
  followed by one that puts the half-migrated database in the place of the copy
  from before. There are no migrations yet.
* With another Hydrus client on the same cache, ids the cache knows are used with
  the first client's hashes. Taggers that read bytes stay right (`ArtifactsAreOwn`); one
  that derives from metadata gives a file's tags to another file, until a new file
  happens to be one the cache has and the run is refused.
* After a change of service what the old one was given is not given to the new one.
* image_renamer drops the error of closing a copy (`image_renamer.go:263`): what the file
  system loses that late leaves a torn copy with a time, in a walk that succeeds. A later
  walk writes it again.
* It truncates a good copy before it writes it again, cannot open its own
  copy of a read-only photo, and stops for good at a photo whose date never was.

## 6. What is proved

The proofs are for every value of the constants that satisfies the named
assumptions of the modules (`IsFiniteSet(File)`, batch sizes at least one, `TagsOf`
in `TagSet`, no tagger listed twice, and the like; no bound on faults, versions or processes but that
there is one).

**TaggerRunProofs**, for any number of processes. `TypeCorrect`, then `BackedAlways`:
`Backed` is inductive.
`LedgerTruthful` and `VersionsBacked` are not inductive by themselves, for a save
makes ledger and versions from what was pending: `OutcomesBacked` says that
pending outcomes are backed in the same way, by any process; `VersionsCurrent`
that nothing stored exceeds the installed binary, without which `ReplaceChunks`
by an older build could take an artifact from under its version; and
`IdleHasNothing` that a process not running has nothing pending, so that an
upgrade, which happens only when all are idle, leaves no outcome of the older
build to be saved. The steps that write no row (`QuietStep`) are dealt with
once, the four that save with `SaveBacked`. `LedgerIsTruthful`,
`VersionsAreBacked` and `ForgetsNothing` follow. Upgrading while a process runs
is thereby excluded, as an assumption of the model: on Windows, which the tool is
for, a running executable cannot be replaced. `MemoryFits` says what a process can
remember at each of its stages (`Fits`), which the rest needs; `DryRunsAreDry`.

*Of one process at a time* (`Proc = {p}`, in the theorems and not in the model; with
two it is not so, section 4):

* `ProgressIsKept`: `ProgressKept` is inductive with `Fits` and `Backed` beside it. An
  upgrade would break it, were anything remembered then; a save does not, as what is
  pending of a file's tags is its candidate.
* `SentOnceStored`, from `Due`: from the diff until the last push, what is left to send
  is stored, not in the ledger, and nothing pending will change that. The property
  itself speaks of the push stage alone and does not survive the steps before it.
* `PromiseIsKept`: every step is one of TagLedger's or leaves `tags`, `sent`, `hydrus`
  and `ledger` alone. What `Send` asks for is `Due`, so it is wanted when it is requested;
  what Hydrus adds was requested, by `Handle`'s guard, and for an accepted call by
  `Posted`: what a process waits for has been sent. Whatever the file's tags are by then
  plays no part. A save is either of tags or of acknowledgements of the delivered, never
  of both (`Fits`).
* `CleanRunsDeliver`, from `Clean`: how far a run without failures has got with each
  of its files, stage by stage, from "outdated or with tags" to "in the ledger".
  Batches, readers and split pushes are in it as what is left of `work`.
* `CleanRunsAreCurrent`, from `Current`, for a tagger that derives again on every run
  (`Rederive`, a constant of the model and `RederiveEveryRun` in the code). The
  hypothesis is needed: without it the finding `tagger_lost` is the counterexample.

*With power losses.* `DiskIsBacked` is proved beside `Backed`, over the same lemmas: a
step of TaggerRun leaves the disk alone, and Hydrus and the binary's versions only grow
(`WorldGrows`), so that what is on the disk stays backed; `Sync` copies backed tables; a
power loss makes the tables what the disk holds and leaves no process with anything
pending. As it leaves no process running either, what is proved of one process at a
time holds with it (`BackedInSpiteOfPower`, `CleanRunsDeliverInSpiteOfPower`,
`CleanRunsAreCurrentInSpiteOfPower`).

**HydrusRequestProofs.** `IInv` adds to the types what `do` keeps about its
attempts: the current one has a reply exactly from `decide` on, earlier ones a
retryable reply, later ones were never sent. From it `VerdictsAreDue`,
`RetriesAreDue`, `SuccessIsTrue`, and `RefinesContract`: each step maps to one of
RequestContract or a stutter, for any number of retries.

**FileIdentityProofs.** `Inv` joins the record (`known` is what `files` has, no hash is
there twice), the artifacts (of the file on record), what is fetched and to be
pushed (of the client it was asked of, which cannot change while a process runs)
and the ledger. All of it is for any number of processes, clients and services,
where the run has one process: two runs that discover the same file insert the
same hash, as they use the same client, and this is the case that matters
(`Upsert` with a row that is there by now).

**SchemaUpgradeProofs.** `OthersAreLeftAlone`, of foreign databases without a version,
for any number of processes, from `Untouched`: no process gets beyond the tables of one, as
only `Create` and `Adopt` change a kind or set a first version. `VersionAlwaysTells` and
`VersionNeverGoesBack` for at most one process, from `Known`: past
`ensureSchema`'s checks the version in memory is the version on disk, which is
what two processes can break. `StepsAlwaysHaveBackup`, for one process too, adds
`Copies`: no file under a backup's name is partial; the temporary file of a snapshot
under way is the process's own, of the database as it is now, and whole before it is
renamed; and at each step the target's backup is there. That it is of a version the
steps start from, and not later than the database, is what survives a failed attempt
whose next one replaces the copy (section 5).

**RunCommandProofs.** `IInv` joins three parts to the properties themselves:
`Staged` (until preflight is over nothing has been done, and from then on there is
a key), `Told` (each tagger the loop has passed has the result due to it, those
to come have none, and an unsaved tagger is a failed one) and `OneService`. A
tagger listed twice could fail, be unsaved and complete the second time, so the
assumption that none is (`IdAssumption`) is needed. `DryRunsLeaveNoTrace` says of the copy
that it is left behind only if it was `held` when it was to be removed. From `IInv` follow
`PreflightComesFirst`, `DryRunsLeaveNoTrace`, `ExitCodeTells`,
`OthersRunAllTheSame` and, with a step of their own, `OneTarget` and
`ClearChoicesAreTaken`, for replies of any length and form.

**ImageRenamerProofs.** `PassedAreAlwaysCopied` and `TornOnesCostFaults`, for any
photos. `WalkInv` says where a walk is: each photo it has passed has its copy, shares its
name with the photo in hand, whose copy is truncated and not stamped yet, or is
one that closing lost (`unseen`).
That the walk is at a photo at all (`AtIsLeft`) takes that of any photos one is the
first. `TornInv` counts: the step that truncates adds one torn copy while it is in
hand (`Owing`), `Stamp` takes it away, and a walk that is stopped in between, or whose copy is
lost in closing, pays with a fault.

**VrchatTaggerProofs**, for files, payloads, buffers and limits of any size.
`AllThereIsIsRead` rests on `Reading`: where the scan is in terms of the file. With the
header of chunk n + 1 (or data of chunk n) in hand, the position before the buffered
bytes plus what is still needed is where that header (or data) ends, whatever the reads
returned so far (`Fill`, `ReadDirect`, `Copy`); the chunks passed are those before; the records are
those of the iTXt chunks among them, in order. `Needs` says that only a skip can pass the
file's end, which is how a file that is cut off within a skipped chunk ends well and one
that is cut off within a wanted one does not. `ParsedRight` is that `ParseRecord`, which
looks for NULs one after the other, finds what the layout of a payload says. What the
induction over the chunks needs (a file's first chunk that is not passed) comes from
`LeastNumber`, the well-foundedness of the numbers in a form without operator
parameters. `TheCacheIsTheFile` adds `Cached`: between reading and the version the rows
are the file's.

**CorrelateProofs**, for any ids, names, options and number of files. `Tally`: each
counter is the cardinality of the set of files counted so far that it is of. So once all
are counted, equal counts mean equal sets (`FS_Subset`), which is `PairsAreExact`. The
other three are about choices: `BestId`, `Top` and `RunnerUp` choose by similarity, then
overlap, then order of appearance, and say something only if there is a best.
`CrossMultiplied` and `BeatsIsOrder` (comparing fractions by cross-multiplication is
transitive) and `FirstExists` (a strict order on finitely many has a first) give it.
With `SuggestionsAreBest`, `ClearCasesAreSuggested` and `AlwaysOneToOne`, which counts
where each id went, the comment of `Correlate` holds as it is there, for similarities
that are compared exactly. `ClearCasesAreSuggested` takes a clear case to be one within
the ratio strictly: at the limit the code's products round either way (`OverTheLimit`,
`LessIsStrict`), and the theorem claims nothing.

### What is only model-checked

* Liveness, which rests on fairness and ENABLED: `RunsEnd`, `Converges`, `GetsCurrent`,
  `OneServiceArrives`, `Mends`, and that of `KeepsPromise` and `KeepsContract`, whose
  safety parts are `PromiseIsKept` and `RefinesContract`.
* `BestIsDerived`, `SceneIsTagged`, `IdentityIsRight`: they are about what the
  operators of ChunkLoader and VrchatTags, most of them folds over chunks, entries or
  words, compute of a document. That is induction over data.

## 7. What is not modelled, and why

* Characters: the syntax of XML (`xmldom.go`), JSON, numbers (`numparse.go`) and
  timestamps (`datetime.go`), regular expressions, upper and lower case, the repair of
  text that is not UTF-8 (`png/decode.go`), URLs of tweets (`twitter/url.go`). All are
  pure functions on text with table-driven tests; what they decide is a constant
  or a choice of the models. Reading a PNG from streams that are no files.
* JSON of Hydrus's responses and the form of search terms; the endpoints' batching
  is in TaggerRun, the services in ServiceReply.
* The hash over a tag set, which joins tags with newlines: a tag with a newline would
  be taken for two, which matters only if a file's tags change from the one to the two.
* Warnings, counts, log lines, output formats; status, config, parity dump: they
  change nothing. That a result has failures or warnings is kept (`flawed`).
  The status command's counts are not of one moment.
* Two processes at once in `FileIdentity`, `SchemaUpgrade` and the power loss runs:
  beyond these instances' state spaces; the proofs cover any number but for
  `VersionTells` and `StepsHaveBackup` (section 4).

## 8. Plan

Done, in this order because of what each protects: TaggerRun with TagLedger and
its proofs (what users lose when it is wrong), HydrusRequest with its contract
(what TaggerRun rests on), SchemaUpgrade (what everything rests on), RunCommand,
Correlate, VrchatTagger with PngReader and ChunkLoader; then what the first plan had
left: FileIdentity, power loss, the services as Hydrus lists them, the VRChat
parsers and tag builder, image_renamer.

Every safety invariant and action property of the runs but the three about VrchatTags is
proved. Proofs to come: `BestIsDerived`, with `Load`'s loop as a function of how many chunks
it has seen, whose existence and invariant follow from `LeastNumber` as the scan's do; and
of the other two what needs no induction over documents.
