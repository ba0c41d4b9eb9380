---------------------------- MODULE FileIdentity -----------------------------
(***************************************************************************)
(* Which file is meant.  Hydrus knows a file by an id of its own database, *)
(* tags are pushed to its hash, and the cache (store/state.go) keys every  *)
(* row by the id.  The configuration names one Hydrus client and one tag   *)
(* service; both may be changed between runs, and the cache knows neither. *)
(*                                                                         *)
(* A run is coarser here than in TaggerRun, a stage being mostly a step;   *)
(* a tag set stands for the file whose bytes or metadata it was derived    *)
(* from, so that a file tagged with what belongs to another can be seen.   *)
(***************************************************************************)
EXTENDS Naturals, FiniteSets

CONSTANTS
  Proc,        \* processes running the tool with the one configuration
  Tagger,      \* taggers on the cache
  Extracting,  \* those that derive from bytes they cached; others from metadata
  Client,      \* Hydrus databases
  Service,     \* local tag services
  Id, Hash,    \* file ids (numbers) and file hashes
  HashOf,      \* each client's hash for each of its ids
  Empty,       \* the empty tag set
  None,        \* no row, no metadata
  MaxTargets,  \* bound: pairs of client and service that runs are started with
  MaxFaults    \* bound: failures and kills

ASSUME TaggerAssumption == Extracting \subseteq Tagger
ASSUME NonEmptyAssumption == Tagger # {} /\ Client # {} /\ Service # {}
ASSUME HashAssumption ==
  /\ HashOf \in [Client -> [Id -> Hash]]
  /\ \A c \in Client : \A i, j \in Id : HashOf[c][i] = HashOf[c][j] => i = j
ASSUME NoneAssumption == Empty # None /\ {Empty, None} \cap Hash = {}
ASSUME BoundAssumption == {MaxTargets, MaxFaults} \subseteq Nat

VARIABLES
  \* The cache.
  files,     \* files table: the hash recorded for each id
  artifact,  \* itxt_chunks: the file whose chunks the rows of each id are
  read,      \* ids with a current extract version
  derived,   \* per tagger, ids with a current derive version
  tags,      \* tagger_tags: per tagger, the file an id's tags were derived from
  ledger,    \* pushes: likewise, of the tags last pushed
  \* The world.
  client, service,  \* what the configuration names
  library,   \* per client, the ids its search returns
  given,     \* per client and service: <<hash, file, tagger>>, a tagger's tags of file
             \* given to hash
  used,      \* the clients and services runs were started with
  faults,
  \* Each process's memory.
  pc, tagger,
  known,     \* resolveFiles' result: the hash of each id, None when left out
  wanted,    \* ids the search returned that the cache did not know
  fetched,   \* metadata: the file it is of
  fresh,     \* ids extracted in this run
  candidates \* what is to be pushed

dbVars    == <<files, artifact, read, derived, tags, ledger>>
worldVars == <<client, service, library, given, used, faults>>
memory    == <<tagger, known, wanted, fetched, fresh, candidates>>
vars      == <<dbVars, worldVars, pc, memory>>

Source == Hash \cup {Empty, None}
Nothing == [i \in Id |-> None]

TypeOK ==
  /\ files \in [Id -> Hash \cup {None}]
  /\ artifact \in [Id -> Hash \cup {None}]
  /\ read \subseteq Id
  /\ derived \in [Tagger -> SUBSET Id]
  /\ tags \in [Tagger -> [Id -> Source]]
  /\ ledger \in [Tagger -> [Id -> Source]]
  /\ client \in Client /\ service \in Service
  /\ library \in [Client -> SUBSET Id]
  /\ given \in [Client \X Service -> SUBSET (Hash \X Source \X Tagger)]
  /\ used \subseteq Client \X Service
  /\ faults \in 0..MaxFaults
  /\ pc \in [Proc -> {"idle", "identify", "upsert", "extract", "derive", "diff", "push"}]
  /\ tagger \in [Proc -> Tagger]
  /\ known \in [Proc -> [Id -> Hash \cup {None}]]
  /\ wanted \in [Proc -> SUBSET Id]
  /\ fetched \in [Proc -> [Id -> Hash \cup {None}]]
  /\ fresh \in [Proc -> SUBSET Id]
  /\ candidates \in [Proc -> [Id -> Source]]

Init ==
  /\ files = Nothing /\ artifact = Nothing /\ read = {}
  /\ derived = [t \in Tagger |-> {}]
  /\ tags = [t \in Tagger |-> Nothing]
  /\ ledger = [t \in Tagger |-> Nothing]
  /\ client = CHOOSE c \in Client : TRUE
  /\ service = CHOOSE s \in Service : TRUE
  /\ library = [c \in Client |-> {}]
  /\ given = [target \in Client \X Service |-> {}]
  /\ used = {} /\ faults = 0
  /\ pc = [p \in Proc |-> "idle"]
  /\ tagger = [p \in Proc |-> CHOOSE t \in Tagger : TRUE]
  /\ known = [p \in Proc |-> Nothing]
  /\ wanted = [p \in Proc |-> {}]
  /\ fetched = [p \in Proc |-> Nothing]
  /\ fresh = [p \in Proc |-> {}]
  /\ candidates = [p \in Proc |-> Nothing]

-----------------------------------------------------------------------------
Fault == faults < MaxFaults /\ faults' = faults + 1

\* Every answer asked for, or a fault.
AnswerTo(asked, answered) == IF answered = asked THEN UNCHANGED faults ELSE Fault

Goto(p, stage) == pc' = [pc EXCEPT ![p] = stage]
Known(p) == {i \in Id : known[p][i] # None}

\* The run is over, well or not; what it did not save is gone.
Forget(p) ==
  /\ Goto(p, "idle")
  /\ tagger' = [tagger EXCEPT ![p] = CHOOSE t \in Tagger : TRUE]
  /\ known' = [known EXCEPT ![p] = Nothing]
  /\ wanted' = [wanted EXCEPT ![p] = {}]
  /\ fetched' = [fetched EXCEPT ![p] = Nothing]
  /\ fresh' = [fresh EXCEPT ![p] = {}]
  /\ candidates' = [candidates EXCEPT ![p] = Nothing]

-----------------------------------------------------------------------------
\* The search, and the ids whose identity the cache has (FileRefs).
Start(p) ==
  /\ pc[p] = "idle"
  /\ \E t \in Tagger : tagger' = [tagger EXCEPT ![p] = t]
  /\ known' = [known EXCEPT ![p] =
                 [i \in Id |-> IF i \in library[client] THEN files[i] ELSE None]]
  /\ wanted' = [wanted EXCEPT ![p] = {i \in library[client] : files[i] = None}]
  /\ used' = used \cup {<<client, service>>}
  /\ Cardinality(used') <= MaxTargets
  /\ Goto(p, IF \E i \in library[client] : files[i] = None THEN "identify" ELSE "extract")
  /\ UNCHANGED <<dbVars, client, service, library, given, faults, fetched, fresh,
                 candidates>>

\* Mutant: the rows of a reply are matched to the ids asked for by their position.
FetchByPosition(p, answered) ==
  LET asked == {i \in Id : i \in answered \/ (i \in wanted[p] /\ fetched[p][i] = None)}
      place(S, i) == Cardinality({j \in S : j < i})
      row(i) == {j \in answered : place(answered, j) = place(asked, i)} IN
  fetched' = [fetched EXCEPT ![p] =
    [i \in Id |-> IF i \in asked /\ row(i) # {}
                  THEN HashOf[client][CHOOSE j \in row(i) : TRUE] ELSE @[i]]]

\* Metadata of the ids in answered, each row telling which id it is of.
FetchInto(p, answered) ==
  fetched' = [fetched EXCEPT ![p] =
                [i \in Id |-> IF i \in answered THEN HashOf[client][i] ELSE @[i]]]

\* Only ids the cache does not know are asked for.
Identify(p) ==
  /\ pc[p] = "identify"
  /\ \E answered \in SUBSET wanted[p] :
       AnswerTo(wanted[p], answered) /\ FetchInto(p, answered)
  /\ Goto(p, "upsert")
  /\ UNCHANGED <<dbVars, client, service, library, given, used, tagger, known, wanted,
                 fresh, candidates>>

\* A hash already recorded under a different id.
Foreign(i, hash) == \E j \in Id \ {i} : files[j] = hash

\* Mutant: what is refused is left out silently, the rest recorded.
UpsertSkipping(p) ==
  LET found == {i \in wanted[p] : fetched[p][i] # None} IN
  /\ pc[p] = "upsert"
  /\ files' = [i \in Id |->
       IF i \in found /\ files[i] = None /\ ~Foreign(i, fetched[p][i])
       THEN fetched[p][i] ELSE files[i]]
  /\ known' = [known EXCEPT ![p] = [i \in Id |-> IF i \in found THEN fetched[p][i] ELSE @[i]]]
  /\ Goto(p, "extract")
  /\ UNCHANGED <<artifact, read, derived, tags, ledger, worldVars, tagger, wanted,
                 fetched, fresh, candidates>>

\* UpsertFileRefs, one transaction: a foreign hash refuses the batch and ends the
\* run; a row that is there by now stays as it is.
Upsert(p) ==
  LET found == {i \in wanted[p] : fetched[p][i] # None} IN
  /\ pc[p] = "upsert"
  /\ IF \E i \in found : Foreign(i, fetched[p][i])
     THEN Forget(p) /\ UNCHANGED files
     ELSE /\ files' = [i \in Id |-> IF i \in found /\ files[i] = None
                                    THEN fetched[p][i] ELSE files[i]]
          /\ known' = [known EXCEPT ![p] =
                         [i \in Id |-> IF i \in found THEN fetched[p][i] ELSE @[i]]]
          /\ Goto(p, "extract")
          /\ UNCHANGED <<tagger, wanted, fetched, fresh, candidates>>
  /\ UNCHANGED <<artifact, read, derived, tags, ledger, worldVars>>

\* The files found under the client's data directory, by their hash.
Held == {HashOf[client][i] : i \in library[client]}

\* Mutant: the path is made from live metadata.
ReadByMetadata(p, i) == HashOf[client][i]

\* The path is made from the hash resolveFiles gave.
ReadBy(p, i) == known[p][i]

\* An extracting tagger reads the file; what it cannot find or read is left for
\* the next run.
Extract(p) ==
  LET stale    == IF tagger[p] \in Extracting THEN Known(p) \ read ELSE {}
      readable == {i \in stale : ReadBy(p, i) \in Held} IN
  /\ pc[p] = "extract"
  /\ \E got \in SUBSET readable :
       /\ AnswerTo(readable, got)
       /\ artifact' = [i \in Id |-> IF i \in got THEN ReadBy(p, i) ELSE artifact[i]]
       /\ read' = read \cup got
       /\ fresh' = [fresh EXCEPT ![p] = got]
  /\ Goto(p, "derive")
  /\ UNCHANGED <<files, derived, tags, ledger, client, service, library, given, used,
                 tagger, known, wanted, fetched, candidates>>

\* The file a tagger's tags for id i are about.
TagsFor(p, i, metadata) ==
  IF tagger[p] \notin Extracting THEN metadata
  ELSE IF artifact[i] = None THEN Empty ELSE artifact[i]

\* Metadata for what is to be derived, the tags, and their save.
Derive(p) ==
  LET todo == {i \in Known(p) : \/ tagger[p] \notin Extracting
                                \/ i \in fresh[p]
                                \/ i \notin derived[tagger[p]]}
      asked == {i \in todo : fetched[p][i] = None} IN
  /\ pc[p] = "derive"
  /\ \E answered \in SUBSET asked :
       LET done == (todo \ asked) \cup answered
           new  == [i \in Id |-> IF i \in done THEN TagsFor(p, i, fetched'[p][i]) ELSE None]
       IN
       /\ AnswerTo(asked, answered)
       /\ FetchInto(p, answered)
       /\ tags' = [tags EXCEPT ![tagger[p]] =
                     [i \in Id |-> IF i \in done THEN new[i] ELSE @[i]]]
       /\ derived' = [derived EXCEPT ![tagger[p]] = @ \cup done]
       /\ candidates' = [candidates EXCEPT ![p] = new]
  /\ Goto(p, "diff")
  /\ UNCHANGED <<files, artifact, read, ledger, client, service, library, given, used,
                 tagger, known, wanted, fresh>>

\* Mutant: tags an earlier run stored and failed to push are not looked for.
DerivedOnly(p, i) == candidates[p][i]

\* What was derived now, or was stored before (UnpushedTags).
ToPush(p, i) ==
  IF candidates[p][i] = None /\ i \in Known(p) THEN tags[tagger[p]][i] ELSE candidates[p][i]

\* PushedHashes, by tagger and id alone.
Diff(p) ==
  /\ pc[p] = "diff"
  /\ candidates' = [candidates EXCEPT ![p] =
       [i \in Id |-> IF ToPush(p, i) \in {Empty, ledger[tagger[p]][i]} THEN None
                     ELSE ToPush(p, i)]]
  /\ Goto(p, "push")
  /\ UNCHANGED <<dbVars, worldVars, tagger, known, wanted, fetched, fresh>>

\* Hydrus gives what is to be pushed for id i to its hash, in the configured service.
Given(p, i) ==
  given' = [given EXCEPT ![<<client, service>>] =
              @ \cup {<<known[p][i], candidates[p][i], tagger[p]>>}]

\* Mutant: the ledger is told although the push failed.
PushTrusting(p) ==
  /\ pc[p] = "push"
  /\ \E i \in Id :
       /\ candidates[p][i] # None
       /\ candidates' = [candidates EXCEPT ![p][i] = None]
       /\ \/ Given(p, i) /\ UNCHANGED faults
          \/ Fault /\ UNCHANGED given
       /\ ledger' = [ledger EXCEPT ![tagger[p]][i] = candidates[p][i]]
  /\ UNCHANGED <<files, artifact, read, derived, tags, client, service, library, used,
                 pc, tagger, known, wanted, fetched, fresh>>

\* AddTags to the resolved hash and, when it succeeds, the ledger.  When it fails,
\* Hydrus may have applied it all the same.
Push(p) ==
  /\ pc[p] = "push"
  /\ \E i \in Id :
       /\ candidates[p][i] # None
       /\ candidates' = [candidates EXCEPT ![p][i] = None]
       /\ \/ /\ Given(p, i)
             /\ ledger' = [ledger EXCEPT ![tagger[p]][i] = candidates[p][i]]
             /\ UNCHANGED faults
          \/ /\ Fault
             /\ Given(p, i) \/ UNCHANGED given
             /\ UNCHANGED ledger
  /\ UNCHANGED <<files, artifact, read, derived, tags, client, service, library, used,
                 pc, tagger, known, wanted, fetched, fresh>>

Finish(p) ==
  /\ pc[p] = "push"
  /\ candidates[p] = Nothing
  /\ Forget(p)
  /\ UNCHANGED <<dbVars, worldVars>>

\* A stage fails, or the process is stopped: the next run starts from the cache.
Stop(p) ==
  /\ pc[p] # "idle"
  /\ Fault
  /\ Forget(p)
  /\ UNCHANGED <<dbVars, client, service, library, given, used>>

-----------------------------------------------------------------------------
\* The configuration file is edited, while nothing runs.
Configure ==
  /\ \A p \in Proc : pc[p] = "idle"
  /\ client' \in Client /\ service' \in Service
  /\ UNCHANGED <<dbVars, library, given, used, faults, pc, memory>>

Import ==
  /\ \E c \in Client : \E i \in Id \ library[c] : library' = [library EXCEPT ![c] = @ \cup {i}]
  /\ UNCHANGED <<dbVars, client, service, given, used, faults, pc, memory>>

Step(p) ==
  \/ Start(p) \/ Identify(p) \/ Upsert(p) \/ Extract(p) \/ Derive(p) \/ Diff(p)
  \/ Push(p) \/ Finish(p)

Next == (\E p \in Proc : Step(p) \/ Stop(p)) \/ Configure \/ Import

Spec == Init /\ [][Next]_vars

\* Calls return and the tool is run again and again; each tagger in turn.
Fairness ==
  \A p \in Proc : /\ WF_vars(Step(p))
                  /\ \A t \in Tagger : SF_vars(Start(p) /\ tagger'[p] = t)
FairSpec == Spec /\ Fairness

-----------------------------------------------------------------------------
(***************************************************************************)
(* Properties.                                                             *)
(***************************************************************************)

Clients == {target[1] : target \in used}

\* As long as one Hydrus database is used, whichever services, by any number of
\* processes: the cache's identities are Hydrus's own, and no file is given the
\* tags of another (resolveFiles takes known ids from the cache unasked).
OneHydrusIsRight ==
  \A c \in Client : Clients \subseteq {c} =>
    /\ \A i \in Id : files[i] \in {None, HashOf[c][i]}
    /\ \A s \in Service : \A gift \in given[<<c, s>>] : gift[2] \in {Empty, gift[1]}

\* Whatever databases the cache is used with, a run goes by the identities that
\* are on record, and no hash is on record twice: what is foreign is refused
\* "rather than absorbed" (UpsertFileRefs), with all that came with it.
RunsGoByTheRecord ==
  /\ \A i, j \in Id : files[i] = files[j] /\ files[i] # None => i = j
  /\ \A p \in Proc : \A i \in Known(p) : known[p][i] = files[i]

\* Whatever databases the cache is used with, the artifact cached for an id is of
\* the file on record for it, so that an extracting tagger never gives a file the
\* tags of another (Extract goes by the hash, Derive by the id).
ArtifactsAreOwn == \A i \in Id : artifact[i] \in {None, files[i]}

\* The ledger says that a tag set was given to the file on record, but not where:
\* some client and some service it was used with has it (pushes has no column for
\* either).
LedgerKnowsNotWhere ==
  \A t \in Tagger, i \in Id : ledger[t][i] # None =>
    \E target \in used : <<files[i], ledger[t][i], t>> \in given[target]

\* The configured service has the tags of each file the search matches.
Arrived ==
  \A t \in Tagger : \A i \in library[client] :
    LET source == IF t \in Extracting /\ artifact[i] = None THEN Empty ELSE HashOf[client][i]
    IN  /\ tags[t][i] = source
        /\ source # Empty => <<HashOf[client][i], source, t>> \in given[<<client, service>>]

\* With one client and one service ever used, the tags of every matching file come
\* to be in that service once failures stop.  With a second one they need not: the
\* ledger takes what the first was given for pushed.
OneServiceArrives == <>[](used = {<<client, service>>}) => <>[]Arrived

=============================================================================
