--------------------------- MODULE TaggerRunProofs ---------------------------
(***************************************************************************)
(* Theorems about TaggerRun, for any files, batch sizes and failures.      *)
(* First the tables, and then what processes remember, for any number of   *)
(* processes; then, with one process at a time on the database, that       *)
(* nothing it did gets lost, what it sends is stored and new, a clean run  *)
(* delivers every file's tags, and cache, ledger and Hydrus keep the       *)
(* promise of TagLedger; and last all that with power losses.              *)
(***************************************************************************)
EXTENDS TaggerPower, TLAPS

USE DEF outside, readers

\* Coalesce never leaves the range of what it is given.
LEMMA CoalesceType ==
  ASSUME NEW S, NEW new \in S \cup {None}, NEW old \in S \cup {None}
  PROVE  /\ Coalesce(new, old) \in S \cup {None}
         /\ old \in S => Coalesce(new, old) \in S
BY DEF Coalesce

\* Saving keeps the tables it writes, and the pending outcomes, well typed.
LEMMA SaveType ==
  ASSUME TypeOK, NEW p \in Proc, Save(p)
  PROVE  /\ state' \in [File -> Versions]
         /\ tags' \in [File -> Stored]
         /\ ledger' \in [File -> Stored]
         /\ pending' \in [Proc -> [File -> Outcome]]
         /\ UNCHANGED <<refs, chunks>>
<1>1. pending[p] \in [File -> Outcome]
  BY DEF TypeOK
<1>2. ASSUME NEW f \in File
      PROVE  /\ Coalesce(pending[p][f].extract, state[f].extract) \in 0..MaxExtractVersion
             /\ Coalesce(pending[p][f].derive, state[f].derive) \in 0..MaxDeriveVersion
             /\ Coalesce(pending[p][f].tags, tags[f]) \in Stored
             /\ Coalesce(pending[p][f].pushed, ledger[f]) \in Stored
  BY <1>1, BoundAssumption
     DEF TypeOK, Coalesce, Outcome, Versions, ExtractVersion, DeriveVersion, Stored
<1>3. /\ state' \in [File -> Versions]
      /\ tags' \in [File -> Stored]
      /\ ledger' \in [File -> Stored]
  BY <1>2 DEF Save, Record, RecordState, RecordTags, RecordPush, TypeOK, Versions
<1>4. pending' \in [Proc -> [File -> Outcome]]
  BY DEF Save, TypeOK, NothingPending, NoOutcome, Outcome, Stored
<1>5. UNCHANGED <<refs, chunks>>
  BY DEF Save
<1>. QED  BY <1>3, <1>4, <1>5

\* The parts of TypeOK a stage that only moves on, or only fails, can disturb.
LEMMA MoveType ==
  ASSUME TypeOK, NEW p \in Proc
  PROVE  /\ \A stage \in Stage : Goto(p, stage) => pc' \in [Proc -> Stage]
         /\ Fault => faults' \in 0..MaxFaults
         /\ CallFault(p) => faults' \in 0..MaxFaults
         /\ Blame(p) => flawed' \in [Proc -> BOOLEAN]
         /\ Fail(p) => /\ pc' \in [Proc -> Stage]
                       /\ status' \in [Proc -> {"none", "running", "completed",
                                                "failed", "killed"}]
<1>1. MaxFaults \in Nat
  BY BoundAssumption
<1>2. Fault => faults' \in 0..MaxFaults
  BY <1>1 DEF Fault, TypeOK
<1>3. CallFault(p) => faults' \in 0..MaxFaults
  BY <1>2 DEF CallFault, TypeOK
<1>4. \A stage \in Stage : Goto(p, stage) => pc' \in [Proc -> Stage]
  BY DEF TypeOK, Goto
<1>5. Blame(p) => flawed' \in [Proc -> BOOLEAN]
  BY DEF TypeOK, Blame
<1>6. Fail(p) => status' \in [Proc -> {"none", "running", "completed", "failed", "killed"}]
  BY DEF TypeOK, Fail
<1>. QED  BY <1>2, <1>3, <1>4, <1>5, <1>6 DEF Fail, Stage

\* Files grouped in batches (Batches, run.derive) are sets of files.
LEMMA BatchType ==
  ASSUME NEW S, NEW n, NEW b \in Batches(S, n)
  PROVE  b \subseteq S /\ b # {}
BY DEF Batches

\* Setting fields of an outcome to values of theirs gives an outcome.
LEMMA OutcomeType ==
  ASSUME NEW o \in Outcome
  PROVE  /\ \A v \in ExtractVersion : [o EXCEPT !.extract = v] \in Outcome
         /\ \A v \in DeriveVersion, t \in Stored :
              [o EXCEPT !.derive = v, !.tags = t] \in Outcome
         /\ \A t \in TagSet : [o EXCEPT !.pushed = t] \in Outcome
BY DEF Outcome, Stored

\* Asking Hydrus for metadata keeps the types, answered or not.
LEMMA AskType ==
  ASSUME TypeOK, NEW p \in Proc, NEW batch, NEW answered \in SUBSET File,
         Ask(p, batch, answered)
  PROVE  /\ fetched' \in [Proc -> [File -> Revision \cup {None}]]
         /\ faults' \in 0..MaxFaults
<1>1. [f \in File |-> IF f \in answered THEN meta[f] ELSE fetched[p][f]]
        \in [File -> Revision \cup {None}]
  BY DEF TypeOK
<1>. QED  BY <1>1, MoveType DEF Ask, TypeOK

\* A request holds candidates of p that carry a tag set.
LEMMA RequestType ==
  ASSUME TypeOK, NEW p \in Proc, NEW batch \in Requests(p)
  PROVE  /\ batch \subseteq work[p]
         /\ batch # {}
         /\ \A f \in batch : f \in File /\ candidates[p][f] \in TagSet
<1>1. PICK t \in TagSet : batch \in Batches({f \in work[p] : candidates[p][f] = t}, PushBatch)
  BY DEF Requests
<1>2. batch # {} /\ batch \subseteq {f \in work[p] : candidates[p][f] = t}
  BY <1>1, BatchType
<1>. QED  BY <1>2 DEF TypeOK

\* Adding what a request asks for to sets of tag sets leaves sets of tag sets.
LEMMA WithType ==
  ASSUME NEW had \in [File -> SUBSET TagSet], NEW asked \in [File -> Stored]
  PROVE  /\ With(had, asked) \in [File -> SUBSET TagSet]
         /\ \A f \in File : had[f] \subseteq With(had, asked)[f]
BY DEF With, Stored

\* A process that forgets is left with well-typed, empty memory.
LEMMA ForgetType ==
  ASSUME TypeOK, NEW p \in Proc, Forget(p)
  PROVE  /\ pc' \in [Proc -> Stage]
         /\ cancelled' \in [Proc -> BOOLEAN]
         /\ files' \in [Proc -> SUBSET File]
         /\ work' \in [Proc -> SUBSET File]
         /\ chunk' \in [Proc -> SUBSET File]
         /\ reading' \in [Proc -> SUBSET File]
         /\ free' \in [Proc -> Nat]
         /\ outdated' \in [Proc -> SUBSET File]
         /\ extracted' \in [Proc -> SUBSET File]
         /\ fetched' \in [Proc -> [File -> Revision \cup {None}]]
         /\ candidates' \in [Proc -> [File -> Stored]]
         /\ request' \in [Proc -> [File -> Stored]]
         /\ pushed' \in [Proc -> SUBSET File]
         /\ pending' \in [Proc -> [File -> Outcome]]
<1>1. /\ NothingPending \in [File -> Outcome]
      /\ [f \in File |-> None] \in [File -> Stored]
      /\ [f \in File |-> None] \in [File -> Revision \cup {None}]
  BY DEF NothingPending, NoOutcome, Outcome, Stored
<1>2. "idle" \in Stage /\ Concurrency \in Nat
  BY BoundAssumption DEF Stage
<1>. QED  BY <1>1, <1>2 DEF Forget, Goto, TypeOK, NoRequest

\* Every step keeps every variable in its type.
LEMMA NextType == TypeOK /\ [Next]_vars => TypeOK'
<1> SUFFICES ASSUME TypeOK, [Next]_vars PROVE TypeOK'
  OBVIOUS
<1>1. ASSUME NEW p \in Proc, Step(p) PROVE TypeOK'
  <2>1. CASE Start(p)
    BY <2>1 DEF Start, TypeOK, dbVars, worldVars, memory, Goto, Stage
  <2>2. CASE Discover(p)
    BY <2>2 DEF Discover, TypeOK, dbVars, worldVars, memory, Goto, Stage
  <2>3. CASE Resolve(p)
    BY <2>3 DEF Resolve, TypeOK, dbVars, worldVars, memory, Goto, Stage
  <2>4. CASE Identify(p)
    <3>1. PICK batch \in Batches(work[p], MetadataBatch), answered \in SUBSET work[p] :
            /\ Ask(p, batch, answered)
            /\ work' = [work EXCEPT ![p] = @ \ batch]
            /\ files' = [files EXCEPT ![p] = @ \ (batch \ answered)]
            /\ IF answered = batch THEN UNCHANGED flawed ELSE Blame(p)
            /\ Goto(p, IF work[p] = batch THEN "upsert" ELSE "identify")
      BY <2>4, BatchType DEF Identify
    <3>2. answered \in SUBSET File
      BY DEF TypeOK
    <3>3. /\ fetched' \in [Proc -> [File -> Revision \cup {None}]]
          /\ faults' \in 0..MaxFaults
      BY <3>1, <3>2, AskType
    <3>4. flawed' \in [Proc -> BOOLEAN] /\ pc' \in [Proc -> Stage]
      BY <3>1, MoveType DEF TypeOK, Stage
    <3>. QED  BY <2>4, <3>1, <3>3, <3>4 DEF Identify, TypeOK, dbVars
  <2>5. CASE Upsert(p)
    BY <2>5 DEF Upsert, TypeOK, dbVars, worldVars, memory, Goto, Stage, Discovered
  <2>6. CASE ReadStates(p)
    BY <2>6 DEF ReadStates, TypeOK, dbVars, worldVars, memory, Goto, Stage
  <2>7. CASE NextChunk(p)
    BY <2>7, BatchType, BoundAssumption
       DEF NextChunk, TypeOK, dbVars, worldVars, memory, Goto, Stage
  <2>8. CASE BeginRead(p)
    BY <2>8 DEF BeginRead, TypeOK, dbVars, worldVars, memory
  <2>9. CASE ReadSucceeds(p)
    <3>1. PICK f \in reading[p] :
            /\ reading' = [reading EXCEPT ![p] = @ \ {f}]
            /\ chunks' = [chunks EXCEPT ![f] = build.extract]
            /\ extracted' = [extracted EXCEPT ![p] = @ \cup {f}]
            /\ pending' = [pending EXCEPT ![p][f].extract = build.extract]
      BY <2>9 DEF ReadSucceeds
    <3>2. f \in File /\ build.extract \in ExtractVersion
      BY DEF TypeOK
    <3>3. chunks' \in [File -> 0..MaxExtractVersion]
      BY <3>1, <3>2, BoundAssumption DEF TypeOK, ExtractVersion
    <3>. pending[p][f] \in Outcome
      BY <3>2 DEF TypeOK
    <3>4. [pending[p][f] EXCEPT !.extract = build.extract] \in Outcome
      BY <3>2, OutcomeType
    <3>5. pending' \in [Proc -> [File -> Outcome]]
      BY <3>1, <3>2, <3>4 DEF TypeOK
    <3>6. reading' \in [Proc -> SUBSET File] /\ extracted' \in [Proc -> SUBSET File]
      BY <3>1, <3>2 DEF TypeOK
    <3>7. free' \in [Proc -> Nat]
      BY <2>9 DEF ReadSucceeds, GiveBack, TypeOK
    <3>. QED  BY <2>9, <3>3, <3>5, <3>6, <3>7 DEF ReadSucceeds, TypeOK, worldVars
  <2>10. CASE ReadFails(p)
    BY <2>10, MoveType DEF ReadFails, GiveBack, TypeOK, dbVars, worldVars, memory
  <2>11. CASE SaveChunk(p)
    <3>1. /\ state' \in [File -> Versions]
          /\ tags' \in [File -> Stored]
          /\ ledger' \in [File -> Stored]
          /\ pending' \in [Proc -> [File -> Outcome]]
          /\ UNCHANGED <<refs, chunks>>
          /\ faults' \in 0..MaxFaults
      BY <2>11, SaveType, MoveType DEF SaveChunk, SaveFails, dbVars, TypeOK
    <3>2. /\ pc' \in [Proc -> Stage]
          /\ status' \in [Proc -> {"none", "running", "completed", "failed", "killed"}]
      BY <2>11, MoveType DEF SaveChunk, Stage, TypeOK
    <3>. QED  BY <2>11, <3>1, <3>2 DEF SaveChunk, TypeOK
  <2>12. CASE PlanDerive(p)
    BY <2>12 DEF PlanDerive, TypeOK, dbVars, worldVars, memory, Goto, Stage, FetchOrDerive, Todo
  <2>13. CASE Fetch(p)
    <3>1. PICK batch \in Batches(work[p], MetadataBatch), answered \in SUBSET work[p] :
            Ask(p, batch, answered) /\ FetchOrDerive(p, work[p] \ batch)
      BY <2>13, BatchType DEF Fetch
    <3>2. answered \in SUBSET File
      BY DEF TypeOK
    <3>3. /\ fetched' \in [Proc -> [File -> Revision \cup {None}]]
          /\ faults' \in 0..MaxFaults
      BY <3>1, <3>2, AskType
    <3>4. work' \in [Proc -> SUBSET File] /\ pc' \in [Proc -> Stage]
      BY <3>1 DEF FetchOrDerive, Todo, Goto, TypeOK, Stage
    <3>. QED  BY <2>13, <3>3, <3>4 DEF Fetch, TypeOK, dbVars
  <2>14. CASE Derive(p)
    <3>. DEFINE derived(f) == TagsOf(f, build.derive, chunks[f], fetched[p][f])
    <3>1. PICK f \in work[p] :
            /\ fetched[p][f] # None
            /\ work' = [work EXCEPT ![p] = @ \ {f}]
            /\ candidates' = [candidates EXCEPT ![p][f] = derived(f)]
            /\ pending' = [pending EXCEPT ![p][f].derive = build.derive,
                                          ![p][f].tags = derived(f)]
      BY <2>14 DEF Derive
    <3>2. f \in File /\ build.derive \in DeriveVersion /\ fetched[p][f] \in Revision
      BY <3>1 DEF TypeOK
    <3>3. chunks[f] \in {0} \cup ExtractVersion
      BY <3>2, BoundAssumption DEF TypeOK, ExtractVersion
    <3>4. derived(f) \in Stored
      BY <3>2, <3>3, TagAssumption DEF Stored
    <3>. HIDE DEF derived
    <3>5. candidates' \in [Proc -> [File -> Stored]]
      BY <3>1, <3>2, <3>4 DEF TypeOK
    <3>. pending[p][f] \in Outcome
      BY <3>2 DEF TypeOK
    <3>6. [pending[p][f] EXCEPT !.derive = build.derive, !.tags = derived(f)] \in Outcome
      BY <3>2, <3>4, OutcomeType
    <3>7. pending' = [pending EXCEPT ![p] = [pending[p] EXCEPT ![f] =
                        [pending[p][f] EXCEPT !.derive = build.derive, !.tags = derived(f)]]]
      BY <3>1, <3>2 DEF TypeOK
    <3>8. pending' \in [Proc -> [File -> Outcome]]
      BY <3>2, <3>6, <3>7 DEF TypeOK
    <3>. QED  BY <2>14, <3>1, <3>5, <3>8 DEF Derive, TypeOK, dbVars, worldVars
  <2>15. CASE SkipDerive(p)
    BY <2>15, MoveType DEF SkipDerive, TypeOK, dbVars, worldVars, memory
  <2>16. CASE AbandonDerive(p)
    BY <2>16, MoveType DEF AbandonDerive, TypeOK, dbVars, worldVars, memory
  <2>17. CASE SaveDerived(p)
    <3>1. /\ state' \in [File -> Versions]
          /\ tags' \in [File -> Stored]
          /\ ledger' \in [File -> Stored]
          /\ pending' \in [Proc -> [File -> Outcome]]
          /\ UNCHANGED <<refs, chunks>>
          /\ faults' \in 0..MaxFaults
      BY <2>17, SaveType, MoveType DEF SaveDerived, SaveFails, dbVars, TypeOK
    <3>2. /\ pc' \in [Proc -> Stage]
          /\ status' \in [Proc -> {"none", "running", "completed", "failed", "killed"}]
      BY <2>17, MoveType DEF SaveDerived, Stage, TypeOK
    <3>. QED  BY <2>17, <3>1, <3>2 DEF SaveDerived, TypeOK
  <2>18. CASE ReadUnpushed(p)
    BY <2>18 DEF ReadUnpushed, TypeOK, dbVars, worldVars, memory, Goto, Stage, NotDerived, Stored
  <2>19. CASE ReadLedger(p)
    BY <2>19 DEF ReadLedger, TypeOK, dbVars, worldVars, memory, Goto, Stage, Needing, Candidates
  <2>20. CASE ResolveService(p)
    BY <2>20 DEF ResolveService, TypeOK, dbVars, worldVars, memory, Goto, Stage
  <2>21. CASE PushAccepted(p)
    <3>1. request[p] \in [File -> Stored]
      BY DEF TypeOK
    <3>2. hydrus' \in [File -> SUBSET TagSet]
      BY <2>21, <3>1, WithType DEF PushAccepted, TypeOK
    <3>3. [f \in File |-> IF f \in Asked(p)
             THEN [pending[p][f] EXCEPT !.pushed = request[p][f]]
             ELSE pending[p][f]] \in [File -> Outcome]
      <4>1. \A f \in File : pending[p][f] \in Outcome
        BY DEF TypeOK
      <4>. QED  BY <3>1, <4>1, OutcomeType DEF Asked, Stored
    <3>4. pending' \in [Proc -> [File -> Outcome]]
      BY <2>21, <3>3 DEF PushAccepted, TypeOK
    <3>5. work' \in [Proc -> SUBSET File] /\ pushed' \in [Proc -> SUBSET File]
      BY <2>21 DEF PushAccepted, Asked, TypeOK
    <3>6. request' \in [Proc -> [File -> Stored]] /\ pc' \in [Proc -> Stage]
      BY <2>21 DEF PushAccepted, NoRequest, Stored, Goto, Stage, TypeOK
    <3>. QED  BY <2>21, <3>2, <3>4, <3>5, <3>6 DEF PushAccepted, TypeOK, dbVars
  <2>22. CASE PushFails(p)
    <3>1. /\ pc' \in [Proc -> Stage]
          /\ work' \in [Proc -> SUBSET File]
          /\ flawed' \in [Proc -> BOOLEAN]
          /\ status' \in [Proc -> {"none", "running", "completed", "failed", "killed"}]
      <4>1. CASE cancelled[p]
        BY <2>22, <4>1, MoveType DEF PushFails, TypeOK
      <4>2. CASE ~cancelled[p]
        <5>1. /\ pc' \in [Proc -> Stage]
              /\ work' = [work EXCEPT ![p] = @ \ Asked(p)] /\ UNCHANGED status
          BY <2>22, <4>2 DEF PushFails, TypeOK, Goto, Stage
        <5>2. flawed' \in [Proc -> BOOLEAN]
          BY <2>22, <4>2, MoveType DEF PushFails
        <5>3. work' \in [Proc -> SUBSET File]
          BY <5>1 DEF TypeOK
        <5>. QED  BY <5>1, <5>2, <5>3 DEF TypeOK
      <4>. QED  BY <4>1, <4>2
    <3>2. faults' \in 0..MaxFaults
      BY <2>22, MoveType DEF PushFails
    <3>3. request' \in [Proc -> [File -> Stored]]
      BY <2>22 DEF PushFails, NoRequest, Stored, TypeOK
    <3>. QED  BY <2>22, <3>1, <3>2, <3>3 DEF PushFails, TypeOK, dbVars
  <2>23. CASE SavePush(p)
    <3>1. /\ state' \in [File -> Versions]
          /\ tags' \in [File -> Stored]
          /\ ledger' \in [File -> Stored]
          /\ pending' \in [Proc -> [File -> Outcome]]
          /\ UNCHANGED <<refs, chunks>>
          /\ faults' \in 0..MaxFaults
      BY <2>23, SaveType, MoveType DEF SavePush, SaveFails, dbVars, TypeOK
    <3>2. /\ pc' \in [Proc -> Stage]
          /\ status' \in [Proc -> {"none", "running", "completed", "failed", "killed"}]
      BY <2>23, MoveType DEF SavePush, Stage, TypeOK
    <3>. QED  BY <2>23, <3>1, <3>2 DEF SavePush, TypeOK
  <2>24. CASE StageFails(p)
    BY <2>24, MoveType DEF StageFails, TypeOK, dbVars, worldVars, memory
  <2>25. CASE Finish(p)
    <3>1. /\ state' \in [File -> Versions]
          /\ tags' \in [File -> Stored]
          /\ ledger' \in [File -> Stored]
          /\ UNCHANGED <<refs, chunks>>
          /\ faults' \in 0..MaxFaults
      BY <2>25, SaveType, MoveType DEF Finish, SaveFails, dbVars, TypeOK
    <3>2. status' \in [Proc -> {"none", "running", "completed", "failed", "killed"}]
      BY <2>25 DEF Finish, TypeOK
    <3>3. Forget(p) /\ UNCHANGED <<outside, flawed>>
      BY <2>25 DEF Finish
    <3>. QED  BY <3>1, <3>2, <3>3, ForgetType DEF TypeOK
  <2>26. CASE Send(p)
    <3>. DEFINE asked(batch) == [f \in File |-> IF f \in batch THEN candidates[p][f] ELSE None]
    <3>1. PICK batch \in Requests(p) : /\ request' = [request EXCEPT ![p] = asked(batch)]
                                       /\ sent' = With(sent, asked(batch))
      BY <2>26 DEF Send
    <3>2. asked(batch) \in [File -> Stored]
      BY DEF TypeOK, Stored
    <3>. HIDE DEF asked
    <3>3. sent' \in [File -> SUBSET TagSet] /\ request' \in [Proc -> [File -> Stored]]
      BY <3>1, <3>2, WithType DEF TypeOK
    <3>4. pc' \in [Proc -> Stage]
      BY <2>26 DEF Send, Goto, Stage, TypeOK
    <3>. QED  BY <2>26, <3>3, <3>4 DEF Send, TypeOK, dbVars
  <2>. QED
    BY <1>1, <2>1, <2>2, <2>3, <2>4, <2>5, <2>6, <2>7, <2>8, <2>9, <2>10, <2>11, <2>12,
       <2>13, <2>14, <2>15, <2>16, <2>17, <2>18, <2>19, <2>20, <2>21, <2>22, <2>23, <2>24,
       <2>25, <2>26 DEF Step
<1>2. ASSUME NEW p \in Proc, Cancel(p) PROVE TypeOK'
  BY <1>2, MoveType DEF Cancel, TypeOK, dbVars, memory
<1>3. ASSUME NEW p \in Proc, Kill(p) PROVE TypeOK'
  <2>1. /\ faults' \in 0..MaxFaults
        /\ status' \in [Proc -> {"none", "running", "completed", "failed", "killed"}]
    BY <1>3, MoveType DEF Kill, TypeOK
  <2>2. Forget(p) /\ UNCHANGED <<dbVars, outside, flawed>>
    BY <1>3 DEF Kill
  <2>. QED  BY <2>1, <2>2, ForgetType DEF TypeOK, dbVars
<1>4. CASE LibraryChanges
  <2>1. library' \in SUBSET File
    BY <1>4 DEF LibraryChanges, TypeOK
  <2>2. meta' \in [File -> Revision]
    <3>1. CASE UNCHANGED meta
      BY <3>1 DEF TypeOK
    <3>2. CASE \E f \in File : meta[f] < MaxRevision /\ meta' = [meta EXCEPT ![f] = @ + 1]
      BY <3>2, BoundAssumption DEF TypeOK, Revision
    <3>. QED  BY <1>4, <3>1, <3>2 DEF LibraryChanges
  <2>. QED  BY <1>4, <2>1, <2>2 DEF LibraryChanges, TypeOK, dbVars, procVars
<1>5. CASE Upgrade
  <2>1. build' \in [extract : ExtractVersion, derive : DeriveVersion]
    <3>1. MaxExtractVersion \in Nat /\ MaxDeriveVersion \in Nat
      BY BoundAssumption
    <3>2. CASE /\ build.extract < MaxExtractVersion
               /\ build' = [build EXCEPT !.extract = @ + 1]
      <4>1. build.extract + 1 \in ExtractVersion
        BY <3>1, <3>2 DEF TypeOK, ExtractVersion
      <4>. QED  BY <3>2, <4>1 DEF TypeOK
    <3>3. CASE /\ build.derive < MaxDeriveVersion
               /\ build' = [build EXCEPT !.derive = @ + 1]
      <4>1. build.derive + 1 \in DeriveVersion
        BY <3>1, <3>3 DEF TypeOK, DeriveVersion
      <4>. QED  BY <3>3, <4>1 DEF TypeOK
    <3>. QED  BY <1>5, <3>2, <3>3 DEF Upgrade
  <2>2. UNCHANGED <<dbVars, sent, hydrus, library, meta, faults, procVars>>
    BY <1>5 DEF Upgrade
  <2>. QED  BY <2>1, <2>2 DEF TypeOK, dbVars, procVars
<1>6. CASE Handle
  BY <1>6 DEF Handle, TypeOK, dbVars, procVars
<1>7. CASE UNCHANGED vars
  BY <1>7 DEF TypeOK, vars, dbVars, worldVars, procVars
<1>. QED  BY <1>1, <1>2, <1>3, <1>4, <1>5, <1>6, <1>7 DEF Next

\* The initial states are well typed.
LEMMA InitType == Init => TypeOK
BY BoundAssumption DEF Init, TypeOK, Versions, Stored, Revision, ExtractVersion,
   DeriveVersion, Stage, NothingPending, NoOutcome, NoRequest, Outcome

\* Type correctness.
THEOREM TypeCorrect == Spec => []TypeOK
BY InitType, NextType, PTL DEF Spec

-----------------------------------------------------------------------------
\* Backed speaks of these variables only.
data == <<state, chunks, tags, ledger, hydrus, build, pending>>

\* A step that leaves them alone, and lets no process go idle, keeps Backed.
LEMMA QuietStep ==
  ASSUME Backed, UNCHANGED data, \A q \in Proc : pc'[q] = "idle" => pc[q] = "idle"
  PROVE  Backed'
BY DEF Backed, LedgerTruthful, VersionsBacked, OutcomesBacked, VersionsCurrent,
   IdleHasNothing, data

\* Saving turns backed outcomes into backed rows, and moves no version back.
LEMMA SaveBacked ==
  ASSUME TypeOK, Backed, NEW p \in Proc, Save(p), UNCHANGED <<hydrus, build>>
  PROVE  /\ LedgerTruthful' /\ VersionsBacked' /\ OutcomesBacked' /\ VersionsCurrent'
         /\ \A f \in File : /\ state'[f].extract >= state[f].extract
                            /\ state'[f].derive >= state[f].derive
                            /\ tags[f] # None => tags'[f] # None
                            /\ ledger[f] # None => ledger'[f] # None
         /\ pending' = [pending EXCEPT ![p] = NothingPending]
<1>. UNCHANGED chunks /\ pending' = [pending EXCEPT ![p] = NothingPending]
  BY DEF Save
<1>1. OutcomesBacked'
  BY DEF OutcomesBacked, Backed, NothingPending, NoOutcome, TypeOK
<1>2. ASSUME NEW f \in File
      PROVE  /\ ledger'[f] # None => ledger'[f] \in hydrus[f]
             /\ state'[f].extract <= chunks[f]
             /\ state'[f].derive > 0 => tags'[f] # None
             /\ state'[f].extract <= build.extract
             /\ state'[f].derive <= build.derive
             /\ state'[f].extract >= state[f].extract
             /\ state'[f].derive >= state[f].derive
             /\ tags[f] # None => tags'[f] # None
             /\ ledger[f] # None => ledger'[f] # None
  <2>1. /\ state[f].extract \in Nat /\ state[f].derive \in Nat /\ chunks[f] \in Nat
        /\ build.extract \in Nat /\ build.derive \in Nat
    BY BoundAssumption DEF TypeOK, Versions, ExtractVersion, DeriveVersion
  <2>. /\ ledger[f] # None => ledger[f] \in hydrus[f]
       /\ state[f].extract <= chunks[f]
       /\ state[f].derive > 0 => tags[f] # None
       /\ state[f].extract <= build.extract
       /\ state[f].derive <= build.derive
    <3>1. ledger[f] # None => ledger[f] \in hydrus[f]
      BY DEF Backed, LedgerTruthful
    <3>2. state[f].extract <= chunks[f] /\ (state[f].derive > 0 => tags[f] # None)
      BY DEF Backed, VersionsBacked
    <3>3. state[f].extract <= build.extract /\ state[f].derive <= build.derive
      BY DEF Backed, VersionsCurrent
    <3>. QED  BY <3>1, <3>2, <3>3
  <2>2. CASE p \in DryRun
    BY <2>1, <2>2 DEF Save
  <2>3. CASE p \notin DryRun
    <3>. DEFINE o == pending[p][f]
    <3>1. /\ state'[f] = [extract |-> Coalesce(o.extract, state[f].extract),
                          derive  |-> Coalesce(o.derive, state[f].derive)]
          /\ tags'[f] = Coalesce(o.tags, tags[f])
          /\ ledger'[f] = Coalesce(o.pushed, ledger[f])
      BY <2>3 DEF Save, Record, RecordState, RecordTags, RecordPush
    <3>2. /\ o.pushed # None => o.pushed \in hydrus[f]
          /\ o.extract # None => o.extract = build.extract /\ chunks[f] = build.extract
          /\ o.derive # None => o.derive = build.derive /\ o.tags # None
      BY DEF Backed, OutcomesBacked
    <3>. HIDE DEF o
    <3>. QED  BY <2>1, <3>1, <3>2 DEF Coalesce
  <2>. QED  BY <2>2, <2>3
<1>3. LedgerTruthful' /\ VersionsBacked' /\ VersionsCurrent'
  BY <1>2 DEF LedgerTruthful, VersionsBacked, VersionsCurrent, Backed
<1>. QED  BY <1>1, <1>2, <1>3

\* The steps of a process that neither save anything nor change its outcomes.
Quiet(p) ==
  \/ Start(p) \/ Discover(p) \/ Resolve(p) \/ Identify(p) \/ Upsert(p) \/ ReadStates(p)
  \/ NextChunk(p) \/ BeginRead(p) \/ ReadFails(p) \/ PlanDerive(p) \/ Fetch(p)
  \/ SkipDerive(p) \/ AbandonDerive(p) \/ ReadUnpushed(p) \/ ReadLedger(p)
  \/ ResolveService(p) \/ PushFails(p) \/ StageFails(p)

\* The steps listed in Quiet meet the conditions of QuietStep, and send nothing.
LEMMA QuietIsQuiet ==
  ASSUME TypeOK, NEW p \in Proc, Quiet(p)
  PROVE  UNCHANGED <<data, sent>> /\ \A q \in Proc : pc'[q] = "idle" => pc[q] = "idle"
<1>1. CASE Start(p)
  BY <1>1 DEF Start, TypeOK, data, dbVars, worldVars, memory, Goto
<1>2. CASE Discover(p)
  BY <1>2 DEF Discover, TypeOK, data, dbVars, worldVars, memory, Goto
<1>3. CASE Resolve(p)
  BY <1>3 DEF Resolve, TypeOK, data, dbVars, worldVars, memory, Goto
<1>4. CASE Identify(p)
  BY <1>4 DEF Identify, TypeOK, data, dbVars, worldVars, memory, Goto
<1>5. CASE Upsert(p)
  BY <1>5 DEF Upsert, TypeOK, data, dbVars, worldVars, memory, Goto
<1>6. CASE ReadStates(p)
  BY <1>6 DEF ReadStates, TypeOK, data, dbVars, worldVars, memory, Goto
<1>7. CASE NextChunk(p)
  BY <1>7 DEF NextChunk, TypeOK, data, dbVars, worldVars, memory, Goto
<1>8. CASE BeginRead(p)
  BY <1>8 DEF BeginRead, TypeOK, data, dbVars, worldVars, memory
<1>9. CASE ReadFails(p)
  BY <1>9 DEF ReadFails, TypeOK, data, dbVars, worldVars, memory
<1>10. CASE PlanDerive(p)
  BY <1>10 DEF PlanDerive, TypeOK, data, dbVars, worldVars, memory, Goto, FetchOrDerive
<1>11. CASE Fetch(p)
  BY <1>11 DEF Fetch, TypeOK, data, dbVars, worldVars, memory, Goto, FetchOrDerive
<1>12. CASE SkipDerive(p)
  BY <1>12 DEF SkipDerive, TypeOK, data, dbVars, worldVars, memory
<1>13. CASE AbandonDerive(p)
  BY <1>13 DEF AbandonDerive, TypeOK, data, dbVars, worldVars, memory, Goto, Fail
<1>14. CASE ReadUnpushed(p)
  BY <1>14 DEF ReadUnpushed, TypeOK, data, dbVars, worldVars, memory, Goto
<1>15. CASE ReadLedger(p)
  BY <1>15 DEF ReadLedger, TypeOK, data, dbVars, worldVars, memory, Goto
<1>16. CASE ResolveService(p)
  BY <1>16 DEF ResolveService, TypeOK, data, dbVars, worldVars, memory, Goto
<1>17. CASE StageFails(p)
  BY <1>17 DEF StageFails, TypeOK, data, dbVars, worldVars, memory, Goto, Fail
<1>18. CASE PushFails(p)
  BY <1>18 DEF PushFails, TypeOK, data, dbVars, Goto, Fail
<1>. QED
  BY <1>1, <1>2, <1>3, <1>4, <1>5, <1>6, <1>7, <1>8, <1>9, <1>10, <1>11, <1>12, <1>13,
     <1>14, <1>15, <1>16, <1>17, <1>18 DEF Quiet

\* A save, or a failed one, that leaves the process running.
LEMMA RunningSave ==
  ASSUME TypeOK, Backed, NEW p \in Proc, NEW stage \in Stage \ {"idle"},
         Goto(p, stage), UNCHANGED <<hydrus, build>>,
         Save(p) \/ (SaveFails(p) /\ UNCHANGED pending)
  PROVE  Backed'
<1>1. \A q \in Proc : pc'[q] = "idle" => pc[q] = "idle" /\ q # p
  BY DEF Goto, TypeOK
<1>2. CASE Save(p)
  <2>1. IdleHasNothing'
    BY <1>1, <1>2, SaveBacked DEF Backed, IdleHasNothing, TypeOK
  <2>. QED  BY <1>2, <2>1, SaveBacked DEF Backed
<1>3. CASE SaveFails(p) /\ UNCHANGED pending
  BY <1>1, <1>3, QuietStep DEF SaveFails, data, dbVars
<1>. QED  BY <1>2, <1>3

\* A step of one process that only adds backed entries to its outcomes, and to
\* what they are backed by, keeps Backed.
LEMMA OutcomeStep ==
  ASSUME TypeOK, Backed, NEW p \in Proc,
         UNCHANGED <<state, tags, ledger, build>>,
         \A q \in Proc : pc'[q] = "idle" => pc[q] = "idle" /\ q # p,
         \A f \in File : hydrus[f] \subseteq hydrus'[f],
         \A f \in File : chunks'[f] \in {chunks[f], build.extract},
         \A q \in Proc \ {p} : pending'[q] = pending[q],
         \A f \in File : LET o == pending'[p][f] IN
           /\ o.pushed # None => o.pushed \in hydrus'[f]
           /\ o.extract # None => o.extract = build.extract /\ chunks'[f] = build.extract
           /\ o.derive # None => o.derive = build.derive /\ o.tags # None
  PROVE  Backed'
<1>1. LedgerTruthful'
  BY DEF Backed, LedgerTruthful
<1>2. VersionsBacked' /\ VersionsCurrent'
  <2>. SUFFICES ASSUME NEW f \in File
                PROVE  /\ state[f].extract <= chunks'[f]
                       /\ state[f].derive > 0 => tags[f] # None
                       /\ state[f].extract <= build.extract
                       /\ state[f].derive <= build.derive
                       /\ chunks'[f] <= build.extract
    BY DEF VersionsBacked, VersionsCurrent
  <2>1. build.extract \in Nat
    BY BoundAssumption DEF TypeOK, ExtractVersion
  <2>. QED  BY <2>1 DEF Backed, VersionsBacked, VersionsCurrent
<1>3. OutcomesBacked'
  <2>. SUFFICES ASSUME NEW q \in Proc, NEW f \in File
                PROVE  LET o == pending'[q][f] IN
                       /\ o.pushed # None => o.pushed \in hydrus'[f]
                       /\ o.extract # None => o.extract = build.extract /\ chunks'[f] = build.extract
                       /\ o.derive # None => o.derive = build.derive /\ o.tags # None
    BY DEF OutcomesBacked
  <2>1. CASE q = p
    BY <2>1
  <2>2. CASE q # p
    BY <2>2 DEF Backed, OutcomesBacked
  <2>. QED  BY <2>1, <2>2
<1>4. IdleHasNothing'
  BY DEF Backed, IdleHasNothing
<1>. QED  BY <1>1, <1>2, <1>3, <1>4 DEF Backed

\* Every step keeps Backed.
LEMMA NextBacked == TypeOK /\ Backed /\ [Next]_vars => Backed'
<1> SUFFICES ASSUME TypeOK, Backed, [Next]_vars PROVE Backed'
  OBVIOUS
<1>0. \A q \in Proc, f \in File :
        LET o == pending[q][f] IN
        /\ o.pushed # None => o.pushed \in hydrus[f]
        /\ o.extract # None => o.extract = build.extract /\ chunks[f] = build.extract
        /\ o.derive # None => o.derive = build.derive /\ o.tags # None
  BY DEF Backed, OutcomesBacked
<1>1. ASSUME NEW p \in Proc, Step(p) PROVE Backed'
  <2>1. CASE Quiet(p)
    BY <2>1, QuietIsQuiet, QuietStep
  <2>2. CASE ReadSucceeds(p)
    <3>1. PICK f \in reading[p] :
            /\ chunks' = [chunks EXCEPT ![f] = build.extract]
            /\ pending' = [pending EXCEPT ![p][f].extract = build.extract]
      BY <2>2 DEF ReadSucceeds
    <3>2. /\ UNCHANGED <<state, tags, ledger, build, hydrus, pc>>
          /\ pc[p] # "idle"
      BY <2>2 DEF ReadSucceeds, worldVars
    <3>3. \A g \in File : chunks'[g] \in {chunks[g], build.extract}
      BY <3>1 DEF TypeOK
    <3>4. \A q \in Proc \ {p} : pending'[q] = pending[q]
      BY <3>1 DEF TypeOK
    <3>5. ASSUME NEW g \in File
          PROVE  LET o == pending'[p][g] IN
           /\ o.pushed # None => o.pushed \in hydrus'[g]
           /\ o.extract # None => o.extract = build.extract /\ chunks'[g] = build.extract
           /\ o.derive # None => o.derive = build.derive /\ o.tags # None
      <4>1. pending[p][g] \in Outcome /\ f \in File
        BY DEF TypeOK
      <4>2. pending'[p][g] = IF g = f THEN [pending[p][g] EXCEPT !.extract = build.extract]
                                      ELSE pending[p][g]
        BY <3>1, <4>1 DEF TypeOK
      <4>3. chunks'[g] = IF g = f THEN build.extract ELSE chunks[g]
        BY <3>1, <4>1 DEF TypeOK
      <4>. QED  BY <1>0, <3>2, <4>1, <4>2, <4>3 DEF Outcome
    <3>. QED  BY <3>2, <3>3, <3>4, <3>5, OutcomeStep
  <2>3. CASE Derive(p)
    <3>. DEFINE derived(f) == TagsOf(f, build.derive, chunks[f], fetched[p][f])
    <3>1. PICK f \in work[p] :
            /\ fetched[p][f] # None
            /\ pending' = [pending EXCEPT ![p][f].derive = build.derive,
                                          ![p][f].tags = derived(f)]
      BY <2>3 DEF Derive
    <3>2. /\ UNCHANGED <<state, tags, ledger, build, hydrus, chunks, pc>>
          /\ pc[p] # "idle"
      BY <2>3 DEF Derive, worldVars, dbVars
    <3>3. f \in File /\ fetched[p][f] \in Revision /\ build.derive \in DeriveVersion
      BY <3>1 DEF TypeOK
    <3>4. chunks[f] \in {0} \cup ExtractVersion
      BY <3>3, BoundAssumption DEF TypeOK, ExtractVersion
    <3>5. derived(f) # None
      BY <3>3, <3>4, TagAssumption
    <3>. HIDE DEF derived
    <3>6. \A q \in Proc \ {p} : pending'[q] = pending[q]
      BY <3>1 DEF TypeOK
    <3>7. ASSUME NEW g \in File
          PROVE  LET o == pending'[p][g] IN
           /\ o.pushed # None => o.pushed \in hydrus'[g]
           /\ o.extract # None => o.extract = build.extract /\ chunks'[g] = build.extract
           /\ o.derive # None => o.derive = build.derive /\ o.tags # None
      <4>1. pending[p][g] \in Outcome
        BY DEF TypeOK
      <4>2. pending'[p][g] = IF g = f
              THEN [pending[p][g] EXCEPT !.derive = build.derive, !.tags = derived(f)]
              ELSE pending[p][g]
        BY <3>1, <3>3, <4>1 DEF TypeOK
      <4>. QED  BY <1>0, <3>2, <3>5, <4>1, <4>2 DEF Outcome
    <3>. QED  BY <3>2, <3>6, <3>7, OutcomeStep
  <2>4. CASE PushAccepted(p)
    <3>1. /\ hydrus' = With(hydrus, request[p])
          /\ pending' = [pending EXCEPT ![p] =
               [f \in File |-> IF f \in Asked(p)
                               THEN [@[f] EXCEPT !.pushed = request[p][f]]
                               ELSE @[f]]]
      BY <2>4 DEF PushAccepted
    <3>2. /\ UNCHANGED <<state, tags, ledger, build, chunks>>
          /\ \A q \in Proc : pc'[q] = "idle" => pc[q] = "idle" /\ q # p
      BY <2>4 DEF PushAccepted, dbVars, Goto, TypeOK
    <3>3. \A f \in File : hydrus[f] \subseteq hydrus'[f]
      BY <3>1, WithType DEF TypeOK
    <3>4. \A q \in Proc \ {p} : pending'[q] = pending[q]
      BY <3>1 DEF TypeOK
    <3>5. ASSUME NEW g \in File
          PROVE  LET o == pending'[p][g] IN
           /\ o.pushed # None => o.pushed \in hydrus'[g]
           /\ o.extract # None => o.extract = build.extract /\ chunks'[g] = build.extract
           /\ o.derive # None => o.derive = build.derive /\ o.tags # None
      <4>1. pending[p][g] \in Outcome
        BY DEF TypeOK
      <4>2. pending'[p][g] = IF g \in Asked(p)
              THEN [pending[p][g] EXCEPT !.pushed = request[p][g]] ELSE pending[p][g]
        BY <3>1, <4>1 DEF TypeOK
      <4>3. g \in Asked(p) => request[p][g] \in hydrus'[g]
        BY <3>1 DEF With, Asked
      <4>. QED  BY <1>0, <3>2, <3>3, <4>1, <4>2, <4>3 DEF Outcome
    <3>. QED  BY <3>2, <3>3, <3>4, <3>5, OutcomeStep
  <2>5. CASE Send(p)
    <3>1. UNCHANGED data /\ \A q \in Proc : pc'[q] = "idle" => pc[q] = "idle"
      BY <2>5 DEF Send, data, dbVars, Goto, TypeOK
    <3>. QED  BY <3>1, QuietStep
  <2>6. CASE SaveChunk(p)
    BY <2>6, RunningSave DEF SaveChunk, Fail, Stage
  <2>7. CASE SaveDerived(p)
    BY <2>7, RunningSave DEF SaveDerived, Fail, Stage
  <2>8. CASE SavePush(p)
    BY <2>8, RunningSave DEF SavePush, Fail, Stage
  <2>9. CASE Finish(p)
    <3>1. /\ UNCHANGED <<hydrus, build>>
          /\ pending' = [pending EXCEPT ![p] = NothingPending]
          /\ pc' = [pc EXCEPT ![p] = "idle"]
      BY <2>9 DEF Finish, Forget, Goto
    <3>2. IdleHasNothing'
      BY <3>1 DEF Backed, IdleHasNothing, TypeOK
    <3>3. CASE Save(p)
      BY <3>1, <3>2, <3>3, SaveBacked DEF Backed
    <3>4. CASE SaveFails(p)
      BY <3>1, <3>2, <3>4 DEF SaveFails, dbVars, Backed, LedgerTruthful, VersionsBacked,
         VersionsCurrent, OutcomesBacked, NothingPending, NoOutcome, TypeOK
    <3>. QED  BY <2>9, <3>3, <3>4 DEF Finish
  <2>. QED  BY <1>1, <2>1, <2>2, <2>3, <2>4, <2>5, <2>6, <2>7, <2>8, <2>9 DEF Step, Quiet
<1>2. ASSUME NEW p \in Proc, Cancel(p) PROVE Backed'
  BY <1>2, QuietStep DEF Cancel, data, dbVars, memory
<1>3. ASSUME NEW p \in Proc, Kill(p) PROVE Backed'
  <2>1. /\ UNCHANGED <<state, chunks, tags, ledger, build>>
        /\ pending' = [pending EXCEPT ![p] = NothingPending]
        /\ pc' = [pc EXCEPT ![p] = "idle"]
        /\ UNCHANGED hydrus
    BY <1>3 DEF Kill, Forget, Goto, dbVars
  <2>2. IdleHasNothing'
    BY <2>1 DEF Backed, IdleHasNothing, TypeOK
  <2>3. OutcomesBacked'
    BY <1>0, <2>1 DEF OutcomesBacked, NothingPending, NoOutcome, TypeOK
  <2>4. LedgerTruthful'
    BY <2>1 DEF Backed, LedgerTruthful
  <2>5. VersionsBacked' /\ VersionsCurrent'
    BY <2>1 DEF Backed, VersionsBacked, VersionsCurrent
  <2>. QED  BY <2>2, <2>3, <2>4, <2>5 DEF Backed
<1>4. CASE LibraryChanges \/ UNCHANGED vars
  BY <1>4, QuietStep DEF LibraryChanges, vars, data, dbVars, worldVars, procVars
<1>5. CASE Upgrade
  <2>1. /\ UNCHANGED <<state, chunks, tags, ledger, hydrus, pending, pc>>
        /\ \A q \in Proc : pending[q] = NothingPending
    BY <1>5 DEF Upgrade, dbVars, procVars, Backed, IdleHasNothing
  <2>2. /\ build.extract \in Nat /\ build.derive \in Nat
        /\ \A f \in File : /\ state[f].extract \in Nat /\ state[f].derive \in Nat
                           /\ chunks[f] \in Nat
    BY BoundAssumption DEF TypeOK, Versions, ExtractVersion, DeriveVersion
  <2>3. build'.extract \in {build.extract, build.extract + 1}
        /\ build'.derive \in {build.derive, build.derive + 1}
    BY <1>5 DEF Upgrade, TypeOK
  <2>4. VersionsCurrent'
    BY <2>1, <2>2, <2>3 DEF Backed, VersionsCurrent
  <2>5. OutcomesBacked'
    BY <2>1 DEF OutcomesBacked, NothingPending, NoOutcome
  <2>6. LedgerTruthful' /\ VersionsBacked' /\ IdleHasNothing'
    BY <2>1 DEF Backed, LedgerTruthful, VersionsBacked, IdleHasNothing
  <2>. QED  BY <2>4, <2>5, <2>6 DEF Backed
<1>6. CASE Handle
  <2>1. /\ UNCHANGED <<state, chunks, tags, ledger, build, pending, pc>>
        /\ \A f \in File : hydrus[f] \subseteq hydrus'[f]
    BY <1>6 DEF Handle, dbVars, procVars, TypeOK
  <2>. QED  BY <2>1 DEF Backed, LedgerTruthful, VersionsBacked, OutcomesBacked,
            VersionsCurrent, IdleHasNothing
<1>. QED  BY <1>1, <1>2, <1>3, <1>4, <1>5, <1>6 DEF Next

\* Nothing is recorded initially, so everything recorded is backed.
LEMMA InitBacked == Init => Backed
BY BoundAssumption DEF Init, Backed, LedgerTruthful, VersionsBacked, OutcomesBacked,
   VersionsCurrent, IdleHasNothing, NothingPending, NoOutcome

\* Whatever is saved, in whatever order and by whichever process, no version goes
\* back and no row disappears.
LEMMA NextForgetsNothing ==
  ASSUME TypeOK, Backed, [Next]_vars, NEW f \in File
  PROVE  /\ state'[f].extract >= state[f].extract
         /\ state'[f].derive >= state[f].derive
         /\ tags[f] # None => tags'[f] # None
         /\ ledger[f] # None => ledger'[f] # None
<1>1. state[f].extract \in Nat /\ state[f].derive \in Nat
  BY BoundAssumption DEF TypeOK, Versions
<1>2. CASE UNCHANGED <<state, tags, ledger>>
  BY <1>1, <1>2
<1>3. ASSUME NEW p \in Proc, Save(p), UNCHANGED <<hydrus, build>>
      PROVE  /\ state'[f].extract >= state[f].extract
             /\ state'[f].derive >= state[f].derive
             /\ tags[f] # None => tags'[f] # None
             /\ ledger[f] # None => ledger'[f] # None
  BY <1>3, SaveBacked
<1>4. ASSUME NEW p \in Proc, Step(p)
      PROVE  \/ UNCHANGED <<state, tags, ledger>>
             \/ Save(p) /\ UNCHANGED <<hydrus, build>>
  <2>1. CASE Quiet(p)
    BY <2>1, QuietIsQuiet DEF data
  <2>2. CASE ReadSucceeds(p) \/ Derive(p) \/ Send(p) \/ PushAccepted(p)
    BY <2>2 DEF ReadSucceeds, Derive, Send, PushAccepted, dbVars
  <2>3. CASE SaveChunk(p) \/ SaveDerived(p) \/ SavePush(p) \/ Finish(p)
    BY <2>3 DEF SaveChunk, SaveDerived, SavePush, Finish, SaveFails, dbVars
  <2>. QED  BY <1>4, <2>1, <2>2, <2>3 DEF Step, Quiet
<1>5. ASSUME NEW p \in Proc, Cancel(p) \/ Kill(p)
      PROVE  UNCHANGED <<state, tags, ledger>>
  BY <1>5 DEF Cancel, Kill, dbVars
<1>6. CASE Handle \/ LibraryChanges \/ Upgrade \/ UNCHANGED vars
  BY <1>2, <1>6 DEF Handle, LibraryChanges, Upgrade, vars, dbVars
<1>. QED  BY <1>2, <1>3, <1>4, <1>5, <1>6 DEF Next

\* The ledger and the recorded versions are backed at all times, for any number
\* of processes on the database, cancelled, killed or failing at any point.
THEOREM BackedAlways == Spec => []Backed
<1>1. Init => TypeOK /\ Backed
  BY InitType, InitBacked
<1>2. TypeOK /\ Backed /\ [Next]_vars => (TypeOK /\ Backed)'
  BY NextType, NextBacked
<1>. QED  BY <1>1, <1>2, PTL DEF Spec

\* The push ledger never claims a push that Hydrus did not get.
THEOREM LedgerIsTruthful == Spec => []LedgerTruthful
<1>1. Backed => LedgerTruthful
  BY DEF Backed
<1>. QED  BY <1>1, BackedAlways, PTL

\* The versions that let a run skip work stand for work that was stored.
THEOREM VersionsAreBacked == Spec => []VersionsBacked
<1>1. Backed => VersionsBacked
  BY DEF Backed
<1>. QED  BY <1>1, BackedAlways, PTL

\* The store forgets nothing it was told, as an action property of every step.
THEOREM ForgetsNothing == Spec => NothingForgotten
<1>. DEFINE A == \A f \in File : /\ state'[f].extract >= state[f].extract
                                 /\ state'[f].derive >= state[f].derive
                                 /\ (tags[f] # None => tags'[f] # None)
                                 /\ (ledger[f] # None => ledger'[f] # None)
<1>1. TypeOK /\ Backed /\ [Next]_vars => [A]_vars
  BY NextForgetsNothing
<1>2. Spec => [][A]_vars
  BY <1>1, TypeCorrect, BackedAlways, PTL DEF Spec
<1>. QED  BY <1>2 DEF NothingForgotten

-----------------------------------------------------------------------------
(* What processes remember. *)

\* Before anything was derived; before anything was sent; while work is left to send.
Gathering == {"idle", "discover", "resolve", "identify", "upsert", "states",
              "extract", "reading", "fetch"}
Unsent    == Gathering \cup {"derive", "unpushed", "ledger", "service"}
Sending   == {"service", "push", "request", "savepush"}

\* What a process remembers fits where it is: it has candidates once it derives,
\* outcomes of pushes once it pushes, none of derivations by then; what is pending
\* of a file's tags or push is the file's candidate; and a request being made asks
\* for the candidates of files still to be sent.
Fits(p) ==
  /\ pc[p] = "idle" => extracted[p] = {}
  /\ pc[p] \in Gathering => \A f \in File : candidates[p][f] = None
  /\ pc[p] \in Unsent => pushed[p] = {} /\ \A f \in File : pending[p][f].pushed = None
  /\ pc[p] \in {"unpushed", "ledger"} \cup Sending =>
       \A f \in File : pending[p][f].tags = None
  /\ pc[p] \in Sending => p \notin DryRun
  /\ \A f \in File : /\ pending[p][f].tags \in {None, candidates[p][f]}
                     /\ pending[p][f].pushed \in {None, candidates[p][f]}
  /\ \A f, g \in File : pending[p][f].tags = None \/ pending[p][g].pushed = None
  /\ \A f \in pushed[p] : candidates[p][f] # None
  /\ pc[p] # "request" => request[p] = NoRequest
  /\ \A f \in Asked(p) : f \in work[p] /\ request[p][f] = candidates[p][f]

\* A run that has not ended has neither completed nor been killed.
InRun(p) == pc[p] # "idle" => status[p] \in {"running", "failed"}

AllFit == \A p \in Proc : Fits(p) /\ InRun(p)

\* ProgressKept for one process.
Kept(p) ==
  \A f \in File :
    /\ f \in extracted[p] => build.extract \in {state[f].extract, pending[p][f].extract}
    /\ candidates[p][f] # None => candidates[p][f] \in {tags[f], pending[p][f].tags}
    /\ f \in pushed[p] => candidates[p][f] \in {ledger[f], pending[p][f].pushed}

\* From the diff until the last push, what is left to send is stored, not in the
\* ledger, and not about to be.
Due(p) ==
  pc[p] \in Sending =>
    \A f \in work[p] : /\ candidates[p][f] \notin {None, Empty, ledger[f]}
                       /\ candidates[p][f] = tags[f]
                       /\ pending[p][f].pushed = None

\* How far a run without failures or warnings has got with each of its files.
Clean(p) ==
  ~flawed[p] => \A f \in files[p] :
    /\ pc[p] \in {"extract", "reading", "fetch"} => f \in outdated[p] \/ tags[f] # None
    /\ pc[p] = "derive" => f \in work[p] \/ candidates[p][f] # None \/ tags[f] # None
    /\ pc[p] \in {"unpushed", "ledger"} \cup Sending => tags[f] # None
    /\ pc[p] = "ledger" => candidates[p][f] # None \/ tags[f] \in {Empty, ledger[f]}
    /\ pc[p] \in Sending =>
         f \in work[p] \/ tags[f] \in {Empty, ledger[f], pending[p][f].pushed}
    /\ pc[p] = "final" /\ status[p] = "running" =>
         /\ tags[f] # None /\ tags[f] \in {Empty, ledger[f]}
         /\ pending[p][f].tags = None /\ pending[p][f].pushed = None

\* The tags t are what the installed binary derives for f from what p fetched.
Derived(p, f, t) ==
  fetched[p][f] # None /\ t = TagsOf(f, build.derive, chunks[f], fetched[p][f])

\* The same for a tagger that derives again on every run.
Current(p) ==
  ~flawed[p] => \A f \in files[p] :
    /\ pc[p] = "derive" => f \in work[p] \/ Derived(p, f, candidates[p][f])
    /\ pc[p] \in {"unpushed", "ledger"} \cup Sending => Derived(p, f, tags[f])
    /\ pc[p] = "final" /\ status[p] = "running" => Derived(p, f, tags[f])

-----------------------------------------------------------------------------
\* What the properties ask of a process's memory.
own(q) == <<pc[q], status[q], flawed[q], files[q], work[q], reading[q], outdated[q],
            extracted[q], fetched[q], candidates[q], request[q], pushed[q], pending[q]>>

\* A process changes no other's memory.
LEMMA StepIsLocal ==
  ASSUME TypeOK, NEW p \in Proc, NEW q \in Proc \ {p}, Step(p) \/ Cancel(p) \/ Kill(p)
  PROVE  UNCHANGED own(q)
<1>. USE DEF TypeOK, own, Goto, memory, worldVars, dbVars
<1>1. CASE Start(p)
  BY <1>1 DEF Start
<1>2. CASE Discover(p)
  BY <1>2 DEF Discover
<1>3. CASE Resolve(p)
  BY <1>3 DEF Resolve
<1>4. CASE Identify(p)
  BY <1>4 DEF Identify, Ask, Blame
<1>5. CASE Upsert(p)
  BY <1>5 DEF Upsert
<1>6. CASE ReadStates(p)
  BY <1>6 DEF ReadStates
<1>7. CASE NextChunk(p)
  BY <1>7 DEF NextChunk
<1>8. CASE BeginRead(p)
  BY <1>8 DEF BeginRead
<1>9. CASE ReadSucceeds(p)
  BY <1>9 DEF ReadSucceeds
<1>10. CASE ReadFails(p)
  BY <1>10 DEF ReadFails, Blame
<1>11. CASE SaveChunk(p)
  BY <1>11 DEF SaveChunk, Save, SaveFails, Fail
<1>12. CASE PlanDerive(p)
  BY <1>12 DEF PlanDerive, FetchOrDerive
<1>13. CASE Fetch(p)
  BY <1>13 DEF Fetch, Ask, FetchOrDerive
<1>14. CASE Derive(p)
  BY <1>14 DEF Derive
<1>15. CASE SkipDerive(p)
  BY <1>15 DEF SkipDerive, Blame
<1>16. CASE AbandonDerive(p)
  BY <1>16 DEF AbandonDerive, Fail
<1>17. CASE SaveDerived(p)
  BY <1>17 DEF SaveDerived, Save, SaveFails, Fail
<1>18. CASE ReadUnpushed(p)
  BY <1>18 DEF ReadUnpushed
<1>19. CASE ReadLedger(p)
  BY <1>19 DEF ReadLedger
<1>20. CASE ResolveService(p)
  BY <1>20 DEF ResolveService
<1>21. CASE PushAccepted(p)
  BY <1>21 DEF PushAccepted
<1>22. CASE PushFails(p)
  BY <1>22 DEF PushFails, Fail, Blame
<1>23. CASE SavePush(p)
  BY <1>23 DEF SavePush, Save, SaveFails, Fail
<1>24. CASE StageFails(p)
  BY <1>24 DEF StageFails, Fail
<1>25. CASE Finish(p)
  BY <1>25 DEF Finish, Save, SaveFails, Forget
<1>26. CASE Cancel(p)
  BY <1>26 DEF Cancel
<1>27. CASE Kill(p)
  BY <1>27 DEF Kill, Forget
<1>28. CASE Send(p)
  BY <1>28 DEF Send
<1>. QED
  BY <1>1, <1>2, <1>3, <1>4, <1>5, <1>6, <1>7, <1>8, <1>9, <1>10, <1>11, <1>12, <1>13,
     <1>14, <1>15, <1>16, <1>17, <1>18, <1>19, <1>20, <1>21, <1>22, <1>23, <1>24, <1>25,
     <1>26, <1>27, <1>28 DEF Step

-----------------------------------------------------------------------------
\* What a save does to the rows of a file, and to what is pending.
LEMMA Saved ==
  ASSUME TypeOK, NEW p \in Proc, Save(p), NEW f \in File
  PROVE  /\ p \in DryRun => /\ state'[f] = state[f]
                            /\ tags'[f] = tags[f] /\ ledger'[f] = ledger[f]
         /\ p \notin DryRun =>
              /\ state'[f].extract = Coalesce(pending[p][f].extract, state[f].extract)
              /\ tags'[f] = Coalesce(pending[p][f].tags, tags[f])
              /\ ledger'[f] = Coalesce(pending[p][f].pushed, ledger[f])
         /\ pending'[p][f] = NoOutcome
<1>1. pending'[p] = NothingPending
  BY DEF Save, TypeOK
<1>. QED
  BY <1>1 DEF Save, Record, RecordState, RecordTags, RecordPush, NothingPending

\* A process that forgets, or has nothing in mind, fits.
LEMMA ForgetFits ==
  ASSUME TypeOK, NEW p \in Proc, Forget(p)
  PROVE  Fits(p)'
<1>1. /\ pc'[p] = "idle" /\ extracted'[p] = {} /\ pushed'[p] = {}
      /\ candidates'[p] = [f \in File |-> None]
      /\ pending'[p] = NothingPending
      /\ request'[p] = NoRequest
  BY DEF Forget, Goto, TypeOK
<1>2. \A f \in File : /\ candidates'[p][f] = None
                      /\ pending'[p][f].tags = None /\ pending'[p][f].pushed = None
  BY <1>1 DEF NothingPending, NoOutcome
<1>. QED  BY <1>1, <1>2 DEF Fits, Gathering, Unsent, Sending, Asked, NoRequest

\* A step of a process that adds neither candidates nor outcomes fits where it goes
\* if it may have what it has there.
LEMMA MoveFits ==
  ASSUME TypeOK, NEW p \in Proc, Fits(p), NEW stage \in Stage \ {"idle"},
         pc'[p] = stage,
         UNCHANGED <<candidates[p], pushed[p]>>,
         pending'[p] = pending[p] \/ pending'[p] = NothingPending,
         stage \in Gathering => pc[p] \in Gathering,
         stage \in Unsent => pc[p] \in Unsent,
         stage \in {"unpushed", "ledger"} \cup Sending =>
           \/ pc[p] \in {"unpushed", "ledger"} \cup Sending
           \/ pending'[p] = NothingPending,
         stage \in Sending => p \notin DryRun,
         \/ request'[p] = NoRequest
         \/ pc[p] # "request" /\ UNCHANGED request[p]
         \/ stage = pc[p] /\ UNCHANGED <<request[p], work[p]>>
  PROVE  Fits(p)'
<1>1. \A f \in File : /\ pending'[p][f].tags \in {None, pending[p][f].tags}
                      /\ pending'[p][f].pushed \in {None, pending[p][f].pushed}
                      /\ pending'[p] = NothingPending => pending'[p][f].tags = None
  BY DEF NothingPending, NoOutcome
<1>2. /\ stage # "request" => request'[p] = NoRequest
      /\ \A f \in File : request'[p][f] # None =>
           f \in work'[p] /\ request'[p][f] = candidates'[p][f]
  BY DEF Fits, Asked, NoRequest
<1>. QED  BY <1>1, <1>2 DEF Fits, Asked

\* A process's own steps keep its memory fitting.
LEMMA StepFits ==
  ASSUME TypeOK, NEW p \in Proc, Fits(p), Step(p) \/ Cancel(p) \/ Kill(p)
  PROVE  Fits(p)'
<1>. USE DEF Goto, memory, worldVars, dbVars, Gathering, Unsent, Sending
<1>1. CASE Start(p)
  <2>1. /\ pc[p] = "idle" /\ pc'[p] = "discover"
        /\ UNCHANGED <<candidates, request, pushed, pending>>
    BY <1>1 DEF Start, TypeOK
  <2>. QED  BY <2>1, MoveFits DEF Stage
<1>2. CASE Discover(p)
  <2>1. /\ pc[p] = "discover" /\ pc'[p] \in {"final", "resolve"}
        /\ UNCHANGED <<candidates, request, pushed, pending>>
    BY <1>2 DEF Discover, TypeOK
  <2>. QED  BY <2>1, MoveFits DEF Stage
<1>3. CASE Resolve(p)
  <2>1. /\ pc[p] = "resolve" /\ pc'[p] \in {"states", "identify"}
        /\ UNCHANGED <<candidates, request, pushed, pending>>
    BY <1>3 DEF Resolve, TypeOK
  <2>. QED  BY <2>1, MoveFits DEF Stage
<1>4. CASE Identify(p)
  <2>1. /\ pc[p] = "identify" /\ pc'[p] \in {"upsert", "identify"}
        /\ UNCHANGED <<candidates, request, pushed, pending>>
    BY <1>4 DEF Identify, TypeOK
  <2>. QED  BY <2>1, MoveFits DEF Stage
<1>5. CASE Upsert(p)
  <2>1. /\ pc[p] = "upsert" /\ pc'[p] = "states"
        /\ UNCHANGED <<candidates, request, pushed, pending>>
    BY <1>5 DEF Upsert, TypeOK
  <2>. QED  BY <2>1, MoveFits DEF Stage
<1>6. CASE ReadStates(p)
  <2>1. /\ pc[p] = "states" /\ pc'[p] = "extract"
        /\ UNCHANGED <<candidates, request, pushed, pending>>
    BY <1>6 DEF ReadStates, TypeOK
  <2>. QED  BY <2>1, MoveFits DEF Stage
<1>7. CASE NextChunk(p)
  <2>1. /\ pc[p] = "extract" /\ pc'[p] = "reading"
        /\ UNCHANGED <<candidates, request, pushed, pending>>
    BY <1>7 DEF NextChunk, TypeOK
  <2>. QED  BY <2>1, MoveFits DEF Stage
<1>8. CASE BeginRead(p)
  BY <1>8, MoveFits DEF BeginRead, TypeOK, Stage
<1>9. CASE ReadSucceeds(p)
  <2>1. PICK f \in reading[p] : pending' = [pending EXCEPT ![p][f].extract = build.extract]
    BY <1>9 DEF ReadSucceeds
  <2>2. \A g \in File : /\ pending'[p][g].tags = pending[p][g].tags
                        /\ pending'[p][g].pushed = pending[p][g].pushed
    BY <2>1 DEF TypeOK, Outcome
  <2>3. pc[p] = "reading" /\ UNCHANGED <<pc, candidates, request, pushed>>
    BY <1>9 DEF ReadSucceeds
  <2>. QED  BY <2>2, <2>3 DEF Fits, Asked, NoRequest
<1>10. CASE ReadFails(p)
  BY <1>10, MoveFits DEF ReadFails, TypeOK, Stage
<1>11. CASE SaveChunk(p)
  <2>1. pc[p] = "reading" /\ UNCHANGED <<candidates, request, pushed>>
    BY <1>11 DEF SaveChunk, ChunkDone
  <2>2. pc'[p] \in {"extract", "final"}
    BY <1>11 DEF SaveChunk, Fail, TypeOK
  <2>3. pending'[p] = pending[p] \/ pending'[p] = NothingPending
    BY <1>11 DEF SaveChunk, Save, TypeOK
  <2>. QED  BY <2>1, <2>2, <2>3, MoveFits DEF Stage
<1>12. CASE PlanDerive(p)
  <2>1. /\ pc[p] = "extract" /\ pc'[p] \in {"fetch", "derive"}
        /\ UNCHANGED <<candidates, request, pushed, pending>>
    BY <1>12 DEF PlanDerive, TypeOK, FetchOrDerive
  <2>. QED  BY <2>1, MoveFits DEF Stage
<1>13. CASE Fetch(p)
  <2>1. /\ pc[p] = "fetch" /\ pc'[p] \in {"fetch", "derive"}
        /\ UNCHANGED <<candidates, request, pushed, pending>>
    BY <1>13 DEF Fetch, TypeOK, FetchOrDerive
  <2>. QED  BY <2>1, MoveFits DEF Stage
<1>14. CASE Derive(p)
  <2>0. PICK f \in work[p] : \E t :
          /\ candidates' = [candidates EXCEPT ![p][f] = t]
          /\ pending' = [pending EXCEPT ![p][f].derive = build.derive, ![p][f].tags = t]
    BY <1>14 DEF Derive
  <2>1. PICK t :
          /\ candidates' = [candidates EXCEPT ![p][f] = t]
          /\ pending' = [pending EXCEPT ![p][f].derive = build.derive, ![p][f].tags = t]
    BY <2>0
  <2>2. f \in File
    BY DEF TypeOK
  <2>3. \A g \in File : /\ pending'[p][g].tags = IF g = f THEN t ELSE pending[p][g].tags
                        /\ pending'[p][g].pushed = pending[p][g].pushed
                        /\ candidates'[p][g] = IF g = f THEN t ELSE candidates[p][g]
    BY <2>1, <2>2 DEF TypeOK, Outcome
  <2>4. pc[p] = "derive" /\ UNCHANGED <<pc, request, pushed>>
    BY <1>14 DEF Derive
  <2>. QED  BY <2>3, <2>4 DEF Fits, Asked, NoRequest
<1>15. CASE SkipDerive(p)
  BY <1>15, MoveFits DEF SkipDerive, TypeOK, Stage
<1>16. CASE AbandonDerive(p)
  BY <1>16, MoveFits DEF AbandonDerive, Fail, TypeOK, Stage
<1>17. CASE SaveDerived(p)
  <2>1. pc[p] = "derive" /\ UNCHANGED <<candidates, request, pushed>>
    BY <1>17 DEF SaveDerived
  <2>2. \/ pc'[p] = "unpushed" /\ pending'[p] = NothingPending
        \/ pc'[p] = "final" /\ pending'[p] = pending[p]
    BY <1>17 DEF SaveDerived, Save, Fail, TypeOK
  <2>. QED  BY <2>1, <2>2, MoveFits DEF Stage
<1>18. CASE ReadUnpushed(p)
  <2>1. pc[p] = "unpushed" /\ pc'[p] = "ledger" /\ UNCHANGED <<request, pushed, pending>>
    BY <1>18 DEF ReadUnpushed, TypeOK
  <2>. QED  BY <2>1 DEF Fits, Asked, NoRequest
<1>19. CASE ReadLedger(p)
  <2>1. /\ pc[p] = "ledger" /\ pc'[p] \in {"final", "service"}
        /\ p \in DryRun => pc'[p] = "final"
        /\ UNCHANGED <<candidates, request, pushed, pending>>
    BY <1>19 DEF ReadLedger, TypeOK
  <2>. QED  BY <2>1, MoveFits DEF Stage
<1>20. CASE ResolveService(p)
  <2>1. /\ pc[p] = "service" /\ pc'[p] = "push"
        /\ UNCHANGED <<candidates, request, pushed, pending>>
    BY <1>20 DEF ResolveService, TypeOK
  <2>. QED  BY <2>1, MoveFits DEF Stage, Fits
<1>21. CASE PushAccepted(p)
  <2>1. \A f \in File :
          /\ pending'[p][f].tags = pending[p][f].tags
          /\ pending'[p][f].pushed = IF f \in Asked(p) THEN request[p][f]
                                                       ELSE pending[p][f].pushed
    BY <1>21 DEF PushAccepted, TypeOK, Outcome
  <2>2. /\ pc[p] = "request" /\ pc'[p] = "savepush" /\ UNCHANGED candidates
        /\ pushed'[p] = pushed[p] \cup Asked(p) /\ request'[p] = NoRequest
    BY <1>21 DEF PushAccepted, TypeOK
  <2>3. \A f \in Asked(p) : request[p][f] = candidates[p][f] /\ candidates[p][f] # None
    BY DEF Fits, Asked
  <2>4. Asked(p)' = {}
    BY <2>2 DEF Asked, NoRequest
  <2>. QED  BY <2>1, <2>2, <2>3, <2>4 DEF Fits
<1>22. CASE PushFails(p)
  <2>1. /\ pc[p] = "request" /\ UNCHANGED <<candidates, pushed, pending>>
        /\ request'[p] = NoRequest
    BY <1>22 DEF PushFails, TypeOK
  <2>2. pc'[p] \in {"push", "final"}
    BY <1>22 DEF PushFails, Fail, TypeOK
  <2>. QED  BY <2>1, <2>2, MoveFits DEF Fits, Stage
<1>23. CASE SavePush(p)
  <2>1. pc[p] = "savepush" /\ UNCHANGED <<candidates, request, pushed>>
    BY <1>23 DEF SavePush
  <2>2. pc'[p] \in {"push", "final"}
    BY <1>23 DEF SavePush, Fail, TypeOK
  <2>3. pending'[p] = pending[p] \/ pending'[p] = NothingPending
    BY <1>23 DEF SavePush, Save, TypeOK
  <2>. QED  BY <2>1, <2>2, <2>3, MoveFits DEF Fits, Stage
<1>24. CASE StageFails(p)
  BY <1>24, MoveFits DEF StageFails, Fail, TypeOK, Stage
<1>25. CASE Finish(p)
  BY <1>25, ForgetFits DEF Finish
<1>26. CASE Cancel(p)
  <2>1. UNCHANGED <<pc, extracted, work, candidates, request, pushed, pending>>
    BY <1>26 DEF Cancel
  <2>. QED  BY <2>1 DEF Fits, Asked
<1>27. CASE Kill(p)
  BY <1>27, ForgetFits DEF Kill
<1>28. CASE Send(p)
  <2>1. PICK batch \in Requests(p) :
          request' = [request EXCEPT ![p] =
                        [f \in File |-> IF f \in batch THEN candidates[p][f] ELSE None]]
    BY <1>28 DEF Send
  <2>2. \A f \in File : request'[p][f] = IF f \in batch THEN candidates[p][f] ELSE None
    BY <2>1 DEF TypeOK
  <2>3. batch \subseteq work[p]
    BY RequestType
  <2>4. /\ pc[p] = "push" /\ pc'[p] = "request"
        /\ UNCHANGED <<candidates, pushed, pending, work>>
    BY <1>28 DEF Send, TypeOK
  <2>5. \A f \in Asked(p)' : f \in work'[p] /\ request'[p][f] = candidates'[p][f]
    BY <2>2, <2>3, <2>4 DEF Asked
  <2>. QED  BY <2>4, <2>5 DEF Fits
<1>. QED
  BY <1>1, <1>2, <1>3, <1>4, <1>5, <1>6, <1>7, <1>8, <1>9, <1>10, <1>11, <1>12, <1>13,
     <1>14, <1>15, <1>16, <1>17, <1>18, <1>19, <1>20, <1>21, <1>22, <1>23, <1>24, <1>25,
     <1>26, <1>27, <1>28 DEF Step

\* The status of a run is settled when it ends.
LEMMA StepRuns ==
  ASSUME TypeOK, NEW p \in Proc, InRun(p), Step(p) \/ Cancel(p) \/ Kill(p)
  PROVE  InRun(p)'
<1>. USE DEF TypeOK, InRun, Goto
<1>1. CASE Start(p)
  BY <1>1 DEF Start
<1>2. CASE Fail(p)
  BY <1>2 DEF Fail
<1>3. CASE Finish(p) \/ Kill(p)
  BY <1>3 DEF Finish, Kill, Forget
<1>4. CASE pc[p] # "idle" /\ UNCHANGED status
  BY <1>4
<1>5. CASE Step(p) /\ ~Start(p) /\ ~Finish(p)
  <2>1. pc[p] # "idle" /\ (Fail(p) \/ UNCHANGED status)
    BY <1>5 DEF Step, Discover, Resolve, Identify, Upsert, ReadStates, NextChunk,
       BeginRead, ReadSucceeds, ReadFails, SaveChunk, ChunkDone, PlanDerive, Fetch, Derive,
       SkipDerive, AbandonDerive, SaveDerived, ReadUnpushed, ReadLedger, ResolveService,
       Send, PushAccepted, PushFails, SavePush, StageFails
  <2>. QED  BY <1>2, <1>4, <2>1
<1>6. CASE Cancel(p)
  BY <1>4, <1>6 DEF Cancel
<1>. QED  BY <1>1, <1>3, <1>5, <1>6

\* No step of the world, nor of another process, disturbs a process's memory.
LEMMA WorldIsLocal ==
  ASSUME NEW q \in Proc, Handle \/ LibraryChanges \/ Upgrade \/ UNCHANGED vars
  PROVE  UNCHANGED own(q)
BY DEF Handle, LibraryChanges, Upgrade, own, vars, procVars

\* Every step keeps the memory of every process fitting.
LEMMA NextFits == TypeOK /\ AllFit /\ [Next]_vars => AllFit'
<1> SUFFICES ASSUME TypeOK, AllFit, [Next]_vars, NEW q \in Proc
             PROVE  Fits(q)' /\ InRun(q)'
  BY DEF AllFit
<1>1. Fits(q) /\ InRun(q)
  BY DEF AllFit
<1>2. CASE UNCHANGED own(q)
  BY <1>1, <1>2 DEF own, Fits, InRun, Asked
<1>3. ASSUME NEW p \in Proc, Step(p) \/ Cancel(p) \/ Kill(p) PROVE Fits(q)' /\ InRun(q)'
  <2>1. CASE p = q
    BY <1>1, <1>3, <2>1, StepFits, StepRuns
  <2>2. CASE p # q
    BY <1>2, <1>3, <2>2, StepIsLocal
  <2>. QED  BY <2>1, <2>2
<1>. QED  BY <1>2, <1>3, WorldIsLocal DEF Next

\* Idle processes remember nothing.
LEMMA InitFits == Init => AllFit
BY DEF Init, AllFit, InRun, Fits, Gathering, Unsent, Sending, NothingPending, NoOutcome,
   Asked, NoRequest

\* What any number of processes remember fits where they are.
THEOREM MemoryFits == Spec => []AllFit
<1>1. TypeOK /\ AllFit /\ [Next]_vars => AllFit'
  BY NextFits
<1>. QED  BY <1>1, InitFits, TypeCorrect, PTL DEF Spec

\* A step that a dry run takes changes no tables, and sends nothing.
LEMMA DryStep ==
  ASSUME TypeOK, NEW p \in DryRun, Fits(p), Step(p) \/ Cancel(p) \/ Kill(p)
  PROVE  UNCHANGED <<state, tags, ledger, sent, hydrus>>
<1>1. p \in Proc
  BY ProcAssumption
<1>2. pc[p] \notin Sending
  BY DEF Fits
<1>3. CASE Quiet(p)
  BY <1>1, <1>3, QuietIsQuiet DEF data
<1>4. CASE ReadSucceeds(p) \/ Derive(p)
  BY <1>4 DEF ReadSucceeds, Derive, dbVars, worldVars
<1>5. CASE Send(p) \/ PushAccepted(p)
  BY <1>2, <1>5 DEF Send, PushAccepted, Sending
<1>6. CASE SaveChunk(p) \/ SaveDerived(p) \/ SavePush(p) \/ Finish(p)
  BY <1>6 DEF SaveChunk, SaveDerived, SavePush, Finish, Save, SaveFails
<1>7. CASE Cancel(p)
  BY <1>7 DEF Cancel, dbVars
<1>8. CASE Kill(p)
  BY <1>8 DEF Kill, dbVars
<1>. QED  BY <1>3, <1>4, <1>5, <1>6, <1>7, <1>8 DEF Step, Quiet

\* A dry run changes neither the run state, nor tags, nor ledger, and sends nothing,
\* beside however many other runs and whatever it runs into.
THEOREM DryRunsAreDry == Spec => DryRunIsDry
<1>. DEFINE A == \A p \in DryRun :
       (pc'[p] # pc[p] \/ work'[p] # work[p] \/ reading'[p] # reading[p]) =>
         UNCHANGED <<state, tags, ledger, sent, hydrus>>
<1>1. ASSUME TypeOK, AllFit, [Next]_vars PROVE [A]_vars
  <2>. SUFFICES ASSUME NEW q \in DryRun,
                       pc'[q] # pc[q] \/ work'[q] # work[q] \/ reading'[q] # reading[q]
                PROVE  UNCHANGED <<state, tags, ledger, sent, hydrus>>
    OBVIOUS
  <2>1. q \in Proc /\ Fits(q)
    BY <1>1, ProcAssumption DEF AllFit
  <2>2. ~UNCHANGED own(q)
    BY DEF own
  <2>3. PICK p \in Proc : Step(p) \/ Cancel(p) \/ Kill(p)
    BY <1>1, <2>1, <2>2, WorldIsLocal DEF Next
  <2>4. p = q
    BY <1>1, <2>1, <2>2, <2>3, StepIsLocal
  <2>. QED  BY <1>1, <2>1, <2>3, <2>4, DryStep
<1>2. Spec => [][A]_vars
  BY <1>1, TypeCorrect, MemoryFits, PTL DEF Spec
<1>. QED  BY <1>2 DEF DryRunIsDry

-----------------------------------------------------------------------------
\* Nothing a run did is lost while it lasts.

\* Of the quiet steps only ReadUnpushed finds candidates.
LEMMA QuietFindsNothing ==
  ASSUME NEW p \in Proc, Quiet(p), ~ReadUnpushed(p)
  PROVE  UNCHANGED <<extracted, candidates, pushed>>
BY DEF Quiet, Start, Discover, Resolve, Identify, Upsert, ReadStates, NextChunk,
   BeginRead, ReadFails, PlanDerive, Fetch, SkipDerive, AbandonDerive, ReadLedger,
   ResolveService, PushFails, StageFails, memory

\* A step that changes nothing Kept speaks of keeps it.
LEMMA StaysKept ==
  ASSUME NEW p \in Proc, Kept(p),
         UNCHANGED <<state, tags, ledger, build, pending, extracted, candidates, pushed>>
  PROVE  Kept(p)'
BY DEF Kept

\* What was pending is stored by a save.
LEMMA SaveKept ==
  ASSUME TypeOK, Backed, NEW p \in Proc \ DryRun, Fits(p), Kept(p), Save(p),
         UNCHANGED <<build, extracted, candidates, pushed>>
  PROVE  Kept(p)'
<1>. SUFFICES ASSUME NEW f \in File
              PROVE  /\ f \in extracted[p] =>
                          build.extract \in {state'[f].extract, pending'[p][f].extract}
                     /\ candidates[p][f] # None =>
                          candidates[p][f] \in {tags'[f], pending'[p][f].tags}
                     /\ f \in pushed[p] =>
                          candidates[p][f] \in {ledger'[f], pending'[p][f].pushed}
  BY DEF Kept
<1>. DEFINE o == pending[p][f]
<1>1. /\ state'[f].extract = Coalesce(o.extract, state[f].extract)
      /\ tags'[f] = Coalesce(o.tags, tags[f])
      /\ ledger'[f] = Coalesce(o.pushed, ledger[f])
  BY Saved
<1>2. o.extract # None => o.extract = build.extract
  BY DEF Backed, OutcomesBacked
<1>3. o.tags \in {None, candidates[p][f]} /\ o.pushed \in {None, candidates[p][f]}
  BY DEF Fits
<1>4. /\ f \in extracted[p] => build.extract \in {state[f].extract, o.extract}
      /\ candidates[p][f] # None => candidates[p][f] \in {tags[f], o.tags}
      /\ f \in pushed[p] => candidates[p][f] \in {ledger[f], o.pushed}
  BY DEF Kept
<1>5. build.extract # None
  BY TagAssumption, BoundAssumption DEF TypeOK, ExtractVersion
<1>. HIDE DEF o
<1>6. f \in extracted[p] => build.extract = state'[f].extract
  BY <1>1, <1>2, <1>4, <1>5 DEF Coalesce
<1>7. candidates[p][f] # None => candidates[p][f] = tags'[f]
  BY <1>1, <1>3, <1>4 DEF Coalesce
<1>8. f \in pushed[p] => candidates[p][f] = ledger'[f]
  <2>1. f \in pushed[p] => candidates[p][f] # None
    BY DEF Fits
  <2>. QED  BY <1>1, <1>3, <1>4, <2>1 DEF Coalesce
<1>. QED  BY <1>6, <1>7, <1>8

\* An idle process has done nothing that could be lost.
LEMMA IdleKept ==
  ASSUME NEW p \in Proc, Fits(p), pc[p] = "idle"
  PROVE  Kept(p) /\ (UNCHANGED <<extracted, candidates, pushed>> => Kept(p)')
BY DEF Fits, Kept, Gathering, Unsent

\* Every step of the only process, and of the world, keeps what was done.
LEMMA NextKept ==
  ASSUME TypeOK, Backed, NEW p \in Proc \ DryRun, Proc = {p}, Fits(p), Kept(p), [Next]_vars
  PROVE  Kept(p)'
<1>1. CASE Quiet(p) /\ ~ReadUnpushed(p)
  <2>1. UNCHANGED <<state, tags, ledger, build, pending>>
    BY <1>1, QuietIsQuiet DEF data
  <2>. QED  BY <1>1, <2>1, QuietFindsNothing, StaysKept
<1>2. CASE ReadUnpushed(p)
  <2>1. UNCHANGED <<state, tags, ledger, build, pending, extracted, pushed>>
    BY <1>2 DEF ReadUnpushed, dbVars, worldVars
  <2>2. pushed[p] = {}
    BY <1>2 DEF ReadUnpushed, Fits, Unsent
  <2>3. \A f \in File : candidates'[p][f] \in {candidates[p][f], tags[f]}
    BY <1>2 DEF ReadUnpushed, TypeOK
  <2>. QED  BY <2>1, <2>2, <2>3 DEF Kept
<1>3. CASE ReadSucceeds(p)
  <2>1. PICK f \in reading[p] :
          /\ extracted' = [extracted EXCEPT ![p] = @ \cup {f}]
          /\ pending' = [pending EXCEPT ![p][f].extract = build.extract]
    BY <1>3 DEF ReadSucceeds
  <2>2. UNCHANGED <<state, tags, ledger, build, candidates, pushed>>
    BY <1>3 DEF ReadSucceeds, worldVars
  <2>3. \A g \in File :
          /\ pending'[p][g].tags = pending[p][g].tags
          /\ pending'[p][g].pushed = pending[p][g].pushed
          /\ pending'[p][g].extract = IF g = f THEN build.extract ELSE pending[p][g].extract
    BY <2>1 DEF TypeOK, Outcome
  <2>4. extracted'[p] = extracted[p] \cup {f}
    BY <2>1 DEF TypeOK
  <2>. QED  BY <2>2, <2>3, <2>4 DEF Kept
<1>4. CASE Derive(p)
  <2>0. PICK f \in work[p] : \E t :
          /\ candidates' = [candidates EXCEPT ![p][f] = t]
          /\ pending' = [pending EXCEPT ![p][f].derive = build.derive, ![p][f].tags = t]
    BY <1>4 DEF Derive
  <2>1. PICK t :
          /\ candidates' = [candidates EXCEPT ![p][f] = t]
          /\ pending' = [pending EXCEPT ![p][f].derive = build.derive, ![p][f].tags = t]
    BY <2>0
  <2>2. \A g \in File : /\ pending'[p][g].tags = IF g = f THEN t ELSE pending[p][g].tags
                        /\ pending'[p][g].extract = pending[p][g].extract
                        /\ candidates'[p][g] = IF g = f THEN t ELSE candidates[p][g]
    BY <2>1 DEF TypeOK, Outcome
  <2>3. UNCHANGED <<state, tags, ledger, build, extracted, pushed>> /\ pushed[p] = {}
    BY <1>4 DEF Derive, dbVars, worldVars, Fits, Unsent
  <2>. QED  BY <2>2, <2>3 DEF Kept
<1>5. CASE PushAccepted(p)
  <2>1. \A f \in File :
          /\ pending'[p][f].tags = pending[p][f].tags
          /\ pending'[p][f].extract = pending[p][f].extract
          /\ pending'[p][f].pushed = IF f \in Asked(p) THEN request[p][f]
                                                       ELSE pending[p][f].pushed
    BY <1>5 DEF PushAccepted, TypeOK, Outcome
  <2>2. pushed'[p] = pushed[p] \cup Asked(p)
    BY <1>5 DEF PushAccepted, TypeOK
  <2>3. \A f \in Asked(p) : request[p][f] = candidates[p][f]
    BY DEF Fits
  <2>4. UNCHANGED <<state, tags, ledger, build, extracted, candidates>>
    BY <1>5 DEF PushAccepted, dbVars
  <2>. QED  BY <2>1, <2>2, <2>3, <2>4 DEF Kept
<1>6. CASE Send(p)
  BY <1>6, StaysKept DEF Send, dbVars
<1>7. CASE SaveChunk(p) \/ SaveDerived(p) \/ SavePush(p)
  <2>1. UNCHANGED <<build, extracted, candidates, pushed>>
    BY <1>7 DEF SaveChunk, SaveDerived, SavePush
  <2>2. Save(p) \/ UNCHANGED <<state, tags, ledger, pending>>
    BY <1>7 DEF SaveChunk, SaveDerived, SavePush, SaveFails, dbVars
  <2>. QED  BY <2>1, <2>2, SaveKept, StaysKept
<1>8. CASE Finish(p) \/ Kill(p)
  <2>1. Forget(p)
    BY <1>8 DEF Finish, Kill
  <2>. QED  BY <2>1 DEF Forget, Kept, TypeOK
<1>9. CASE Cancel(p)
  BY <1>9, StaysKept DEF Cancel, dbVars, memory
<1>10. CASE Handle \/ LibraryChanges \/ UNCHANGED vars
  BY <1>10, StaysKept DEF Handle, LibraryChanges, dbVars, worldVars, procVars, vars
<1>11. CASE Upgrade
  BY <1>11, IdleKept DEF Upgrade, procVars
<1>. QED
  BY <1>1, <1>2, <1>3, <1>4, <1>5, <1>6, <1>7, <1>8, <1>9, <1>10, <1>11 DEF Next, Step, Quiet

\* Nothing is done initially.
LEMMA InitKept == Init => ProgressKept
BY DEF Init, ProgressKept

\* ProgressKept says Kept of each process that is no dry run.
LEMMA KeptIsKept == ProgressKept <=> \A p \in Proc \ DryRun : Kept(p)
BY DEF ProgressKept, Kept

\* Until a run is over, each thing it did is stored or pending: saving once more
\* loses nothing (host.go's flush), for one process at a time.
THEOREM ProgressIsKept ==
  ASSUME NEW p \in Proc, Proc = {p}
  PROVE  Spec => []ProgressKept
<1>1. TypeOK /\ Backed /\ AllFit /\ ProgressKept /\ [Next]_vars => ProgressKept'
  <2> SUFFICES ASSUME TypeOK, Backed, AllFit, ProgressKept, [Next]_vars, p \notin DryRun
               PROVE  Kept(p)'
    BY KeptIsKept DEF ProgressKept, Kept
  <2>1. Kept(p) /\ Fits(p)
    BY KeptIsKept DEF AllFit
  <2>. QED  BY <2>1, NextKept
<1>. QED  BY <1>1, InitKept, TypeCorrect, BackedAlways, MemoryFits, PTL DEF Spec

-----------------------------------------------------------------------------
\* What is sent is stored and new.

\* The steps that lead to, or stay in, the stages in which tags are sent.
LEMMA SendingSteps ==
  ASSUME TypeOK, NEW p \in Proc, Proc = {p}, [Next]_vars, pc'[p] \in Sending
  PROVE  \/ ReadLedger(p) \/ ResolveService(p) \/ Send(p) \/ PushAccepted(p)
         \/ PushFails(p) \/ SavePush(p) \/ Cancel(p)
         \/ Handle \/ LibraryChanges \/ Upgrade \/ UNCHANGED vars
<1>. USE DEF Goto, Sending, TypeOK
<1>1. Start(p) \/ Discover(p) \/ Resolve(p) \/ Identify(p) \/ Upsert(p) => FALSE
  BY DEF Start, Discover, Resolve, Identify, Upsert
<1>2. ReadStates(p) \/ NextChunk(p) \/ BeginRead(p) \/ ReadSucceeds(p) \/ ReadFails(p) => FALSE
  BY DEF ReadStates, NextChunk, BeginRead, ReadSucceeds, ReadFails
<1>3. SaveChunk(p) \/ PlanDerive(p) \/ Fetch(p) => FALSE
  BY DEF SaveChunk, Fail, PlanDerive, Fetch, FetchOrDerive
<1>4. Derive(p) \/ SkipDerive(p) \/ AbandonDerive(p) \/ SaveDerived(p) => FALSE
  BY DEF Derive, SkipDerive, AbandonDerive, SaveDerived, Fail
<1>5. ReadUnpushed(p) \/ StageFails(p) \/ Finish(p) \/ Kill(p) => FALSE
  BY DEF ReadUnpushed, StageFails, Finish, Kill, Fail, Forget
<1>. QED  BY <1>1, <1>2, <1>3, <1>4, <1>5 DEF Next, Step

\* Every step of the only process keeps what is left to send stored and new.
LEMMA NextDue ==
  ASSUME TypeOK, NEW p \in Proc, Proc = {p}, Fits(p), p \notin DryRun => Kept(p), Due(p),
         [Next]_vars
  PROVE  Due(p)'
<1>. SUFFICES ASSUME pc'[p] \in Sending PROVE Due(p)'
  BY DEF Due
<1>1. CASE ReadLedger(p)
  <2>1. /\ p \notin DryRun /\ work'[p] = Needing(p)
        /\ pc[p] = "ledger" /\ UNCHANGED <<tags, ledger, candidates, pending>>
    BY <1>1 DEF ReadLedger, Goto, Sending, TypeOK, dbVars
  <2>2. \A f \in File : pending[p][f].tags = None /\ pending[p][f].pushed = None
    BY <2>1 DEF Fits, Unsent
  <2>3. \A f \in File : candidates[p][f] # None => candidates[p][f] = tags[f]
    BY <2>1, <2>2 DEF Kept
  <2>. QED  BY <2>1, <2>2, <2>3 DEF Due, Needing, Candidates
<1>2. CASE PushAccepted(p)
  <2>1. work'[p] = work[p] \ Asked(p)
    BY <1>2 DEF PushAccepted, TypeOK
  <2>2. \A f \in File \ Asked(p) : pending'[p][f] = pending[p][f]
    BY <1>2 DEF PushAccepted, TypeOK
  <2>3. pc[p] \in Sending /\ UNCHANGED <<tags, ledger, candidates>> /\ work[p] \subseteq File
    BY <1>2 DEF PushAccepted, dbVars, Sending, TypeOK
  <2>. QED  BY <2>1, <2>2, <2>3 DEF Due
<1>3. CASE PushFails(p)
  <2>1. work'[p] \subseteq work[p]
    BY <1>3 DEF PushFails, TypeOK
  <2>2. pc[p] \in Sending /\ UNCHANGED <<tags, ledger, candidates, pending>>
    BY <1>3 DEF PushFails, dbVars, Sending
  <2>. QED  BY <2>1, <2>2 DEF Due
<1>4. CASE SavePush(p)
  <2>1. pc[p] = "savepush" /\ UNCHANGED <<candidates, work>>
    BY <1>4 DEF SavePush
  <2>2. CASE UNCHANGED <<tags, ledger, pending>>
    BY <2>1, <2>2 DEF Due, Sending
  <2>3. CASE Save(p)
    <3>1. \A f \in File :
            /\ tags'[f] = tags[f]
            /\ pending[p][f].pushed = None => ledger'[f] = ledger[f]
            /\ pending'[p][f].pushed = None
      <4>1. \A f \in File : pending[p][f].tags = None
        BY <2>1 DEF Fits, Sending
      <4>. QED  BY <2>3, <4>1, Saved DEF Coalesce, NoOutcome
    <3>2. work[p] \subseteq File
      BY DEF TypeOK
    <3>. QED  BY <2>1, <3>1, <3>2 DEF Due, Sending
  <2>. QED  BY <1>4, <2>2, <2>3 DEF SavePush, SaveFails, dbVars
<1>5. CASE ResolveService(p) \/ Send(p) \/ Cancel(p)
  <2>1. UNCHANGED <<tags, ledger, candidates, pending, work>>
    BY <1>5 DEF ResolveService, Send, Cancel, dbVars, memory
  <2>2. pc[p] \in Sending
    BY <1>5 DEF ResolveService, Send, Cancel, Sending
  <2>. QED  BY <2>1, <2>2 DEF Due
<1>6. CASE Handle \/ LibraryChanges \/ Upgrade \/ UNCHANGED vars
  BY <1>6 DEF Handle, LibraryChanges, Upgrade, vars, procVars, dbVars, Due
<1>. QED  BY <1>1, <1>2, <1>3, <1>4, <1>5, <1>6, SendingSteps

\* A tag set is only sent once it is stored for the file, and only while the ledger
\* holds another (derive's flush, push's diff), for one process at a time.
THEOREM SentOnceStored ==
  ASSUME NEW p \in Proc, Proc = {p}
  PROVE  Spec => []SentIsStoredAndNew
<1>1. Init => Due(p)
  BY DEF Init, Due, Sending
<1>2. TypeOK /\ AllFit /\ ProgressKept /\ Due(p) /\ [Next]_vars => Due(p)'
  BY KeptIsKept, NextDue DEF AllFit
<1>3. Due(p) => SentIsStoredAndNew
  BY DEF Due, SentIsStoredAndNew, Sending
<1>. QED  BY <1>1, <1>2, <1>3, TypeCorrect, MemoryFits, ProgressIsKept, PTL DEF Spec

-----------------------------------------------------------------------------
\* Cache, requests, Hydrus and ledger keep the promise of TagLedger, step by step.

\* What a process is waiting for was sent, and is remembered to have been.
Posted(p) == \A f \in Asked(p) : request[p][f] \in sent[f]

\* Every step keeps it: only Send makes a request, and no request is unsent.
LEMMA NextPosted ==
  ASSUME TypeOK, NEW p \in Proc, Proc = {p}, Posted(p), [Next]_vars
  PROVE  Posted(p)'
<1>1. CASE Send(p)
  <2>1. PICK batch \in Requests(p) : LET asked == [f \in File |->
            IF f \in batch THEN candidates[p][f] ELSE None] IN
          request' = [request EXCEPT ![p] = asked] /\ sent' = With(sent, asked)
    BY <1>1 DEF Send
  <2>. QED  BY <2>1 DEF Posted, Asked, With, TypeOK
<1>2. CASE PushAccepted(p) \/ PushFails(p) \/ Finish(p) \/ Kill(p)
  <2>1. request'[p] = NoRequest
    BY <1>2 DEF PushAccepted, PushFails, Finish, Kill, Forget, TypeOK
  <2>. QED  BY <2>1 DEF Posted, Asked, NoRequest
<1>3. CASE UNCHANGED <<sent, request>>
  BY <1>3 DEF Posted, Asked
<1>4. CASE Quiet(p) /\ ~PushFails(p)
  <2>1. UNCHANGED <<sent, request>>
    BY <1>4 DEF Quiet, Start, Discover, Resolve, Identify, Upsert, ReadStates, NextChunk,
       BeginRead, ReadFails, PlanDerive, Fetch, SkipDerive, AbandonDerive, ReadUnpushed,
       ReadLedger, ResolveService, StageFails, memory, worldVars
  <2>. QED  BY <1>3, <2>1
<1>5. CASE ReadSucceeds(p) \/ Derive(p) \/ SaveChunk(p) \/ SaveDerived(p) \/ SavePush(p)
  BY <1>3, <1>5 DEF ReadSucceeds, Derive, SaveChunk, SaveDerived, SavePush, worldVars
<1>6. CASE Cancel(p) \/ Handle \/ LibraryChanges \/ Upgrade \/ UNCHANGED vars
  BY <1>3, <1>6 DEF Cancel, Handle, LibraryChanges, Upgrade, memory, vars, worldVars, procVars
<1>. QED  BY <1>1, <1>2, <1>4, <1>5, <1>6 DEF Next, Step, Quiet

\* What is sent is wanted.
LEMMA SendRequests ==
  ASSUME TypeOK, NEW p \in Proc, Due(p), Send(p)
  PROVE  Promise!Request
<1>1. PICK batch \in Requests(p) :
        sent' = With(sent, [f \in File |-> IF f \in batch THEN candidates[p][f] ELSE None])
  BY DEF Send
<1>2. batch \subseteq work[p] /\ work[p] \subseteq File
  BY RequestType DEF TypeOK
<1>3. \A f \in batch : candidates[p][f] = tags[f] /\ tags[f] \notin {None, Empty}
  BY <1>2 DEF Due, Send, Sending
<1>4. batch \subseteq Promise!Requestable
  BY <1>2, <1>3 DEF Promise!Requestable
<1>5. sent' = [f \in File |-> IF f \in batch THEN sent[f] \cup {tags[f]} ELSE sent[f]]
  <2>1. \A f \in File :
          sent[f] \cup ({IF f \in batch THEN candidates[p][f] ELSE None} \ {None})
            = IF f \in batch THEN sent[f] \cup {tags[f]} ELSE sent[f]
    BY <1>3
  <2>. QED  BY <1>1, <2>1 DEF With
<1>6. UNCHANGED <<tags, hydrus, ledger>>
  BY DEF Send, dbVars
<1>. QED  BY <1>4, <1>5, <1>6 DEF Promise!Request

\* What Hydrus adds was requested, whenever it adds it.
LEMMA HydrusDelivers ==
  ASSUME TypeOK, TypeOK', NEW p \in Proc, Posted(p), PushAccepted(p) \/ Handle
  PROVE  Promise!Deliver
<1>1. hydrus' \in [File -> SUBSET TagSet] /\ UNCHANGED <<tags, sent, ledger>>
  BY DEF TypeOK, PushAccepted, Handle, dbVars
<1>2. CASE PushAccepted(p)
  <2>1. \A f \in File : hydrus'[f] = hydrus[f] \cup ({request[p][f]} \ {None})
    BY <1>2 DEF PushAccepted, With
  <2>2. \A f \in File : request[p][f] \in {None} \cup sent[f]
    BY DEF Posted, Asked
  <2>. QED  BY <1>1, <2>1, <2>2 DEF Promise!Deliver
<1>3. CASE Handle
  <2>1. \A f \in File : /\ hydrus[f] \subseteq hydrus'[f]
                        /\ hydrus'[f] \subseteq hydrus[f] \cup sent[f]
    BY <1>3 DEF Handle, TypeOK
  <2>. QED  BY <1>1, <2>1 DEF Promise!Deliver
<1>. QED  BY <1>2, <1>3

\* A save decides tags or acknowledges deliveries, never both at once.
LEMMA SavePromises ==
  ASSUME TypeOK, Backed, NEW p \in Proc, Fits(p), p \notin DryRun => Kept(p), Save(p),
         UNCHANGED <<sent, hydrus>>
  PROVE  Promise!Next \/ UNCHANGED <<tags, sent, hydrus, ledger>>
<1>1. CASE p \in DryRun
  BY <1>1 DEF Save
<1>2. CASE p \notin DryRun
  <2>. DEFINE o == pending[p]
              W == {f \in File : o[f].tags # None}
              A == {f \in File : o[f].pushed # None}
  <2>1. /\ tags' = [f \in File |-> Coalesce(o[f].tags, tags[f])]
        /\ ledger' = [f \in File |-> Coalesce(o[f].pushed, ledger[f])]
    BY <1>2 DEF Save, Record, RecordTags, RecordPush
  <2>2. \A f \in File : o[f].tags \in Stored /\ o[f].pushed \in Stored
    BY DEF TypeOK, Outcome
  <2>3. CASE A = {}
    <3>. DEFINE new == [f \in W |-> o[f].tags]
    <3>1. new \in [W -> TagSet]
      BY <2>2 DEF Stored
    <3>2. tags' = [f \in File |-> IF f \in W THEN new[f] ELSE tags[f]]
      BY <2>1 DEF Coalesce
    <3>3. ledger' = ledger
      <4>1. \A f \in File : Coalesce(o[f].pushed, ledger[f]) = ledger[f]
        BY <2>3 DEF Coalesce
      <4>. QED  BY <2>1, <4>1 DEF TypeOK
    <3>. HIDE DEF new, W
    <3>4. W \in SUBSET File
      BY DEF W
    <3>. QED  BY <3>1, <3>2, <3>3, <3>4 DEF Promise!Next, Promise!Want
  <2>4. CASE A # {}
    <3>1. \A f \in File : o[f].tags = None
      BY <2>4 DEF Fits
    <3>2. tags' = tags
      <4>1. \A f \in File : Coalesce(o[f].tags, tags[f]) = tags[f]
        BY <3>1 DEF Coalesce
      <4>. QED  BY <2>1, <4>1 DEF TypeOK
    <3>3. ASSUME NEW f \in A
          PROVE  o[f].pushed = tags[f] /\ tags[f] \in hydrus[f]
      <4>1. o[f].pushed = candidates[p][f] /\ candidates[p][f] # None
        BY DEF Fits
      <4>2. candidates[p][f] \in {tags[f], o[f].tags}
        BY <1>2, <4>1 DEF Kept
      <4>3. o[f].pushed \in hydrus[f]
        BY DEF Backed, OutcomesBacked
      <4>. QED  BY <3>1, <4>1, <4>2, <4>3
    <3>4. ledger' = [f \in File |-> IF f \in A THEN tags[f] ELSE ledger[f]]
      <4>1. \A f \in File : Coalesce(o[f].pushed, ledger[f])
                              = IF f \in A THEN tags[f] ELSE ledger[f]
        BY <3>3 DEF Coalesce
      <4>. QED  BY <2>1, <4>1
    <3>5. A \subseteq {f \in File : tags[f] \in hydrus[f]}
      BY <3>3
    <3>. HIDE DEF A
    <3>. QED  BY <3>2, <3>4, <3>5 DEF Promise!Next, Promise!Acknowledge
  <2>. QED  BY <2>3, <2>4
<1>. QED  BY <1>1, <1>2

\* Every step of the only process is a step of the ledger, or none.
LEMMA NextPromised ==
  ASSUME TypeOK, Backed, NEW p \in Proc, Proc = {p}, Fits(p),
         p \notin DryRun => Kept(p), Due(p), Posted(p), [Next]_vars
  PROVE  Promise!Next \/ UNCHANGED <<tags, sent, hydrus, ledger>>
<1>1. CASE Quiet(p)
  BY <1>1, QuietIsQuiet DEF data
<1>2. CASE ReadSucceeds(p) \/ Derive(p)
  BY <1>2 DEF ReadSucceeds, Derive, dbVars, worldVars
<1>3. CASE Send(p)
  BY <1>3, SendRequests DEF Promise!Next
<1>4. CASE PushAccepted(p) \/ Handle
  BY <1>4, NextType, HydrusDelivers DEF Promise!Next
<1>5. CASE SaveChunk(p) \/ SaveDerived(p) \/ SavePush(p) \/ Finish(p)
  <2>1. UNCHANGED <<sent, hydrus>>
    BY <1>5 DEF SaveChunk, SaveDerived, SavePush, Finish
  <2>2. Save(p) \/ UNCHANGED <<tags, ledger>>
    BY <1>5 DEF SaveChunk, SaveDerived, SavePush, Finish, SaveFails, dbVars
  <2>. QED  BY <2>1, <2>2, SavePromises
<1>6. CASE Cancel(p) \/ Kill(p) \/ LibraryChanges \/ Upgrade \/ UNCHANGED vars
  BY <1>6 DEF Cancel, Kill, LibraryChanges, Upgrade, vars, dbVars, worldVars
<1>. QED  BY <1>1, <1>2, <1>3, <1>4, <1>5, <1>6 DEF Next, Step, Quiet

\* The tagger implements TagLedger: Hydrus is asked for a tag set only while it is
\* stored for the file, whatever Hydrus adds, however late, was asked for, and the
\* ledger says so only once it was added, however runs of one process at a time
\* fail, are cancelled or killed.  (The safety part of KeepsPromise.)
THEOREM PromiseIsKept ==
  ASSUME NEW p \in Proc, Proc = {p}
  PROVE  Spec => Promise!Spec
<1>1. Init => Promise!Init
  BY DEF Init, Promise!Init
<1>2. Init => Due(p) /\ Posted(p)
  BY DEF Init, Due, Sending, Posted, Asked, NoRequest
<1>3. TypeOK /\ AllFit /\ ProgressKept /\ Due(p) /\ [Next]_vars => Due(p)'
  BY KeptIsKept, NextDue DEF AllFit
<1>4. TypeOK /\ Backed /\ AllFit /\ ProgressKept /\ Due(p) /\ Posted(p) /\ [Next]_vars =>
        [Promise!Next]_(Promise!ledgerVars)
  BY KeptIsKept, NextPromised DEF AllFit, Promise!ledgerVars
<1>5. TypeOK /\ Posted(p) /\ [Next]_vars => Posted(p)'
  BY NextPosted
<1>. QED
  BY <1>1, <1>2, <1>3, <1>4, <1>5, TypeCorrect, BackedAlways, MemoryFits, ProgressIsKept, PTL
  DEF Spec, Promise!Spec

-----------------------------------------------------------------------------
\* A clean run leaves nothing undone.

\* What a process that has derived holds as a candidate is what a save stores.
LEMMA SavedCandidate ==
  ASSUME TypeOK, NEW p \in Proc \ DryRun, Fits(p), Kept(p), Save(p), NEW f \in File
  PROVE  /\ candidates[p][f] # None => tags'[f] = candidates[p][f]
         /\ tags[f] # None => tags'[f] # None
<1>1. tags'[f] = Coalesce(pending[p][f].tags, tags[f])
  BY Saved
<1>2. /\ pending[p][f].tags \in {None, candidates[p][f]}
      /\ candidates[p][f] # None => candidates[p][f] \in {tags[f], pending[p][f].tags}
  BY DEF Fits, Kept
<1>. QED  BY <1>1, <1>2 DEF Coalesce

\* Once what was derived is saved, saving changes no tags.
LEMMA SavedLater ==
  ASSUME TypeOK, NEW p \in Proc \ DryRun, Fits(p), Save(p), NEW f \in File,
         pending[p][f].tags = None
  PROVE  tags'[f] = tags[f]
BY Saved DEF Coalesce

\* Steps after which Clean and Current claim nothing, or nothing new.
LEMMA CleanNowhere ==
  ASSUME TypeOK, NEW p \in Proc,
         \/ Start(p) \/ Discover(p) \/ Resolve(p) \/ Identify(p) \/ Upsert(p)
         \/ SkipDerive(p) \/ AbandonDerive(p) \/ PushFails(p) \/ StageFails(p)
         \/ Finish(p) \/ Kill(p)
  PROVE  Clean(p)' /\ Current(p)'
<1>1. \/ pc'[p] \in {"idle", "discover", "resolve", "identify", "upsert", "states"}
      \/ pc'[p] = "final" /\ status'[p] # "running"
      \/ files'[p] = {}
      \/ flawed'[p]
  <2>. USE DEF Goto, TypeOK, Fail, Blame
  <2>1. CASE Start(p) \/ Discover(p) \/ Resolve(p) \/ Identify(p) \/ Upsert(p)
    BY <2>1 DEF Start, Discover, Resolve, Identify, Upsert
  <2>2. CASE SkipDerive(p) \/ AbandonDerive(p) \/ PushFails(p) \/ StageFails(p)
    BY <2>2 DEF SkipDerive, AbandonDerive, PushFails, StageFails
  <2>3. CASE Finish(p) \/ Kill(p)
    BY <2>3 DEF Finish, Kill, Forget
  <2>. QED  BY <2>1, <2>2, <2>3
<1>. QED  BY <1>1 DEF Clean, Current, Sending

\* Steps that leave what Clean speaks of alone.
LEMMA StaysClean ==
  ASSUME NEW p \in Proc, Clean(p),
         UNCHANGED <<pc, status, flawed, files, work, outdated, candidates, pending,
                     tags, ledger>>
  PROVE  Clean(p)'
BY DEF Clean

\* A save that fails ends the run, and the run is not a clean one.
LEMMA FailedIsNotClean ==
  ASSUME TypeOK, NEW p \in Proc, Fail(p)
  PROVE  Clean(p)' /\ Current(p)'
BY DEF Fail, Goto, TypeOK, Clean, Current, Sending

\* Every step of the only process keeps Clean.
LEMMA NextClean ==
  ASSUME TypeOK, Backed, NEW p \in Proc \ DryRun, Proc = {p}, Fits(p), Kept(p), Due(p),
         Clean(p), [Next]_vars
  PROVE  Clean(p)'
<1>. USE DEF Sending
<1>0. files[p] \subseteq File
  BY DEF TypeOK
<1>1. CASE \/ Start(p) \/ Discover(p) \/ Resolve(p) \/ Identify(p) \/ Upsert(p)
           \/ SkipDerive(p) \/ AbandonDerive(p) \/ PushFails(p) \/ StageFails(p)
           \/ Finish(p) \/ Kill(p)
  BY <1>1, CleanNowhere
<1>2. CASE ReadStates(p)
  <2>1. pc'[p] = "extract" /\ UNCHANGED <<files, tags>>
        /\ outdated'[p] = {f \in files[p] : state[f].derive < build.derive}
    BY <1>2 DEF ReadStates, Goto, TypeOK, dbVars
  <2>2. ASSUME NEW f \in File PROVE state[f].derive < build.derive \/ tags[f] # None
    <3>1. state[f].derive \in Nat /\ build.derive \in Nat \ {0}
      BY BoundAssumption DEF TypeOK, Versions, DeriveVersion
    <3>2. state[f].derive > 0 => tags[f] # None
      BY DEF Backed, VersionsBacked
    <3>. QED  BY <3>1, <3>2
  <2>. QED  BY <1>0, <2>1, <2>2 DEF Clean
<1>3. CASE NextChunk(p) \/ BeginRead(p) \/ ReadSucceeds(p) \/ ReadFails(p)
  <2>1. /\ pc[p] \in {"extract", "reading"} /\ pc'[p] = "reading"
        /\ UNCHANGED <<files, tags, outdated>>
    BY <1>3 DEF NextChunk, BeginRead, ReadSucceeds, ReadFails, Goto, TypeOK, dbVars
  <2>2. flawed[p] => flawed'[p]
    BY <1>3 DEF NextChunk, BeginRead, ReadSucceeds, ReadFails, Blame, TypeOK
  <2>. QED  BY <2>1, <2>2 DEF Clean
<1>4. CASE SaveChunk(p)
  <2>1. CASE Fail(p)
    BY <2>1, FailedIsNotClean
  <2>2. CASE Save(p) /\ Goto(p, "extract")
    <3>1. pc[p] = "reading" /\ pc'[p] = "extract" /\ UNCHANGED <<flawed, files, outdated>>
      BY <1>4, <2>2 DEF SaveChunk, ChunkDone, Goto, TypeOK
    <3>2. \A f \in File : tags[f] # None => tags'[f] # None
      BY <2>2, SavedCandidate
    <3>. QED  BY <1>0, <3>1, <3>2 DEF Clean
  <2>. QED  BY <1>4, <2>1, <2>2 DEF SaveChunk
<1>5. CASE PlanDerive(p) \/ Fetch(p)
  <2>1. /\ pc[p] \in {"extract", "fetch"}
        /\ UNCHANGED <<flawed, files, outdated, extracted, tags, candidates>>
        /\ pc'[p] = "fetch" \/ (pc'[p] = "derive" /\ work'[p] = Todo(p))
    BY <1>5 DEF PlanDerive, Fetch, FetchOrDerive, Goto, TypeOK, dbVars
  <2>2. \A f \in files[p] : f \in outdated[p] => f \in Todo(p)
    BY DEF Todo
  <2>. QED  BY <2>1, <2>2 DEF Clean
<1>6. CASE Derive(p)
  <2>1. PICK f \in work[p] :
          /\ work' = [work EXCEPT ![p] = @ \ {f}]
          /\ candidates' = [candidates EXCEPT ![p][f] =
                              TagsOf(f, build.derive, chunks[f], fetched[p][f])]
          /\ fetched[p][f] # None
    BY <1>6 DEF Derive
  <2>2. TagsOf(f, build.derive, chunks[f], fetched[p][f]) # None
    <3>1. f \in File /\ fetched[p][f] \in Revision /\ build.derive \in DeriveVersion
      BY <2>1 DEF TypeOK
    <3>2. chunks[f] \in {0} \cup ExtractVersion
      BY <3>1, BoundAssumption DEF TypeOK, ExtractVersion
    <3>. QED  BY <3>1, <3>2, TagAssumption
  <2>3. /\ work'[p] = work[p] \ {f} /\ candidates'[p][f] # None
        /\ \A g \in File : g # f => candidates'[p][g] = candidates[p][g]
    BY <2>1, <2>2 DEF TypeOK
  <2>4. pc[p] = "derive" /\ UNCHANGED <<pc, flawed, files, tags>>
    BY <1>6 DEF Derive, dbVars
  <2>. QED  BY <1>0, <2>3, <2>4 DEF Clean
<1>7. CASE SaveDerived(p)
  <2>1. CASE Fail(p)
    BY <2>1, FailedIsNotClean
  <2>2. CASE Save(p) /\ Goto(p, "unpushed")
    <3>1. /\ pc[p] = "derive" /\ pc'[p] = "unpushed" /\ work[p] = {}
          /\ UNCHANGED <<flawed, files, candidates>>
      BY <1>7, <2>2 DEF SaveDerived, Goto, TypeOK
    <3>2. \A f \in File : tags[f] # None \/ candidates[p][f] # None => tags'[f] # None
      BY <2>2, SavedCandidate
    <3>. QED  BY <1>0, <3>1, <3>2 DEF Clean
  <2>. QED  BY <1>7, <2>1, <2>2 DEF SaveDerived
<1>8. CASE ReadUnpushed(p)
  <2>1. /\ pc[p] = "unpushed" /\ pc'[p] = "ledger"
        /\ UNCHANGED <<flawed, files, tags, ledger>>
    BY <1>8 DEF ReadUnpushed, Goto, TypeOK, dbVars
  <2>2. \A f \in files[p] : tags[f] # None =>
          candidates'[p][f] # None \/ tags[f] \in {Empty, ledger[f]}
    <3>1. \A f \in File : candidates'[p][f] =
            IF f \in NotDerived(p) /\ tags[f] \notin {Empty, None, ledger[f]}
            THEN tags[f] ELSE candidates[p][f]
      BY <1>8 DEF ReadUnpushed, TypeOK
    <3>. QED  BY <1>0, <3>1 DEF NotDerived
  <2>. QED  BY <2>1, <2>2 DEF Clean
<1>9. CASE ReadLedger(p)
  <2>1. /\ pc[p] = "ledger" /\ work'[p] = Needing(p)
        /\ \/ pc'[p] = "service"
           \/ pc'[p] = "final" /\ Needing(p) = {}
        /\ UNCHANGED <<flawed, files, tags, ledger, pending, candidates>>
    BY <1>9 DEF ReadLedger, Goto, TypeOK, dbVars
  <2>2. \A f \in File : pending[p][f].tags = None /\ pending[p][f].pushed = None
    BY <2>1 DEF Fits, Unsent
  <2>3. \A f \in File : candidates[p][f] # None => candidates[p][f] = tags[f]
    BY <2>2 DEF Kept
  <2>4. \A f \in File \ Needing(p) : candidates[p][f] # None => tags[f] \in {Empty, ledger[f]}
    BY <2>3 DEF Needing, Candidates
  <2>5. ~flawed[p] => \A f \in files[p] : f \in Needing(p) \/ tags[f] \in {Empty, ledger[f]}
    BY <1>0, <2>1, <2>4 DEF Clean
  <2>. QED  BY <1>0, <2>1, <2>2, <2>5 DEF Clean
<1>10. CASE ResolveService(p) \/ Send(p)
  <2>1. /\ pc[p] \in {"service", "push"} /\ pc'[p] \in {"push", "request"}
        /\ UNCHANGED <<flawed, files, tags, ledger, work, pending>>
    BY <1>10 DEF ResolveService, Send, Goto, TypeOK, dbVars, memory
  <2>. QED  BY <2>1 DEF Clean
<1>11. CASE PushAccepted(p)
  <2>1. \A f \in File : pending'[p][f].pushed = IF f \in Asked(p) THEN request[p][f]
                                                ELSE pending[p][f].pushed
    BY <1>11 DEF PushAccepted, TypeOK, Outcome
  <2>2. work'[p] = work[p] \ Asked(p)
    BY <1>11 DEF PushAccepted, TypeOK
  <2>3. pc[p] = "request" /\ pc'[p] = "savepush" /\ UNCHANGED <<flawed, files, tags, ledger>>
    BY <1>11 DEF PushAccepted, Goto, TypeOK, dbVars
  <2>4. \A f \in Asked(p) : f \in work[p] /\ request[p][f] = tags[f]
    BY <2>3 DEF Fits, Due
  <2>. QED  BY <1>0, <2>1, <2>2, <2>3, <2>4 DEF Clean
<1>12. CASE SavePush(p)
  <2>1. CASE Fail(p)
    BY <2>1, FailedIsNotClean
  <2>2. CASE Save(p) /\ Goto(p, IF work[p] = {} THEN "final" ELSE "push")
    <3>1. pc[p] = "savepush" /\ UNCHANGED <<flawed, files, candidates, work>>
      BY <1>12 DEF SavePush
    <3>2. pc'[p] = "push" \/ (pc'[p] = "final" /\ work[p] = {})
      BY <2>2 DEF Goto, TypeOK
    <3>3. ASSUME NEW f \in File
          PROVE  /\ tags'[f] = tags[f]
                 /\ tags[f] \in {ledger[f], pending[p][f].pushed} /\ tags[f] # None =>
                      tags[f] = ledger'[f]
                 /\ pending'[p][f].tags = None /\ pending'[p][f].pushed = None
      <4>1. pending[p][f].tags = None
        BY <3>1 DEF Fits
      <4>2. tags'[f] = tags[f]
        BY <2>2, <4>1, SavedLater
      <4>3. ledger'[f] = Coalesce(pending[p][f].pushed, ledger[f])
        BY <2>2, Saved
      <4>4. pending[p][f].pushed \in {None, tags[f]}
        <5>1. pending[p][f].pushed \in {None, candidates[p][f]}
          BY DEF Fits
        <5>2. candidates[p][f] # None => candidates[p][f] = tags[f]
          BY <4>1 DEF Kept
        <5>. QED  BY <5>1, <5>2
      <4>5. pending'[p][f].tags = None /\ pending'[p][f].pushed = None
        BY <2>2, Saved DEF NoOutcome
      <4>. QED  BY <4>2, <4>3, <4>4, <4>5 DEF Coalesce
    <3>. QED  BY <1>0, <3>1, <3>2, <3>3 DEF Clean
  <2>. QED  BY <1>12, <2>1, <2>2 DEF SavePush
<1>13. CASE Cancel(p) \/ Handle \/ LibraryChanges \/ Upgrade \/ UNCHANGED vars
  BY <1>13, StaysClean DEF Cancel, Handle, LibraryChanges, Upgrade, vars, dbVars, memory, procVars
<1>. QED
  BY <1>1, <1>2, <1>3, <1>4, <1>5, <1>6, <1>7, <1>8, <1>9, <1>10, <1>11, <1>12, <1>13
  DEF Next, Step

\* The only step that ends a run cleanly is its last save.
LEMMA EndsByFinish ==
  ASSUME TypeOK, NEW p \in Proc, Proc = {p}, InRun(p), [Next]_vars, EndsClean(p)
  PROVE  /\ pc[p] = "final" /\ status[p] = "running" /\ ~flawed[p]
         /\ Save(p) /\ UNCHANGED <<build, chunks>>
<1>1. pc[p] # "idle" /\ pc'[p] = "idle" /\ status'[p] = "completed" /\ ~flawed[p]
  BY DEF EndsClean
<1>2. ASSUME Quiet(p) PROVE FALSE
  BY <1>1, <1>2, QuietIsQuiet
<1>3. ASSUME ReadSucceeds(p) \/ Derive(p) \/ Send(p) \/ PushAccepted(p) PROVE FALSE
  BY <1>1, <1>3 DEF ReadSucceeds, Derive, Send, PushAccepted, Goto, TypeOK
<1>4. ASSUME SaveChunk(p) \/ SaveDerived(p) \/ SavePush(p) PROVE FALSE
  BY <1>1, <1>4 DEF SaveChunk, SaveDerived, SavePush, Goto, Fail, TypeOK
<1>5. ASSUME Cancel(p) \/ Kill(p) PROVE FALSE
  BY <1>1, <1>5 DEF Cancel, Kill, TypeOK
<1>6. ASSUME Handle \/ LibraryChanges \/ Upgrade \/ UNCHANGED vars PROVE FALSE
  BY <1>1, <1>6 DEF Handle, LibraryChanges, Upgrade, vars, procVars
<1>7. Finish(p)
  BY <1>2, <1>3, <1>4, <1>5, <1>6 DEF Next, Step, Quiet
<1>8. CASE SaveFails(p) /\ status' = [status EXCEPT ![p] = "failed"]
  BY <1>1, <1>8 DEF TypeOK
<1>9. CASE Save(p) /\ status' = [status EXCEPT ![p] = IF @ = "running" THEN "completed" ELSE @]
  <2>1. pc[p] = "final" /\ UNCHANGED build
    BY <1>7 DEF Finish
  <2>2. UNCHANGED chunks
    BY <1>9 DEF Save
  <2>3. status[p] = "running"
    BY <1>1, <1>9 DEF TypeOK, InRun
  <2>. QED  BY <1>1, <1>9, <2>1, <2>2, <2>3
<1>. QED  BY <1>7, <1>8, <1>9 DEF Finish

\* Every step of the only process keeps Current, where every run derives every file.
LEMMA NextCurrent ==
  ASSUME TypeOK, NEW p \in Proc \ DryRun, Proc = {p}, Rederive, Fits(p), Kept(p), Current(p),
         [Next]_vars
  PROVE  Current(p)'
<1>. USE DEF Sending
<1>0. files[p] \subseteq File
  BY DEF TypeOK
<1>1. CASE \/ Start(p) \/ Discover(p) \/ Resolve(p) \/ Identify(p) \/ Upsert(p)
           \/ SkipDerive(p) \/ AbandonDerive(p) \/ PushFails(p) \/ StageFails(p)
           \/ Finish(p) \/ Kill(p)
  BY <1>1, CleanNowhere
<1>2. CASE \/ ReadStates(p) \/ NextChunk(p) \/ BeginRead(p) \/ ReadSucceeds(p) \/ ReadFails(p)
           \/ SaveChunk(p) /\ Goto(p, "extract")
  <2>1. pc'[p] \in {"extract", "reading"}
    BY <1>2 DEF ReadStates, NextChunk, BeginRead, ReadSucceeds, ReadFails, Goto, TypeOK
  <2>. QED  BY <2>1 DEF Current
<1>3. CASE PlanDerive(p) \/ Fetch(p)
  <2>1. (pc'[p] = "fetch" \/ (pc'[p] = "derive" /\ work'[p] = Todo(p))) /\ UNCHANGED files
    BY <1>3 DEF PlanDerive, Fetch, FetchOrDerive, Goto, TypeOK
  <2>2. Todo(p) = files[p]
    BY DEF Todo
  <2>. QED  BY <2>1, <2>2 DEF Current
<1>4. CASE Derive(p)
  <2>1. PICK f \in work[p] :
          /\ work' = [work EXCEPT ![p] = @ \ {f}]
          /\ candidates' = [candidates EXCEPT ![p][f] =
                              TagsOf(f, build.derive, chunks[f], fetched[p][f])]
          /\ fetched[p][f] # None
    BY <1>4 DEF Derive
  <2>2. f \in File
    BY DEF TypeOK
  <2>3. /\ work'[p] = work[p] \ {f}
        /\ candidates'[p][f] = TagsOf(f, build.derive, chunks[f], fetched[p][f])
        /\ \A g \in File : g # f => candidates'[p][g] = candidates[p][g]
    BY <2>1, <2>2 DEF TypeOK
  <2>4. pc[p] = "derive" /\ UNCHANGED <<pc, flawed, files, fetched, build, chunks>>
    BY <1>4 DEF Derive, dbVars, worldVars
  <2>5. \A g \in files[p] : Derived(p, g, candidates[p][g]) =>
          Derived(p, g, candidates[p][g])'
    BY <1>0, <2>1, <2>3, <2>4 DEF Derived
  <2>6. Derived(p, f, candidates[p][f])'
    BY <2>1, <2>3, <2>4 DEF Derived
  <2>. QED  BY <2>3, <2>4, <2>5, <2>6 DEF Current
<1>5. CASE SaveDerived(p) /\ Save(p) /\ Goto(p, "unpushed")
  <2>1. /\ pc[p] = "derive" /\ pc'[p] = "unpushed" /\ work[p] = {}
        /\ UNCHANGED <<flawed, files, candidates, fetched, build, chunks>>
    BY <1>5 DEF SaveDerived, Save, Goto, TypeOK
  <2>2. ASSUME NEW f \in File, Derived(p, f, candidates[p][f])
        PROVE  Derived(p, f, tags[f])'
    <3>1. fetched[p][f] \in Revision /\ build.derive \in DeriveVersion
      BY <2>2 DEF Derived, TypeOK
    <3>2. chunks[f] \in {0} \cup ExtractVersion
      BY BoundAssumption DEF TypeOK, ExtractVersion
    <3>3. candidates[p][f] # None
      BY <2>2, <3>1, <3>2, TagAssumption DEF Derived
    <3>4. tags'[f] = candidates[p][f]
      BY <1>5, <3>3, SavedCandidate
    <3>. QED  BY <2>1, <2>2, <3>4 DEF Derived
  <2>. QED  BY <1>0, <2>1, <2>2 DEF Current
<1>6. CASE \/ ReadUnpushed(p) \/ ReadLedger(p) \/ ResolveService(p) \/ Send(p)
           \/ PushAccepted(p)
  <2>1. /\ pc[p] \in {"unpushed", "ledger"} \cup Sending
        /\ UNCHANGED <<flawed, files, tags, fetched, build, chunks>>
        /\ pc'[p] # "derive"
    BY <1>6 DEF ReadUnpushed, ReadLedger, ResolveService, Send, PushAccepted, dbVars,
       worldVars, memory, Goto, TypeOK
  <2>. QED  BY <2>1 DEF Current, Derived
<1>7. CASE SavePush(p) /\ Save(p)
  <2>1. pc[p] = "savepush" /\ UNCHANGED <<flawed, files, fetched, build, chunks>>
    BY <1>7 DEF SavePush, Save
  <2>2. \A f \in File : tags'[f] = tags[f]
    BY <1>7, <2>1, SavedLater DEF Fits
  <2>3. pc'[p] \in {"push", "final"}
    BY <1>7 DEF SavePush, Goto, Fail, TypeOK
  <2>. QED  BY <1>0, <2>1, <2>2, <2>3 DEF Current, Derived
<1>8. CASE (SaveChunk(p) \/ SaveDerived(p) \/ SavePush(p)) /\ Fail(p)
  BY <1>8, FailedIsNotClean
<1>9. CASE Cancel(p) \/ Handle \/ LibraryChanges \/ UNCHANGED vars
  BY <1>9 DEF Cancel, Handle, LibraryChanges, vars, dbVars, memory, worldVars, procVars, Current,
     Derived
<1>10. CASE Upgrade
  BY <1>10 DEF Upgrade, procVars, Current
<1>11. CASE SaveChunk(p) \/ SaveDerived(p) \/ SavePush(p)
  BY <1>2, <1>5, <1>7, <1>8, <1>11 DEF SaveChunk, SaveDerived, SavePush
<1>. QED
  BY <1>1, <1>2, <1>3, <1>4, <1>6, <1>9, <1>10, <1>11 DEF Next, Step

\* All that is invariant of the only process p that uses the database.
RunInv(p) ==
  /\ AllFit /\ ProgressKept /\ Due(p)
  /\ p \notin DryRun => Clean(p) /\ (Rederive => Current(p))

\* Initially no run has got anywhere.
LEMMA InitRun == ASSUME NEW p \in Proc, Init PROVE RunInv(p)
<1>1. Due(p) /\ Clean(p) /\ Current(p)
  BY DEF Init, Due, Clean, Current, Sending
<1>. QED  BY <1>1, InitFits, InitKept DEF RunInv

\* Every step keeps it.
LEMMA NextRun ==
  ASSUME TypeOK, Backed, NEW p \in Proc, Proc = {p}, RunInv(p), [Next]_vars
  PROVE  RunInv(p)'
<1>1. AllFit' /\ Fits(p) /\ InRun(p)
  BY NextFits DEF RunInv, AllFit
<1>2. p \notin DryRun => Kept(p) /\ Kept(p)'
  BY <1>1, KeptIsKept, NextKept DEF RunInv
<1>3. ProgressKept'
  BY <1>2 DEF ProgressKept, Kept
<1>4. Due(p)'
  BY <1>1, <1>2, NextDue DEF RunInv
<1>5. p \notin DryRun => Clean(p)'
  BY <1>1, <1>2, NextClean DEF RunInv
<1>6. p \notin DryRun /\ Rederive => Current(p)'
  BY <1>1, <1>2, NextCurrent DEF RunInv
<1>. QED  BY <1>1, <1>3, <1>4, <1>5, <1>6 DEF RunInv

\* A step that ends a clean run leaves the tables as they ought to be.
LEMMA EndsWell ==
  ASSUME TypeOK, NEW p \in Proc \ DryRun, Proc = {p}, RunInv(p), [Next]_vars
  PROVE  Delivers(p) /\ (Rederive => IsCurrent(p))
<1>. SUFFICES ASSUME EndsClean(p), NEW f \in files[p]
              PROVE  /\ tags'[f] # None /\ tags'[f] \in {Empty, ledger'[f]}
                     /\ Rederive => \E m \in Revision :
                          /\ fetched[p][f] = m
                          /\ tags'[f] = TagsOf(f, build.derive, chunks[f], m)
  BY DEF Delivers, IsCurrent
<1>1. pc[p] = "final" /\ status[p] = "running" /\ ~flawed[p] /\ Save(p)
  BY EndsByFinish DEF RunInv, AllFit
<1>2. /\ tags[f] # None /\ tags[f] \in {Empty, ledger[f]}
      /\ pending[p][f].tags = None /\ pending[p][f].pushed = None
  BY <1>1 DEF RunInv, Clean
<1>3. f \in File
  BY DEF TypeOK
<1>4. tags'[f] = tags[f] /\ ledger'[f] = ledger[f]
  BY <1>1, <1>2, <1>3, Saved DEF Coalesce
<1>5. CASE Rederive
  <2>1. Derived(p, f, tags[f])
    BY <1>1, <1>5 DEF RunInv, Current
  <2>2. fetched[p][f] \in Revision
    BY <1>3, <2>1 DEF TypeOK, Derived
  <2>. QED  BY <1>2, <1>4, <2>1, <2>2 DEF Derived
<1>. QED  BY <1>2, <1>4, <1>5

\* The only process and its database are as RunInv says in every state.
LEMMA RunInvariance ==
  ASSUME NEW only \in Proc, Proc = {only}
  PROVE  Spec => []RunInv(only)
<1>1. TypeOK /\ Backed /\ RunInv(only) /\ [Next]_vars => RunInv(only)'
  BY NextRun
<1>2. Init => RunInv(only)
  BY InitRun
<1>. QED  BY <1>1, <1>2, TypeCorrect, BackedAlways, PTL DEF Spec

\* After a clean run every file it knows of has tags, and they are in the ledger
\* unless they are empty: no failed push of an earlier run stays behind, which is
\* what UnpushedTags is for.  For one process at a time.
THEOREM CleanRunsDeliver ==
  ASSUME NEW only \in Proc, Proc = {only}
  PROVE  Spec => CleanRunDelivers
<1>. DEFINE A == \A p \in Proc \ DryRun : Delivers(p)
<1>1. TypeOK /\ RunInv(only) /\ [Next]_vars => [A]_vars
  BY EndsWell
<1>2. Spec => [][A]_vars
  BY <1>1, TypeCorrect, RunInvariance, PTL DEF Spec
<1>. QED  BY <1>2 DEF CleanRunDelivers

\* After a clean run of a tagger that derives again on every run (RederiveEveryRun),
\* the stored tags of every file are those the installed binary derives from the
\* metadata fetched in this run.  For one process at a time.
THEOREM CleanRunsAreCurrent ==
  ASSUME NEW only \in Proc, Proc = {only}, Rederive
  PROVE  Spec => CleanRunIsCurrent
<1>. DEFINE A == \A p \in Proc \ DryRun : IsCurrent(p)
<1>1. TypeOK /\ RunInv(only) /\ [Next]_vars => [A]_vars
  BY EndsWell
<1>2. Spec => [][A]_vars
  BY <1>1, TypeCorrect, RunInvariance, PTL DEF Spec
<1>. QED  BY <1>2 DEF CleanRunIsCurrent

-----------------------------------------------------------------------------
(* With power losses: what was shown of the tables is true of what is on   *)
(* the disk as well, and what was shown of runs holds of those that the    *)
(* power lets finish.                                                      *)

DurableType ==
  durable \in [refs : SUBSET File, state : [File -> Versions],
               chunks : [File -> 0..MaxExtractVersion], tags : [File -> Stored],
               ledger : [File -> Stored]]

PowerInv == TypeOK /\ Backed /\ DurableType /\ DurableBacked

\* Hydrus loses nothing it was given, and no older binary is installed.
LEMMA WorldGrows ==
  ASSUME TypeOK, [Next]_vars
  PROVE  /\ \A f \in File : hydrus[f] \subseteq hydrus'[f]
         /\ build'.extract >= build.extract
         /\ build'.derive >= build.derive
<1>0. build.extract \in Nat /\ build.derive \in Nat
  BY BoundAssumption DEF TypeOK, ExtractVersion, DeriveVersion
<1>1. CASE UNCHANGED <<hydrus, build>>
  BY <1>0, <1>1
<1>2. ASSUME NEW p \in Proc, Step(p)
      PROVE  UNCHANGED build /\ \A f \in File : hydrus[f] \subseteq hydrus'[f]
  <2>1. CASE Quiet(p)
    BY <2>1, QuietIsQuiet DEF data
  <2>2. CASE PushAccepted(p)
    BY <2>2, WithType DEF PushAccepted, TypeOK
  <2>3. CASE ReadSucceeds(p) \/ Derive(p) \/ Send(p)
    BY <2>3 DEF ReadSucceeds, Derive, Send, worldVars
  <2>4. CASE SaveChunk(p) \/ SaveDerived(p) \/ SavePush(p) \/ Finish(p)
    BY <2>4 DEF SaveChunk, SaveDerived, SavePush, Finish
  <2>. QED  BY <1>2, <2>1, <2>2, <2>3, <2>4 DEF Step, Quiet
<1>3. ASSUME NEW p \in Proc, Cancel(p) \/ Kill(p) PROVE UNCHANGED <<hydrus, build>>
  BY <1>3 DEF Cancel, Kill
<1>4. CASE Handle
  BY <1>0, <1>4 DEF Handle, TypeOK
<1>5. CASE LibraryChanges
  BY <1>1, <1>5 DEF LibraryChanges
<1>6. CASE Upgrade
  <2>1. UNCHANGED hydrus
    BY <1>6 DEF Upgrade
  <2>2. build' = [build EXCEPT !.extract = @ + 1] \/ build' = [build EXCEPT !.derive = @ + 1]
    BY <1>6 DEF Upgrade
  <2>3. build \in [extract : ExtractVersion, derive : DeriveVersion]
    BY DEF TypeOK
  <2>4. build'.extract >= build.extract /\ build'.derive >= build.derive
    BY <1>0, <2>2, <2>3
  <2>. QED  BY <2>1, <2>4
<1>7. CASE UNCHANGED vars
  BY <1>1, <1>7 DEF vars, worldVars
<1>. QED  BY <1>0, <1>1, <1>2, <1>3, <1>4, <1>5, <1>6, <1>7 DEF Next

\* A step of the taggers or of the world leaves the disk as it is, and backed.
LEMMA NextKeepsDisk ==
  ASSUME PowerInv, [Next]_vars, UNCHANGED durable
  PROVE  PowerInv'
<1>1. TypeOK' /\ Backed'
  BY NextType, NextBacked DEF PowerInv
<1>2. DurableType'
  BY DEF PowerInv, DurableType
<1>3. DurableBacked'
  <2>. SUFFICES ASSUME NEW f \in File
                PROVE  /\ durable.ledger[f] # None => durable.ledger[f] \in hydrus'[f]
                       /\ durable.state[f].extract <= durable.chunks[f]
                       /\ durable.state[f].derive > 0 => durable.tags[f] # None
                       /\ durable.state[f].extract <= build'.extract
                       /\ durable.state[f].derive <= build'.derive
                       /\ durable.chunks[f] <= build'.extract
    BY DEF DurableBacked
  <2>1. /\ durable.state[f].extract \in Nat /\ durable.state[f].derive \in Nat
        /\ durable.chunks[f] \in Nat
    BY BoundAssumption DEF PowerInv, DurableType, Versions
  <2>2. /\ build.extract \in Nat /\ build.derive \in Nat
        /\ build'.extract \in Nat /\ build'.derive \in Nat
    BY <1>1, BoundAssumption DEF PowerInv, TypeOK, ExtractVersion, DeriveVersion
  <2>3. /\ hydrus[f] \subseteq hydrus'[f]
        /\ build'.extract >= build.extract
        /\ build'.derive >= build.derive
    BY WorldGrows DEF PowerInv
  <2>. QED  BY <2>1, <2>2, <2>3 DEF PowerInv, DurableBacked
<1>. QED  BY <1>1, <1>2, <1>3 DEF PowerInv

\* What is synced is backed because the tables are.
LEMMA SyncKeepsDisk == PowerInv /\ Sync => PowerInv'
<1> SUFFICES ASSUME PowerInv, Sync PROVE PowerInv'
  OBVIOUS
<1>1. TypeOK' /\ Backed'
  <2>1. UNCHANGED vars
    BY DEF Sync
  <2>. QED  BY <2>1, NextType, NextBacked DEF PowerInv
<1>2. DurableType'
  BY DEF PowerInv, DurableType, Sync, Tables, TypeOK
<1>3. DurableBacked'
  <2>1. UNCHANGED <<hydrus, build>> /\ durable' = Tables
    BY DEF Sync, vars, worldVars
  <2>2. LedgerTruthful /\ VersionsBacked /\ VersionsCurrent
    BY DEF PowerInv, Backed
  <2>. QED  BY <2>1, <2>2 DEF DurableBacked, Tables, LedgerTruthful, VersionsBacked,
            VersionsCurrent
<1>. QED  BY <1>1, <1>2, <1>3 DEF PowerInv

\* After a power loss the tables are backed because the disk was.
LEMMA PowerLossKeepsDisk == PowerInv /\ PowerLoss => PowerInv'
<1> SUFFICES ASSUME PowerInv, PowerLoss PROVE PowerInv'
  OBVIOUS
<1>. TypeOK /\ Backed /\ DurableType /\ DurableBacked
  BY DEF PowerInv
<1>1. TypeOK'
  <2>1. /\ NothingPending \in [File -> Outcome]
        /\ [f \in File |-> None] \in [File -> Stored]
        /\ [f \in File |-> None] \in [File -> Revision \cup {None}]
        /\ "idle" \in Stage
    BY DEF NothingPending, NoOutcome, Outcome, Stored, Stage
  <2>2. /\ refs' \subseteq File
        /\ state' \in [File -> Versions]
        /\ chunks' \in [File -> 0..MaxExtractVersion]
        /\ tags' \in [File -> Stored]
        /\ ledger' \in [File -> Stored]
    BY DEF PowerLoss, DurableType
  <2>3. faults' \in 0..MaxFaults
    BY BoundAssumption DEF PowerLoss, Fault, TypeOK
  <2>4. /\ pc' \in [Proc -> Stage]
        /\ cancelled' \in [Proc -> BOOLEAN]
        /\ files' \in [Proc -> SUBSET File]
        /\ work' \in [Proc -> SUBSET File]
        /\ chunk' \in [Proc -> SUBSET File]
        /\ reading' \in [Proc -> SUBSET File]
        /\ free' \in [Proc -> Nat]
        /\ outdated' \in [Proc -> SUBSET File]
        /\ extracted' \in [Proc -> SUBSET File]
        /\ pushed' \in [Proc -> SUBSET File]
    BY <2>1, BoundAssumption DEF PowerLoss
  <2>5. /\ fetched' \in [Proc -> [File -> Revision \cup {None}]]
        /\ candidates' \in [Proc -> [File -> Stored]]
        /\ request' \in [Proc -> [File -> Stored]]
        /\ pending' \in [Proc -> [File -> Outcome]]
    BY <2>1 DEF PowerLoss, NoRequest
  <2>6. status' \in [Proc -> {"none", "running", "completed", "failed", "killed"}]
    BY DEF PowerLoss, TypeOK
  <2>7. UNCHANGED <<outside, flawed>>
    BY DEF PowerLoss
  <2>. QED  BY <2>2, <2>3, <2>4, <2>5, <2>6, <2>7 DEF TypeOK
<1>2. Backed'
  <2>1. /\ UNCHANGED <<hydrus, build, durable>>
        /\ state' = durable.state /\ chunks' = durable.chunks
        /\ tags' = durable.tags /\ ledger' = durable.ledger
        /\ pending' = [p \in Proc |-> NothingPending]
    BY DEF PowerLoss
  <2>2. LedgerTruthful' /\ VersionsBacked' /\ VersionsCurrent'
    BY <2>1 DEF DurableBacked, LedgerTruthful, VersionsBacked, VersionsCurrent
  <2>3. OutcomesBacked' /\ IdleHasNothing'
    BY <2>1 DEF OutcomesBacked, IdleHasNothing, NothingPending, NoOutcome
  <2>. QED  BY <2>2, <2>3 DEF Backed
<1>3. DurableType' /\ DurableBacked'
  <2>1. UNCHANGED <<hydrus, build, durable>>
    BY DEF PowerLoss
  <2>. QED  BY <2>1 DEF DurableType, DurableBacked
<1>. QED  BY <1>1, <1>2, <1>3 DEF PowerInv

\* In the beginning nothing is recorded, on the disk or off it.
LEMMA InitDisk == PowerInit => PowerInv
<1> SUFFICES ASSUME PowerInit PROVE PowerInv
  OBVIOUS
<1>1. TypeOK /\ Backed
  BY InitType, InitBacked DEF PowerInit
<1>2. DurableType
  BY <1>1 DEF PowerInit, DurableType, Tables, TypeOK
<1>3. DurableBacked
  BY <1>1 DEF PowerInit, DurableBacked, Tables, Backed, LedgerTruthful, VersionsBacked,
     VersionsCurrent
<1>. QED  BY <1>1, <1>2, <1>3 DEF PowerInv

\* Every step, a power loss included, keeps tables and disk backed.
LEMMA PowerNextInv == PowerInv /\ [PowerNext]_powerVars => PowerInv'
<1> SUFFICES ASSUME PowerInv, [PowerNext]_powerVars PROVE PowerInv'
  OBVIOUS
<1>1. CASE (Next /\ UNCHANGED durable) \/ UNCHANGED powerVars
  BY <1>1, NextKeepsDisk DEF powerVars
<1>. QED  BY <1>1, SyncKeepsDisk, PowerLossKeepsDisk DEF PowerNext

\* Tables and disk are well typed and backed in every state, whenever the power fails
\* (driver.go: WAL, synchronous NORMAL); the two theorems below are its parts.
THEOREM PowerInvariance == PowerSpec => []PowerInv
BY InitDisk, PowerNextInv, PTL DEF PowerSpec

\* What is on the disk never claims a push Hydrus did not get or work that is not
\* on the disk: the order in which host.go commits survives the power loss.
THEOREM DiskIsBacked == PowerSpec => []DurableBacked
<1>1. PowerInv => DurableBacked
  BY DEF PowerInv
<1>. QED  BY <1>1, PowerInvariance, PTL

\* The tables a tagger works with stay backed, power losses or not.
THEOREM BackedInSpiteOfPower == PowerSpec => []Backed
<1>1. PowerInv => Backed
  BY DEF PowerInv
<1>. QED  BY <1>1, PowerInvariance, PTL

-----------------------------------------------------------------------------
\* A power loss ends every run: no process is left with anything that could be
\* lost, sent or mistaken for done.
LEMMA PowerLossEndsRuns ==
  ASSUME TypeOK, PowerLoss, NEW p \in Proc
  PROVE  RunInv(p)'
<1>1. \A q \in Proc : /\ pc'[q] = "idle" /\ extracted'[q] = {} /\ pushed'[q] = {}
                      /\ candidates'[q] = [f \in File |-> None]
                      /\ pending'[q] = NothingPending
                      /\ request'[q] = NoRequest
  BY DEF PowerLoss
<1>2. \A q \in Proc, f \in File :
        /\ candidates'[q][f] = None
        /\ pending'[q][f].tags = None /\ pending'[q][f].pushed = None
  BY <1>1 DEF NothingPending, NoOutcome
<1>3. AllFit'
  BY <1>1, <1>2 DEF AllFit, Fits, InRun, Gathering, Unsent, Sending, Asked, NoRequest
<1>4. ProgressKept'
  BY <1>1, <1>2 DEF ProgressKept
<1>5. Due(p)' /\ Clean(p)' /\ Current(p)'
  BY <1>1 DEF Due, Clean, Current, Sending
<1>. QED  BY <1>3, <1>4, <1>5 DEF RunInv

\* The only process and its database are as RunInv says, power losses or not.
LEMMA PowerRunInvariance ==
  ASSUME NEW only \in Proc, Proc = {only}
  PROVE  PowerSpec => []RunInv(only)
<1>1. ASSUME PowerInv, RunInv(only), [PowerNext]_powerVars PROVE RunInv(only)'
  <2>1. TypeOK /\ Backed
    BY <1>1 DEF PowerInv
  <2>2. [Next]_vars \/ PowerLoss
    BY <1>1 DEF PowerNext, Sync, powerVars
  <2>. QED  BY <1>1, <2>1, <2>2, NextRun, PowerLossEndsRuns
<1>2. PowerInit => RunInv(only)
  BY InitRun DEF PowerInit
<1>. QED  BY <1>1, <1>2, PowerInvariance, PTL DEF PowerSpec

\* A power loss ends no run cleanly.
LEMMA PowerEndsWell ==
  ASSUME PowerInv, NEW p \in Proc \ DryRun, Proc = {p}, RunInv(p), [PowerNext]_powerVars
  PROVE  Delivers(p) /\ (Rederive => IsCurrent(p))
<1>1. CASE PowerLoss
  BY <1>1 DEF PowerLoss, Delivers, IsCurrent, EndsClean
<1>2. CASE [Next]_vars
  BY <1>2, EndsWell DEF PowerInv
<1>. QED  BY <1>1, <1>2 DEF PowerNext, Sync, powerVars

\* With power losses too, a run that ends cleanly leaves every file it knows of with
\* tags, and with those in the ledger (host.go's push and UnpushedTags over
\* driver.go's pragmas); the tables it started from may have gone back.
THEOREM CleanRunsDeliverInSpiteOfPower ==
  ASSUME NEW only \in Proc, Proc = {only}
  PROVE  PowerSpec => CleanRunDelivers
<1>. DEFINE A == \A p \in Proc \ DryRun : Delivers(p)
<1>1. PowerInv /\ RunInv(only) /\ [PowerNext]_powerVars => [A]_vars
  BY PowerEndsWell
<1>2. PowerSpec => [][A]_vars
  BY <1>1, PowerInvariance, PowerRunInvariance, PTL DEF PowerSpec
<1>. QED  BY <1>2 DEF CleanRunDelivers

\* And the tags of a tagger that derives again on every run are those of the
\* metadata it fetched (RederiveEveryRun), as the twitter tagger's are.
THEOREM CleanRunsAreCurrentInSpiteOfPower ==
  ASSUME NEW only \in Proc, Proc = {only}, Rederive
  PROVE  PowerSpec => CleanRunIsCurrent
<1>. DEFINE A == \A p \in Proc \ DryRun : IsCurrent(p)
<1>1. PowerInv /\ RunInv(only) /\ [PowerNext]_powerVars => [A]_vars
  BY PowerEndsWell
<1>2. PowerSpec => [][A]_vars
  BY <1>1, PowerInvariance, PowerRunInvariance, PTL DEF PowerSpec
<1>. QED  BY <1>2 DEF CleanRunIsCurrent

=============================================================================
