------------------------- MODULE FileIdentityProofs --------------------------
(***************************************************************************)
(* Theorems about FileIdentity for any number of processes, taggers,       *)
(* clients, services and files.                                            *)
(***************************************************************************)
EXTENDS FileIdentity, TLAPS

\* What a process that runs, or does not, can rely on.
IdleForgets ==
  \A p \in Proc : pc[p] = "idle" =>
    /\ known[p] = Nothing /\ wanted[p] = {}
    /\ fetched[p] = Nothing /\ candidates[p] = Nothing
RunningIsUsed == \A p \in Proc : pc[p] # "idle" => <<client, service>> \in used

\* Metadata is the configured client's.  An id that was unknown when the run began
\* is so still, or was recorded since, by another process with the same client.
OfThisClient ==
  \A p \in Proc : \A i \in Id :
    /\ fetched[p][i] \in {None, HashOf[client][i]}
    /\ i \in wanted[p] => files[i] \in {None, HashOf[client][i]}

CandidatesKnown == \A p \in Proc : \A i \in Id : candidates[p][i] # None => known[p][i] # None

\* With one client, whatever is kept of a file is its own.
AllOwn(c) ==
  /\ \A i \in Id : files[i] \in {None, HashOf[c][i]}
  /\ \A t \in Tagger : \A i \in Id : tags[t][i] \in {Empty, None, HashOf[c][i]}
  /\ \A p \in Proc : \A i \in Id : candidates[p][i] \in {Empty, None, HashOf[c][i]}
  /\ \A s \in Service : \A gift \in given[<<c, s>>] : gift[2] \in {Empty, gift[1]}
OneHydrusInv == \A c \in Client : Clients \subseteq {c} => AllOwn(c)

\* What the proofs need of the types: functions with the right domains.
Shape ==
  /\ files \in [Id -> Hash \cup {None}]
  /\ artifact \in [Id -> Hash \cup {None}]
  /\ tags \in [Tagger -> [Id -> Source]]
  /\ ledger \in [Tagger -> [Id -> Source]]
  /\ client \in Client /\ service \in Service
  /\ library \in [Client -> SUBSET Id]
  /\ given \in [Client \X Service -> SUBSET (Hash \X Source \X Tagger)]
  /\ used \subseteq Client \X Service
  /\ pc \in [Proc -> {"idle", "identify", "upsert", "extract", "derive", "diff", "push"}]
  /\ tagger \in [Proc -> Tagger]
  /\ known \in [Proc -> [Id -> Hash \cup {None}]]
  /\ wanted \in [Proc -> SUBSET Id]
  /\ fetched \in [Proc -> [Id -> Hash \cup {None}]]
  /\ candidates \in [Proc -> [Id -> Source]]

\* Identity, and nothing of what is derived from it.
Identity ==
  /\ Shape /\ IdleForgets /\ RunningIsUsed /\ OfThisClient /\ RunsGoByTheRecord
  /\ ArtifactsAreOwn

Inv == Identity /\ CandidatesKnown /\ OneHydrusInv /\ LedgerKnowsNotWhere
-----------------------------------------------------------------------------
\* Forgetting keeps the types and leaves the process with nothing.
LEMMA ForgetShape ==
  ASSUME Shape, NEW p \in Proc, Forget(p)
  PROVE  /\ pc' = [pc EXCEPT ![p] = "idle"]
         /\ pc' \in [Proc -> {"idle", "identify", "upsert", "extract", "derive", "diff", "push"}]
         /\ tagger' \in [Proc -> Tagger]
         /\ known' \in [Proc -> [Id -> Hash \cup {None}]]
         /\ wanted' \in [Proc -> SUBSET Id]
         /\ fetched' \in [Proc -> [Id -> Hash \cup {None}]]
         /\ candidates' \in [Proc -> [Id -> Source]]
         /\ known' = [known EXCEPT ![p] = Nothing]
         /\ wanted' = [wanted EXCEPT ![p] = {}]
         /\ fetched' = [fetched EXCEPT ![p] = Nothing]
         /\ candidates' = [candidates EXCEPT ![p] = Nothing]
<1>1. /\ Nothing \in [Id -> Hash \cup {None}] /\ Nothing \in [Id -> Source]
      /\ (CHOOSE t \in Tagger : TRUE) \in Tagger
  BY NonEmptyAssumption DEF Nothing, Source
<1>. QED  BY <1>1 DEF Forget, Goto, Shape

\* A fetch keeps the types.
LEMMA FetchShape ==
  ASSUME Shape, NEW p \in Proc, NEW answered, FetchInto(p, answered)
  PROVE  /\ fetched' \in [Proc -> [Id -> Hash \cup {None}]]
         /\ \A q \in Proc, i \in Id :
              fetched'[q][i] = IF q = p /\ i \in answered THEN HashOf[client][i]
                               ELSE fetched[q][i]
<1>1. \A i \in Id : HashOf[client][i] \in Hash
  BY HashAssumption DEF Shape
<1>2. [i \in Id |-> IF i \in answered THEN HashOf[client][i] ELSE fetched[p][i]]
        \in [Id -> Hash \cup {None}]
  BY <1>1 DEF Shape
<1>. QED  BY <1>2 DEF FetchInto, Shape

\* Tags are of files, or none.
LEMMA TagsForType ==
  ASSUME Shape, NEW p \in Proc, NEW i \in Id, NEW metadata \in Hash \cup {None}
  PROVE  TagsFor(p, i, metadata) \in Source
BY DEF TagsFor, Shape, Source

\* What Derive does, without its quantifiers.
LEMMA DeriveStep ==
  ASSUME Shape, NEW p \in Proc, Derive(p)
  PROVE  \E done \in SUBSET Known(p) : \E answered \in SUBSET Known(p) :
           /\ FetchInto(p, answered)
           /\ \A i \in done : fetched'[p][i] # None
           /\ tags' = [tags EXCEPT ![tagger[p]] =
                [i \in Id |-> IF i \in done THEN TagsFor(p, i, fetched'[p][i]) ELSE @[i]]]
           /\ candidates' = [candidates EXCEPT ![p] =
                [i \in Id |-> IF i \in done THEN TagsFor(p, i, fetched'[p][i]) ELSE None]]
<1>. DEFINE todo == {i \in Known(p) : \/ tagger[p] \notin Extracting
                                      \/ i \in fresh[p]
                                      \/ i \notin derived[tagger[p]]}
            asked == {i \in todo : fetched[p][i] = None}
            new(done) == [i \in Id |-> IF i \in done THEN TagsFor(p, i, fetched'[p][i])
                                       ELSE None]
<1>1. PICK answered \in SUBSET asked :
        LET done == (todo \ asked) \cup answered IN
        /\ FetchInto(p, answered)
        /\ tags' = [tags EXCEPT ![tagger[p]] =
                      [i \in Id |-> IF i \in done THEN new(done)[i] ELSE @[i]]]
        /\ candidates' = [candidates EXCEPT ![p] = new(done)]
  BY DEF Derive
<1>. DEFINE done == (todo \ asked) \cup answered
<1>2. answered \in SUBSET Known(p) /\ done \in SUBSET Known(p) /\ Known(p) \subseteq Id
  BY DEF Known
<1>3. \A i \in done : fetched'[p][i] # None
  <2>1. \A i \in Id : HashOf[client][i] \in Hash
    BY HashAssumption DEF Shape
  <2>. QED  BY <1>1, <1>2, <2>1, FetchShape, NoneAssumption
<1>4. \A t : [i \in Id |-> IF i \in done THEN new(done)[i] ELSE tags[t][i]]
        = [i \in Id |-> IF i \in done THEN TagsFor(p, i, fetched'[p][i]) ELSE tags[t][i]]
  OBVIOUS
<1>. HIDE DEF todo, asked
<1>. QED  BY <1>1, <1>2, <1>3, <1>4

\* Every step keeps the types.
LEMMA NextShape == Shape /\ CandidatesKnown /\ [Next]_vars => Shape'
<1> SUFFICES ASSUME Shape, CandidatesKnown, [Next]_vars PROVE Shape'
  OBVIOUS
<1>1. ASSUME NEW p \in Proc, Start(p) PROVE Shape'
  <2>1. [i \in Id |-> IF i \in library[client] THEN files[i] ELSE None] \in [Id -> Hash \cup {None}]
    BY DEF Shape
  <2>2. /\ UNCHANGED <<dbVars, client, service, library, given, fetched, candidates>>
        /\ known' = [known EXCEPT ![p] = [i \in Id |-> IF i \in library[client] THEN files[i] ELSE None]]
        /\ used' = used \cup {<<client, service>>}
        /\ wanted' = [wanted EXCEPT ![p] = {i \in library[client] : files[i] = None}]
    BY <1>1 DEF Start
  <2>3. tagger' \in [Proc -> Tagger]
    BY <1>1 DEF Start, Shape
  <2>4. pc' \in [Proc -> {"idle", "identify", "upsert", "extract", "derive", "diff", "push"}]
    BY <1>1 DEF Start, Goto, Shape
  <2>5. {i \in library[client] : files[i] = None} \in SUBSET Id
    BY DEF Shape
  <2>6. known' \in [Proc -> [Id -> Hash \cup {None}]] /\ wanted' \in [Proc -> SUBSET Id]
    BY <2>1, <2>2, <2>5 DEF Shape
  <2>. QED  BY <2>2, <2>3, <2>4, <2>6 DEF Shape, dbVars
<1>2. ASSUME NEW p \in Proc, Identify(p) PROVE Shape'
  <2>1. PICK answered : FetchInto(p, answered)
    BY <1>2 DEF Identify
  <2>2. fetched' \in [Proc -> [Id -> Hash \cup {None}]]
    BY <2>1, FetchShape
  <2>. QED  BY <1>2, <2>2 DEF Identify, Goto, Shape, dbVars
<1>3. ASSUME NEW p \in Proc, Upsert(p) PROVE Shape'
  <2>. DEFINE found == {i \in wanted[p] : fetched[p][i] # None}
  <2>1. CASE \E i \in found : Foreign(i, fetched[p][i])
    <3>1. Forget(p) /\ UNCHANGED <<dbVars, worldVars>>
      BY <1>3, <2>1 DEF Upsert, dbVars
    <3>. QED  BY <3>1, ForgetShape DEF Shape, dbVars, worldVars
  <2>2. CASE ~ \E i \in found : Foreign(i, fetched[p][i])
    <3>1. /\ files' = [i \in Id |-> IF i \in found /\ files[i] = None THEN fetched[p][i] ELSE files[i]]
          /\ known' = [known EXCEPT ![p] = [i \in Id |-> IF i \in found THEN fetched[p][i] ELSE known[p][i]]]
          /\ Goto(p, "extract")
          /\ UNCHANGED <<artifact, tags, ledger, worldVars, tagger, wanted, fetched, candidates>>
      BY <1>3, <2>2 DEF Upsert
    <3>2. [i \in Id |-> IF i \in found THEN fetched[p][i] ELSE known[p][i]] \in [Id -> Hash \cup {None}]
      BY DEF Shape
    <3>3. [i \in Id |-> IF i \in found /\ files[i] = None THEN fetched[p][i] ELSE files[i]]
            \in [Id -> Hash \cup {None}]
      BY DEF Shape
    <3>. QED  BY <3>1, <3>2, <3>3 DEF Shape, Goto, worldVars
  <2>. QED  BY <2>1, <2>2
<1>4. ASSUME NEW p \in Proc, Extract(p) PROVE Shape'
  <2>1. PICK got : artifact' = [i \in Id |-> IF i \in got THEN ReadBy(p, i) ELSE artifact[i]]
    BY <1>4 DEF Extract
  <2>2. artifact' \in [Id -> Hash \cup {None}]
    BY <2>1 DEF ReadBy, Shape
  <2>. QED  BY <1>4, <2>2 DEF Extract, Goto, Shape
<1>5. ASSUME NEW p \in Proc, Derive(p) PROVE Shape'
  <2>1. PICK done \in SUBSET Known(p), answered \in SUBSET Known(p) :
          /\ FetchInto(p, answered)
          /\ tags' = [tags EXCEPT ![tagger[p]] =
               [i \in Id |-> IF i \in done THEN TagsFor(p, i, fetched'[p][i]) ELSE @[i]]]
          /\ candidates' = [candidates EXCEPT ![p] =
               [i \in Id |-> IF i \in done THEN TagsFor(p, i, fetched'[p][i]) ELSE None]]
    BY <1>5, DeriveStep
  <2>2. fetched' \in [Proc -> [Id -> Hash \cup {None}]]
    BY <2>1, FetchShape
  <2>3. \A i \in Id : TagsFor(p, i, fetched'[p][i]) \in Source
    BY <2>2, TagsForType
  <2>4. None \in Source
    BY DEF Source
  <2>5. [i \in Id |-> IF i \in done THEN TagsFor(p, i, fetched'[p][i]) ELSE None] \in [Id -> Source]
    BY <2>3, <2>4
  <2>6. \A t \in Tagger :
          [i \in Id |-> IF i \in done THEN TagsFor(p, i, fetched'[p][i]) ELSE tags[t][i]] \in [Id -> Source]
    BY <2>3 DEF Shape
  <2>7. candidates' \in [Proc -> [Id -> Source]] /\ tags' \in [Tagger -> [Id -> Source]]
    BY <2>1, <2>5, <2>6 DEF Shape
  <2>. QED  BY <1>5, <2>2, <2>7 DEF Derive, Goto, Shape
<1>6. ASSUME NEW p \in Proc, Diff(p) PROVE Shape'
  <2>1. \A i \in Id : ToPush(p, i) \in Source /\ None \in Source
    BY DEF ToPush, Shape, Source
  <2>2. [i \in Id |-> IF ToPush(p, i) \in {Empty, ledger[tagger[p]][i]} THEN None ELSE ToPush(p, i)]
          \in [Id -> Source]
    BY <2>1
  <2>. QED  BY <1>6, <2>2 DEF Diff, Goto, Shape, dbVars, worldVars
<1>7. ASSUME NEW p \in Proc, Push(p) PROVE Shape'
  <2>1. PICK i \in Id :
          /\ candidates[p][i] # None
          /\ candidates' = [candidates EXCEPT ![p][i] = None]
          /\ Given(p, i) \/ UNCHANGED given
          /\ ledger' = [ledger EXCEPT ![tagger[p]][i] = candidates[p][i]] \/ UNCHANGED ledger
    BY <1>7 DEF Push
  <2>2. candidates[p][i] \in Source /\ known[p][i] \in Hash /\ None \in Source
    BY <2>1 DEF CandidatesKnown, Shape, Source
  <2>3. given' \in [Client \X Service -> SUBSET (Hash \X Source \X Tagger)]
    <3>1. CASE UNCHANGED given
      BY <3>1 DEF Shape
    <3>2. CASE Given(p, i)
      <4>. DEFINE target == <<client, service>>
                  gifts == given[target] \cup {<<known[p][i], candidates[p][i], tagger[p]>>}
      <4>1. target \in Client \X Service /\ gifts \in SUBSET (Hash \X Source \X Tagger)
        BY <2>2 DEF Shape
      <4>2. given' = [given EXCEPT ![target] = gifts]
        BY <3>2 DEF Given
      <4>. HIDE DEF target, gifts
      <4>. QED  BY <4>1, <4>2 DEF Shape
    <3>. QED  BY <2>1, <3>1, <3>2
  <2>4. /\ [candidates[p] EXCEPT ![i] = None] \in [Id -> Source]
        /\ tagger[p] \in Tagger
        /\ [ledger[tagger[p]] EXCEPT ![i] = candidates[p][i]] \in [Id -> Source]
    BY <2>2 DEF Shape
  <2>5. candidates' = [candidates EXCEPT ![p] = [candidates[p] EXCEPT ![i] = None]]
    BY <2>1 DEF Shape
  <2>6. \/ ledger' = [ledger EXCEPT ![tagger[p]] =
                       [ledger[tagger[p]] EXCEPT ![i] = candidates[p][i]]]
        \/ UNCHANGED ledger
    BY <2>1, <2>4 DEF Shape
  <2>7. candidates' \in [Proc -> [Id -> Source]]
    BY <2>4, <2>5 DEF Shape
  <2>8. ledger' \in [Tagger -> [Id -> Source]]
    BY <2>4, <2>6 DEF Shape
  <2>9. UNCHANGED <<files, artifact, tags, client, service, library, used, pc, tagger, known,
                    wanted, fetched>>
    BY <1>7 DEF Push
  <2>. QED  BY <2>3, <2>7, <2>8, <2>9 DEF Shape
<1>8. ASSUME NEW p \in Proc, Finish(p) \/ Stop(p) PROVE Shape'
  <2>1. Forget(p) /\ UNCHANGED <<dbVars, client, service, library, given, used>>
    BY <1>8 DEF Finish, Stop, worldVars
  <2>. QED  BY <2>1, ForgetShape DEF Shape, dbVars
<1>9. CASE Configure \/ UNCHANGED vars
  BY <1>9 DEF Configure, Shape, vars, dbVars, worldVars, memory
<1>10. CASE Import
  <2>1. library' \in [Client -> SUBSET Id]
    BY <1>10 DEF Import, Shape
  <2>. QED  BY <1>10, <2>1 DEF Import, Shape, dbVars, memory
<1>. QED
  BY <1>1, <1>2, <1>3, <1>4, <1>5, <1>6, <1>7, <1>8, <1>9, <1>10 DEF Next, Step

-----------------------------------------------------------------------------
\* A step of a running process that leaves the identities alone keeps Identity.
LEMMA QuietIdentity ==
  ASSUME Identity, Shape', NEW p \in Proc,
         UNCHANGED <<files, artifact, client, service, used, known, wanted>>,
         pc[p] # "idle", pc'[p] # "idle",
         \A q \in Proc : q # p => /\ pc'[q] = pc[q] /\ fetched'[q] = fetched[q]
                                  /\ candidates'[q] = candidates[q],
         \A i \in Id : fetched'[p][i] \in {None, HashOf[client][i]}
  PROVE  Identity'
<1>1. IdleForgets'
  BY DEF Identity, IdleForgets
<1>2. RunningIsUsed'
  BY DEF Identity, RunningIsUsed
<1>3. OfThisClient'
  BY DEF Identity, OfThisClient
<1>4. RunsGoByTheRecord' /\ ArtifactsAreOwn'
  BY DEF Identity, RunsGoByTheRecord, ArtifactsAreOwn, Known
<1>. QED  BY <1>1, <1>2, <1>3, <1>4 DEF Identity

\* So does the end of a run, however it ends.
LEMMA ForgetIdentity ==
  ASSUME Identity, Shape', NEW p \in Proc, Forget(p),
         UNCHANGED <<files, artifact, client, service, used>>
  PROVE  Identity'
<1>0. Shape
  BY DEF Identity
<1>1. /\ pc' = [pc EXCEPT ![p] = "idle"]
      /\ known' = [known EXCEPT ![p] = Nothing]
      /\ wanted' = [wanted EXCEPT ![p] = {}]
      /\ fetched' = [fetched EXCEPT ![p] = Nothing]
      /\ candidates' = [candidates EXCEPT ![p] = Nothing]
  BY <1>0, ForgetShape
<1>2. \A q \in Proc :
        \/ /\ q = p /\ pc'[q] = "idle" /\ known'[q] = Nothing /\ wanted'[q] = {}
           /\ fetched'[q] = Nothing /\ candidates'[q] = Nothing
        \/ /\ q # p /\ pc'[q] = pc[q] /\ known'[q] = known[q] /\ wanted'[q] = wanted[q]
           /\ fetched'[q] = fetched[q] /\ candidates'[q] = candidates[q]
  BY <1>0, <1>1 DEF Shape
<1>3. IdleForgets'
  BY <1>2 DEF Identity, IdleForgets
<1>4. RunningIsUsed'
  BY <1>2 DEF Identity, RunningIsUsed
<1>5. OfThisClient'
  BY <1>2 DEF Identity, OfThisClient, Nothing
<1>6. RunsGoByTheRecord'
  BY <1>2 DEF Identity, RunsGoByTheRecord, Known, Nothing
<1>7. ArtifactsAreOwn'
  BY DEF Identity, ArtifactsAreOwn
<1>. QED  BY <1>3, <1>4, <1>5, <1>6, <1>7 DEF Identity

\* A run begins with the identities on record, and marks the others as wanted.
LEMMA StartIdentity ==
  ASSUME Identity, Shape', NEW p \in Proc, Start(p)
  PROVE  Identity'
<1>0. Shape
  BY DEF Identity
<1>1. /\ UNCHANGED <<files, artifact, client, service, fetched, candidates>>
      /\ used' = used \cup {<<client, service>>}
      /\ known' = [known EXCEPT ![p] =
                     [i \in Id |-> IF i \in library[client] THEN files[i] ELSE None]]
      /\ wanted' = [wanted EXCEPT ![p] = {i \in library[client] : files[i] = None}]
      /\ pc[p] = "idle"
      /\ \E stage \in {"identify", "extract"} : pc' = [pc EXCEPT ![p] = stage]
  BY DEF Start, Goto, dbVars
<1>2. \A q \in Proc : q # p => /\ pc'[q] = pc[q] /\ known'[q] = known[q]
                               /\ wanted'[q] = wanted[q]
  BY <1>0, <1>1 DEF Shape
<1>3. /\ pc'[p] # "idle"
      /\ wanted'[p] = {i \in library[client] : files[i] = None}
      /\ \A i \in Id : known'[p][i] = IF i \in library[client] THEN files[i] ELSE None
  BY <1>0, <1>1 DEF Shape
<1>4. IdleForgets'
  BY <1>1, <1>2, <1>3 DEF Identity, IdleForgets
<1>5. RunningIsUsed'
  BY <1>1, <1>2, <1>3 DEF Identity, RunningIsUsed
<1>6. OfThisClient'
  BY <1>1, <1>2, <1>3 DEF Identity, OfThisClient
<1>7. RunsGoByTheRecord'
  BY <1>1, <1>2, <1>3 DEF Identity, RunsGoByTheRecord, Known
<1>8. ArtifactsAreOwn'
  BY <1>1 DEF Identity, ArtifactsAreOwn
<1>. QED  BY <1>4, <1>5, <1>6, <1>7, <1>8 DEF Identity

\* A batch that is not refused records the client's hashes, each once, and leaves
\* what is on record.
LEMMA RecordIdentity ==
  ASSUME Identity, Shape', NEW p \in Proc, pc[p] = "upsert", NEW found,
         found = {i \in wanted[p] : fetched[p][i] # None},
         ~ \E i \in found : Foreign(i, fetched[p][i]),
         files' = [i \in Id |-> IF i \in found /\ files[i] = None THEN fetched[p][i] ELSE files[i]],
         known' = [known EXCEPT ![p] = [i \in Id |-> IF i \in found THEN fetched[p][i] ELSE @[i]]],
         Goto(p, "extract"),
         UNCHANGED <<artifact, client, service, used, wanted, fetched, candidates>>
  PROVE  Identity' /\ \A i \in Id : \/ files'[i] = files[i]
                                    \/ files[i] = None /\ files'[i] = HashOf[client][i]
<1>0. Shape
  BY DEF Identity
<1>1. \A i \in found : i \in Id /\ fetched[p][i] = HashOf[client][i] /\ fetched[p][i] \in Hash
  BY <1>0 DEF Identity, OfThisClient, Shape
<1>2. \A i \in Id : \/ files'[i] = files[i]
                    \/ files[i] = None /\ i \in found /\ files'[i] = HashOf[client][i]
  BY <1>1
<1>3. \A i \in Id : files[i] # None => files'[i] = files[i]
  BY <1>2
<1>4. \A i \in found : files'[i] = fetched[p][i]
  <2>1. ASSUME NEW i \in found, files[i] # None PROVE files[i] = fetched[p][i]
    BY <1>1, <2>1 DEF Identity, OfThisClient
  <2>. QED  BY <1>1, <2>1
<1>5. \A q \in Proc : /\ q # p => pc'[q] = pc[q] /\ known'[q] = known[q]
                      /\ pc'[q] = "idle" => pc[q] = "idle" /\ q # p
  BY <1>0 DEF Goto, Shape
<1>6. \A i \in Id : known'[p][i] = IF i \in found THEN fetched[p][i] ELSE known[p][i]
  BY <1>0 DEF Shape
<1>7. IdleForgets'
  BY <1>5 DEF Identity, IdleForgets
<1>8. RunningIsUsed'
  BY <1>5 DEF Identity, RunningIsUsed
<1>9. OfThisClient'
  BY <1>2 DEF Identity, OfThisClient
<1>10. ASSUME NEW i \in Id, NEW j \in Id, files'[i] = files'[j], files'[i] # None
       PROVE  i = j
  <2>1. CASE files[i] # None /\ files[j] # None
    BY <1>3, <1>10, <2>1 DEF Identity, RunsGoByTheRecord
  <2>2. CASE files[i] = None /\ files[j] = None
    <3>1. files'[i] = HashOf[client][i] /\ files'[j] = HashOf[client][j]
      BY <1>2, <1>10, <2>2
    <3>. QED  BY <1>0, <1>10, <3>1, HashAssumption DEF Shape
  <2>3. CASE files[i] = None /\ files[j] # None
    <3>1. i \in found /\ files'[i] = fetched[p][i] /\ files'[j] = files[j]
      BY <1>2, <1>3, <1>4, <1>10, <2>3
    <3>. QED  BY <1>10, <2>3, <3>1 DEF Foreign
  <2>4. CASE files[i] # None /\ files[j] = None
    <3>1. j \in found /\ files'[j] = fetched[p][j] /\ files'[i] = files[i]
      BY <1>2, <1>3, <1>4, <1>10, <2>4
    <3>. QED  BY <1>10, <2>4, <3>1 DEF Foreign
  <2>. QED  BY <2>1, <2>2, <2>3, <2>4
<1>11. ASSUME NEW q \in Proc, NEW i \in Id, known'[q][i] # None
       PROVE  known'[q][i] = files'[i]
  <2>1. known[q][i] # None => files[i] = known[q][i]
    BY DEF Identity, RunsGoByTheRecord, Known
  <2>2. CASE q = p /\ i \in found
    BY <1>4, <1>6, <2>2
  <2>3. CASE ~(q = p /\ i \in found)
    <3>1. known'[q][i] = known[q][i]
      BY <1>5, <1>6, <2>3
    <3>. QED  BY <1>3, <1>11, <2>1, <3>1
  <2>. QED  BY <2>2, <2>3
<1>12. RunsGoByTheRecord'
  BY <1>10, <1>11 DEF RunsGoByTheRecord, Known
<1>13. ArtifactsAreOwn'
  BY <1>3 DEF Identity, ArtifactsAreOwn
<1>. QED  BY <1>2, <1>7, <1>8, <1>9, <1>12, <1>13 DEF Identity

\* What Extract caches is of the file on record.
LEMMA ExtractIdentity ==
  ASSUME Identity, Shape', NEW p \in Proc, Extract(p)
  PROVE  Identity'
<1>0. Shape
  BY DEF Identity
<1>1. PICK got \in SUBSET Known(p) :
        artifact' = [i \in Id |-> IF i \in got THEN known[p][i] ELSE artifact[i]]
  BY DEF Extract, ReadBy
<1>2. UNCHANGED <<files, client, service, used, known, wanted, fetched, candidates>>
  BY DEF Extract
<1>3. \A q \in Proc : pc'[q] = IF q = p THEN "derive" ELSE pc[q]
  BY <1>0 DEF Extract, Goto, Shape
<1>4. pc[p] = "extract"
  BY DEF Extract
<1>5. ArtifactsAreOwn'
  BY <1>1, <1>2 DEF Identity, ArtifactsAreOwn, RunsGoByTheRecord
<1>6. IdleForgets'
  BY <1>2, <1>3 DEF Identity, IdleForgets
<1>7. RunningIsUsed'
  BY <1>2, <1>3, <1>4 DEF Identity, RunningIsUsed
<1>8. OfThisClient' /\ RunsGoByTheRecord'
  BY <1>2 DEF Identity, OfThisClient, RunsGoByTheRecord, Known
<1>. QED  BY <1>5, <1>6, <1>7, <1>8 DEF Identity

\* Every step keeps the identities right.
LEMMA NextIdentity == Identity /\ CandidatesKnown /\ [Next]_vars => Identity'
<1> SUFFICES ASSUME Identity, CandidatesKnown, [Next]_vars PROVE Identity'
  OBVIOUS
<1>0. Shape /\ Shape'
  BY NextShape DEF Identity
<1>1. ASSUME NEW p \in Proc, Start(p) PROVE Identity'
  BY <1>0, <1>1, StartIdentity
<1>2. ASSUME NEW p \in Proc, Identify(p) \/ Derive(p) PROVE Identity'
  <2>1. PICK answered : FetchInto(p, answered)
    BY <1>2 DEF Identify, Derive
  <2>2. /\ \A q \in Proc : q # p => fetched'[q] = fetched[q]
        /\ \A i \in Id : fetched'[p][i] \in {None, HashOf[client][i]}
    BY <1>0, <2>1, FetchShape DEF Identity, OfThisClient, FetchInto, Shape
  <2>3. /\ UNCHANGED <<files, artifact, client, service, used, known, wanted>>
        /\ pc[p] # "idle" /\ \E stage \in {"upsert", "diff"} : pc' = [pc EXCEPT ![p] = stage]
    BY <1>2 DEF Identify, Derive, Goto, dbVars
  <2>4. \A q \in Proc : q # p => candidates'[q] = candidates[q]
    BY <1>0, <1>2, DeriveStep DEF Identify, Shape
  <2>5. pc'[p] # "idle" /\ \A q \in Proc : q # p => pc'[q] = pc[q]
    BY <1>0, <2>3 DEF Shape
  <2>. QED  BY <1>0, <2>2, <2>3, <2>4, <2>5, QuietIdentity
<1>3. ASSUME NEW p \in Proc, Upsert(p) PROVE Identity'
  <2>. DEFINE found == {i \in wanted[p] : fetched[p][i] # None}
  <2>1. CASE \E i \in found : Foreign(i, fetched[p][i])
    <3>1. Forget(p) /\ UNCHANGED <<files, artifact, client, service, used>>
      BY <1>3, <2>1 DEF Upsert, worldVars
    <3>. QED  BY <1>0, <3>1, ForgetIdentity
  <2>2. CASE ~ \E i \in found : Foreign(i, fetched[p][i])
    <3>1. /\ pc[p] = "upsert"
          /\ files' = [i \in Id |-> IF i \in found /\ files[i] = None THEN fetched[p][i] ELSE files[i]]
          /\ known' = [known EXCEPT ![p] = [i \in Id |-> IF i \in found THEN fetched[p][i] ELSE @[i]]]
          /\ Goto(p, "extract")
          /\ UNCHANGED <<artifact, client, service, used, wanted, fetched, candidates>>
      BY <1>3, <2>2 DEF Upsert, worldVars
    <3>. QED  BY <1>0, <2>2, <3>1, RecordIdentity
  <2>. QED  BY <2>1, <2>2
<1>4. ASSUME NEW p \in Proc, Extract(p) PROVE Identity'
  BY <1>0, <1>4, ExtractIdentity
<1>5. ASSUME NEW p \in Proc, Diff(p) \/ Push(p) PROVE Identity'
  <2>1. /\ UNCHANGED <<files, artifact, client, service, used, known, wanted, fetched>>
        /\ pc[p] # "idle"
        /\ pc' = [pc EXCEPT ![p] = "push"]
    BY <1>0, <1>5 DEF Diff, Push, Goto, dbVars, worldVars, Shape
  <2>2. \A q \in Proc : q # p => candidates'[q] = candidates[q]
    BY <1>0, <1>5 DEF Diff, Push, Shape
  <2>3. pc'[p] # "idle" /\ \A q \in Proc : q # p => pc'[q] = pc[q] /\ fetched'[q] = fetched[q]
    BY <1>0, <2>1 DEF Shape
  <2>4. \A i \in Id : fetched'[p][i] \in {None, HashOf[client][i]}
    BY <2>1 DEF Identity, OfThisClient
  <2>. QED  BY <1>0, <2>1, <2>2, <2>3, <2>4, QuietIdentity
<1>6. ASSUME NEW p \in Proc, Finish(p) \/ Stop(p) PROVE Identity'
  <2>1. Forget(p) /\ UNCHANGED <<files, artifact, client, service, used>>
    BY <1>6 DEF Finish, Stop, dbVars, worldVars
  <2>. QED  BY <1>0, <2>1, ForgetIdentity
<1>7. CASE Configure
  <2>1. /\ UNCHANGED <<files, artifact, used, pc, known, wanted, fetched, candidates>>
        /\ \A p \in Proc : pc[p] = "idle"
    BY <1>7 DEF Configure, dbVars, memory
  <2>2. OfThisClient'
    BY <2>1 DEF Identity, IdleForgets, OfThisClient, Nothing
  <2>3. IdleForgets' /\ RunningIsUsed' /\ RunsGoByTheRecord' /\ ArtifactsAreOwn'
    BY <2>1 DEF Identity, IdleForgets, RunningIsUsed, RunsGoByTheRecord, ArtifactsAreOwn, Known
  <2>. QED  BY <1>0, <2>2, <2>3 DEF Identity
<1>8. CASE Import \/ UNCHANGED vars
  <2>1. UNCHANGED <<files, artifact, client, service, used, pc, known, wanted, fetched, candidates>>
    BY <1>8 DEF Import, vars, dbVars, worldVars, memory
  <2>. QED
    BY <1>0, <2>1 DEF Identity, IdleForgets, RunningIsUsed, OfThisClient, RunsGoByTheRecord,
       ArtifactsAreOwn, Known
<1>. QED
  BY <1>1, <1>2, <1>3, <1>4, <1>5, <1>6, <1>7, <1>8 DEF Next, Step

\* What is recorded stays, and what is recorded now is the configured client's.
LEMMA FilesGrow ==
  ASSUME Identity, [Next]_vars, NEW i \in Id
  PROVE  \/ files'[i] = files[i]
         \/ files[i] = None /\ files'[i] = HashOf[client][i] /\ <<client, service>> \in used
<1>1. ASSUME NEW p \in Proc, Upsert(p)
      PROVE  \/ files'[i] = files[i]
             \/ files[i] = None /\ files'[i] = HashOf[client][i] /\ <<client, service>> \in used
  <2>1. <<client, service>> \in used
    BY <1>1 DEF Upsert, Identity, RunningIsUsed
  <2>2. fetched[p][i] \in {None, HashOf[client][i]}
    BY DEF Identity, OfThisClient
  <2>. QED  BY <1>1, <2>1, <2>2 DEF Upsert
<1>2. ASSUME NEW p \in Proc, Step(p) \/ Stop(p), ~Upsert(p) PROVE files' = files
  BY <1>2 DEF Step, Start, Identify, Extract, Derive, Diff, Push, Finish, Stop, dbVars
<1>3. CASE Configure \/ Import \/ UNCHANGED vars
  BY <1>3 DEF Configure, Import, vars, dbVars
<1>. QED  BY <1>1, <1>2, <1>3 DEF Next

\* Only what the run knows is to be pushed.
LEMMA NextCandidatesKnown ==
  Identity /\ CandidatesKnown /\ [Next]_vars => CandidatesKnown'
<1> SUFFICES ASSUME Identity, CandidatesKnown, [Next]_vars,
                    NEW p \in Proc, NEW i \in Id, candidates'[p][i] # None
             PROVE  known'[p][i] # None
  BY DEF CandidatesKnown
<1>0. Shape /\ (candidates[p][i] # None => known[p][i] # None)
  BY DEF Identity, CandidatesKnown
<1>1. ASSUME NEW q \in Proc, Start(q) PROVE known'[p][i] # None
  <2>1. candidates' = candidates /\ (q # p => known'[p] = known[p])
    BY <1>0, <1>1 DEF Start, Shape
  <2>2. q = p => candidates[p] = Nothing
    BY <1>1 DEF Start, Identity, IdleForgets
  <2>. QED  BY <1>0, <2>1, <2>2 DEF Nothing
<1>2. ASSUME NEW q \in Proc, Identify(q) \/ Extract(q) PROVE known'[p][i] # None
  BY <1>0, <1>2 DEF Identify, Extract
<1>3. ASSUME NEW q \in Proc, Forget(q) PROVE known'[p][i] # None
  <2>1. /\ candidates'[p] = IF q = p THEN Nothing ELSE candidates[p]
        /\ known'[p] = IF q = p THEN Nothing ELSE known[p]
    BY <1>0, <1>3, ForgetShape DEF Shape
  <2>. QED  BY <1>0, <2>1 DEF Nothing
<1>4. ASSUME NEW q \in Proc, Upsert(q), ~Forget(q) PROVE known'[p][i] # None
  <2>1. /\ candidates' = candidates
        /\ known' = [known EXCEPT ![q] = [j \in Id |->
             IF j \in {k \in wanted[q] : fetched[q][k] # None} THEN fetched[q][j] ELSE known[q][j]]]
    BY <1>4 DEF Upsert
  <2>2. known'[p][i] = known[p][i] \/ known'[p][i] # None
    BY <1>0, <2>1 DEF Shape
  <2>. QED  BY <1>0, <2>1, <2>2
<1>5. ASSUME NEW q \in Proc, Derive(q) PROVE known'[p][i] # None
  <2>1. PICK done \in SUBSET Known(q) : candidates' = [candidates EXCEPT ![q] =
               [j \in Id |-> IF j \in done THEN TagsFor(q, j, fetched'[q][j]) ELSE None]]
    BY <1>0, <1>5, DeriveStep
  <2>2. known' = known
    BY <1>5 DEF Derive
  <2>3. q # p \/ i \in Known(p)
    BY <1>0, <2>1 DEF Shape
  <2>4. q # p => candidates'[p] = candidates[p]
    BY <1>0, <2>1 DEF Shape
  <2>. QED  BY <1>0, <2>2, <2>3, <2>4 DEF Known
<1>6. ASSUME NEW q \in Proc, Diff(q) PROVE known'[p][i] # None
  <2>1. /\ known' = known
        /\ candidates'[p][i] = IF q # p THEN candidates[p][i]
             ELSE IF ToPush(p, i) \in {Empty, ledger[tagger[p]][i]} THEN None ELSE ToPush(p, i)
    BY <1>0, <1>6 DEF Diff, Shape
  <2>2. ToPush(p, i) = candidates[p][i] \/ i \in Known(p)
    BY DEF ToPush
  <2>. QED  BY <1>0, <2>1, <2>2 DEF Known
<1>7. ASSUME NEW q \in Proc, Push(q) PROVE known'[p][i] # None
  <2>1. /\ known' = known
        /\ \E j \in Id : candidates' = [candidates EXCEPT ![q][j] = None]
    BY <1>7 DEF Push
  <2>2. candidates'[p][i] = candidates[p][i]
    BY <1>0, <2>1 DEF Shape
  <2>. QED  BY <1>0, <2>1, <2>2
<1>8. CASE Configure \/ Import \/ UNCHANGED vars
  BY <1>0, <1>8 DEF Configure, Import, vars, memory
<1>. QED
  BY <1>1, <1>2, <1>3, <1>4, <1>5, <1>6, <1>7, <1>8 DEF Next, Step, Finish, Stop

\* What a ledger row claims stays given, and a new row is of a gift just made.
LEMMA NextLedger ==
  Identity /\ CandidatesKnown /\ LedgerKnowsNotWhere /\ [Next]_vars => LedgerKnowsNotWhere'
<1> SUFFICES ASSUME Identity, CandidatesKnown, LedgerKnowsNotWhere, [Next]_vars,
                    NEW t \in Tagger, NEW i \in Id, ledger'[t][i] # None
             PROVE  \E target \in used' : <<files'[i], ledger'[t][i], t>> \in given'[target]
  BY DEF LedgerKnowsNotWhere
<1>0. Shape
  BY DEF Identity
<1>1. ASSUME ledger'[t][i] = ledger[t][i], used \subseteq used',
             \A target \in used : given[target] \subseteq given'[target]
      PROVE  \E target \in used' : <<files'[i], ledger'[t][i], t>> \in given'[target]
  <2>1. PICK target \in used : <<files[i], ledger[t][i], t>> \in given[target]
    BY <1>1 DEF LedgerKnowsNotWhere
  <2>2. files[i] # None
    BY <1>0, <2>1, NoneAssumption, HashAssumption DEF Shape
  <2>3. files'[i] = files[i]
    BY <2>2, FilesGrow
  <2>. QED  BY <1>1, <2>1, <2>3
<1>2. ASSUME NEW p \in Proc, Push(p)
      PROVE  \E target \in used' : <<files'[i], ledger'[t][i], t>> \in given'[target]
  <2>1. PICK j \in Id :
          /\ candidates[p][j] # None
          /\ \/ /\ Given(p, j)
                /\ ledger' = [ledger EXCEPT ![tagger[p]][j] = candidates[p][j]]
             \/ /\ Given(p, j) \/ UNCHANGED given
                /\ UNCHANGED ledger
    BY <1>2 DEF Push
  <2>2. /\ UNCHANGED <<files, used>> /\ <<client, service>> \in used
        /\ <<client, service>> \in Client \X Service
    BY <1>0, <1>2 DEF Push, Identity, RunningIsUsed, Shape
  <2>3. \A target \in used : given[target] \subseteq given'[target]
    BY <1>0, <2>1, <2>2 DEF Given, Shape
  <2>4. CASE ledger'[t][i] = ledger[t][i]
    BY <1>1, <2>2, <2>3, <2>4
  <2>5. CASE ledger'[t][i] # ledger[t][i]
    <3>1. /\ Given(p, j)
          /\ ledger' = [ledger EXCEPT ![tagger[p]][j] = candidates[p][j]]
      BY <2>1, <2>5
    <3>2. i = j /\ t = tagger[p] /\ ledger'[t][i] = candidates[p][i]
      BY <1>0, <2>5, <3>1 DEF Shape
    <3>3. known[p][i] = files[i]
      BY <2>1, <3>2 DEF CandidatesKnown, Identity, RunsGoByTheRecord, Known
    <3>4. <<known[p][j], candidates[p][j], tagger[p]>> \in given'[<<client, service>>]
      BY <1>0, <2>2, <3>1 DEF Given, Shape
    <3>. QED  BY <2>2, <3>2, <3>3, <3>4
  <2>. QED  BY <2>4, <2>5
<1>3. ASSUME NEW p \in Proc, Step(p) \/ Stop(p), ~Push(p)
      PROVE  UNCHANGED <<ledger, given>> /\ used \subseteq used'
  BY <1>3 DEF Step, Start, Identify, Upsert, Extract, Derive, Diff, Finish, Stop, dbVars,
     worldVars
<1>4. CASE Configure \/ Import \/ UNCHANGED vars
  <2>1. UNCHANGED <<ledger, given, used>>
    BY <1>4 DEF Configure, Import, vars, dbVars, worldVars
  <2>. QED  BY <1>1, <2>1
<1>. QED  BY <1>1, <1>2, <1>3, <1>4 DEF Next

\* With one client, tags come from its metadata, or from an artifact of a file it
\* gave the hash of, and go to that hash.
LEMMA NextOwn ==
  Identity /\ CandidatesKnown /\ OneHydrusInv /\ [Next]_vars => OneHydrusInv'
<1> SUFFICES ASSUME Identity, CandidatesKnown, OneHydrusInv, [Next]_vars,
                    NEW c \in Client, Clients' \subseteq {c}
             PROVE  AllOwn(c)'
  BY DEF OneHydrusInv
<1>0. Shape /\ Shape' /\ Identity'
  BY NextIdentity DEF Identity
<1>1. used \subseteq used'
  BY DEF Next, Step, Start, Identify, Upsert, Extract, Derive, Diff, Push, Finish, Stop,
     Configure, Import, worldVars, vars
<1>2. AllOwn(c)
  BY <1>1 DEF OneHydrusInv, Clients
<1>3. ASSUME <<client, service>> \in used PROVE client = c
  BY <1>1, <1>3 DEF Clients
<1>4. \A i \in Id : files'[i] \in {None, HashOf[c][i]}
  BY <1>2, <1>3, FilesGrow DEF AllOwn
<1>5. ASSUME UNCHANGED <<tags, candidates, given>> PROVE AllOwn(c)'
  BY <1>2, <1>4, <1>5 DEF AllOwn
<1>6. ASSUME NEW p \in Proc, Start(p) \/ Identify(p) \/ Extract(p) PROVE AllOwn(c)'
  BY <1>5, <1>6 DEF Start, Identify, Extract, dbVars
<1>7. ASSUME NEW p \in Proc, Forget(p), UNCHANGED <<tags, given>> PROVE AllOwn(c)'
  <2>1. \A q \in Proc : candidates'[q] = IF q = p THEN Nothing ELSE candidates[q]
    BY <1>0, <1>7, ForgetShape DEF Shape
  <2>2. \A q \in Proc : \A i \in Id : candidates'[q][i] \in {Empty, None, HashOf[c][i]}
    BY <1>2, <2>1 DEF AllOwn, Nothing
  <2>. QED  BY <1>2, <1>4, <1>7, <2>2 DEF AllOwn
<1>8. ASSUME NEW p \in Proc, Upsert(p) PROVE AllOwn(c)'
  BY <1>5, <1>7, <1>8 DEF Upsert, worldVars
<1>9. ASSUME NEW p \in Proc, Derive(p) PROVE AllOwn(c)'
  <2>1. PICK done \in SUBSET Known(p) :
          /\ \A i \in done : fetched'[p][i] # None
          /\ tags' = [tags EXCEPT ![tagger[p]] =
               [i \in Id |-> IF i \in done THEN TagsFor(p, i, fetched'[p][i]) ELSE @[i]]]
          /\ candidates' = [candidates EXCEPT ![p] =
               [i \in Id |-> IF i \in done THEN TagsFor(p, i, fetched'[p][i]) ELSE None]]
    BY <1>0, <1>9, DeriveStep
  <2>2. UNCHANGED <<files, artifact, given, client>> /\ client = c
    BY <1>3, <1>9 DEF Derive, Identity, RunningIsUsed
  <2>3. \A i \in done : TagsFor(p, i, fetched'[p][i]) \in {Empty, HashOf[c][i]}
    <3> SUFFICES ASSUME NEW i \in done
                 PROVE  TagsFor(p, i, fetched'[p][i]) \in {Empty, HashOf[c][i]}
      OBVIOUS
    <3>1. i \in Id
      BY DEF Known
    <3>2. fetched'[p][i] = HashOf[c][i]
      BY <1>0, <2>1, <2>2, <3>1 DEF Identity, OfThisClient
    <3>3. artifact[i] \in {None, HashOf[c][i]}
      BY <1>2, <3>1 DEF AllOwn, Identity, ArtifactsAreOwn
    <3>. QED  BY <3>2, <3>3 DEF TagsFor
  <2>4. \A t \in Tagger : \A i \in Id : tags'[t][i] \in {Empty, None, HashOf[c][i]}
    BY <1>0, <1>2, <2>1, <2>3 DEF AllOwn, Shape
  <2>5. \A q \in Proc : \A i \in Id : candidates'[q][i] \in {Empty, None, HashOf[c][i]}
    BY <1>0, <1>2, <2>1, <2>3 DEF AllOwn, Shape
  <2>. QED  BY <1>2, <1>4, <2>2, <2>4, <2>5 DEF AllOwn
<1>10. ASSUME NEW p \in Proc, Diff(p) PROVE AllOwn(c)'
  <2>1. /\ UNCHANGED <<tags, given>>
        /\ candidates' = [candidates EXCEPT ![p] =
             [i \in Id |-> IF ToPush(p, i) \in {Empty, ledger[tagger[p]][i]} THEN None
                           ELSE ToPush(p, i)]]
    BY <1>10 DEF Diff, dbVars, worldVars
  <2>2. \A i \in Id : ToPush(p, i) \in {Empty, None, HashOf[c][i]}
    BY <1>0, <1>2 DEF AllOwn, ToPush, Shape
  <2>3. \A q \in Proc : \A i \in Id : candidates'[q][i] \in {Empty, None, HashOf[c][i]}
    BY <1>0, <1>2, <2>1, <2>2 DEF AllOwn, Shape
  <2>. QED  BY <1>2, <1>4, <2>1, <2>3 DEF AllOwn
<1>11. ASSUME NEW p \in Proc, Push(p) PROVE AllOwn(c)'
  <2>1. PICK i \in Id :
          /\ candidates[p][i] # None
          /\ candidates' = [candidates EXCEPT ![p][i] = None]
          /\ Given(p, i) \/ UNCHANGED given
    BY <1>11 DEF Push
  <2>2. tags' = tags /\ client = c
    BY <1>3, <1>11 DEF Push, Identity, RunningIsUsed
  <2>3. \A q \in Proc : \A j \in Id : candidates'[q][j] \in {candidates[q][j], None}
    BY <1>0, <2>1 DEF Shape
  <2>4. known[p][i] = HashOf[c][i] /\ candidates[p][i] \in {Empty, HashOf[c][i]}
    <3>1. known[p][i] # None /\ known[p][i] = files[i]
      BY <2>1 DEF CandidatesKnown, Identity, RunsGoByTheRecord, Known
    <3>. QED  BY <1>2, <2>1, <3>1 DEF AllOwn
  <2>5. \A s \in Service : \A gift \in given'[<<c, s>>] : gift[2] \in {Empty, gift[1]}
    <3> SUFFICES ASSUME NEW s \in Service, NEW gift \in given'[<<c, s>>]
                 PROVE  gift[2] \in {Empty, gift[1]}
      OBVIOUS
    <3>. DEFINE to == <<client, service>>  at == <<c, s>>
                new == <<known[p][i], candidates[p][i], tagger[p]>>
    <3>0. /\ given' = [given EXCEPT ![to] = given[to] \cup {new}] \/ given' = given
          /\ gift \in given'[at] /\ at \in Client \X Service
          /\ DOMAIN given = Client \X Service
      BY <1>0, <2>1, <2>2 DEF Given, Shape
    <3>1. gift \in given[at] \/ gift = new
      <4>. HIDE DEF to, at, new
      <4>. QED  BY <3>0
    <3>. QED  BY <1>2, <2>4, <3>1 DEF AllOwn
  <2>. QED  BY <1>2, <1>4, <2>2, <2>3, <2>5 DEF AllOwn
<1>12. ASSUME NEW p \in Proc, Finish(p) \/ Stop(p) PROVE AllOwn(c)'
  BY <1>7, <1>12 DEF Finish, Stop, dbVars, worldVars
<1>13. CASE Configure \/ Import \/ UNCHANGED vars
  BY <1>5, <1>13 DEF Configure, Import, vars, dbVars, worldVars, memory
<1>. QED
  BY <1>6, <1>8, <1>9, <1>10, <1>11, <1>12, <1>13 DEF Next, Step

\* Nothing is known, kept or given at first.
LEMMA InitInv == Init => Inv
<1> SUFFICES ASSUME Init PROVE Inv
  OBVIOUS
<1>1. Shape
  <2>1. /\ Nothing \in [Id -> Hash \cup {None}] /\ Nothing \in [Id -> Source]
        /\ (CHOOSE t \in Tagger : TRUE) \in Tagger
        /\ (CHOOSE c \in Client : TRUE) \in Client
        /\ (CHOOSE s \in Service : TRUE) \in Service
    BY NonEmptyAssumption DEF Nothing, Source
  <2>. QED  BY <2>1 DEF Init, Shape
<1>2. \A i \in Id : Nothing[i] = None
  BY DEF Nothing
<1>3. IdleForgets /\ RunningIsUsed /\ OfThisClient /\ CandidatesKnown
  BY <1>2 DEF Init, IdleForgets, RunningIsUsed, OfThisClient, CandidatesKnown
<1>4. RunsGoByTheRecord /\ ArtifactsAreOwn /\ LedgerKnowsNotWhere
  BY <1>2 DEF Init, RunsGoByTheRecord, ArtifactsAreOwn, LedgerKnowsNotWhere, Known
<1>5. OneHydrusInv
  BY <1>2 DEF Init, OneHydrusInv, AllOwn
<1>. QED  BY <1>1, <1>3, <1>4, <1>5 DEF Inv, Identity

\* The invariant the theorems rest on: identities, and with one client all that is
\* derived from them, are right in every reachable state.
THEOREM Invariance == Spec => []Inv
<1>1. Inv /\ [Next]_vars => Inv'
  BY NextIdentity, NextCandidatesKnown, NextOwn, NextLedger DEF Inv
<1>. QED  BY <1>1, InitInv, PTL DEF Spec

-----------------------------------------------------------------------------
\* With one Hydrus database the cache's identities are Hydrus's own, and no file is
\* given the tags of another, whatever services, taggers and processes there are.
THEOREM OneHydrusIsAlwaysRight == Spec => []OneHydrusIsRight
<1>1. Inv => OneHydrusIsRight
  BY DEF Inv, OneHydrusInv, AllOwn, OneHydrusIsRight
<1>. QED  BY <1>1, Invariance, PTL

\* No hash is ever on record twice, and every run goes by the record.
THEOREM RecordIsKept == Spec => []RunsGoByTheRecord
<1>1. Inv => RunsGoByTheRecord
  BY DEF Inv, Identity
<1>. QED  BY <1>1, Invariance, PTL

\* An artifact is of the file on record for its id, with any number of databases.
THEOREM ArtifactsAreAlwaysOwn == Spec => []ArtifactsAreOwn
<1>1. Inv => ArtifactsAreOwn
  BY DEF Inv, Identity
<1>. QED  BY <1>1, Invariance, PTL

\* What the ledger has for pushed was given to the file on record, somewhere.
THEOREM LedgerIsTrueSomewhere == Spec => []LedgerKnowsNotWhere
<1>1. Inv => LedgerKnowsNotWhere
  BY DEF Inv
<1>. QED  BY <1>1, Invariance, PTL

=============================================================================
