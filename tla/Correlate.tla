------------------------------ MODULE Correlate ------------------------------
(***************************************************************************)
(* The correlate command: internal/correlate's Correlate over the files    *)
(* cmd/hydrus-tagger's runCorrelate fetches.  Ids and names are paired by  *)
(* how far the sets of files that carry them overlap.  Similarities are    *)
(* exact fractions, which the code's float64 quotients of small counts are *)
(* ordered like; but the runner-up's limit is a product there, and when it *)
(* is hit exactly the verdict may fall on either side.                     *)
(***************************************************************************)
EXTENDS Integers, FiniteSets, SequencesExt

CONSTANTS
  Id, Name,          \* numbers, in the order their tags sort
  MaxFiles,          \* bound: files fetched
  MinOverlap,        \* Options.MinOverlap
  MinJaccard,        \* Options.MinJaccard, a fraction
  MaxRunnerUpRatio   \* Options.MaxRunnerUpRatio, a fraction

Fraction == [num : Nat, den : Nat \ {0}]

ASSUME TagAssumption == Id \subseteq Nat /\ Name \subseteq Nat /\ IsFiniteSet(Id) /\ IsFiniteSet(Name)
ASSUME OptionsAssumption == /\ MaxFiles \in Nat /\ MinOverlap \in Nat
                            /\ MinJaccard \in Fraction /\ MaxRunnerUpRatio \in Fraction

VARIABLES
  pc,
  files,      \* the files fetched that carry an id or a name
  counted,    \* how many of them the counters cover
  idFiles, nameFiles, \* counters: files that carry each id, each name
  co, nameCo, \* co-occurrences: a counter of names per id, of ids per name
  result      \* None, then what Correlate found

vars == <<pc, files, counted, idFiles, nameFiles, co, nameCo, result>>

File == [ids : SUBSET Id, names : SUBSET Name]
NoTags == [ids |-> {}, names |-> {}]

\* A counter, and in which file it first saw each key: the order of its keys is that
\* of these files, and within a file that of the keys, which FromTags sorted.
Counter(K) == [counts : [K -> 0..MaxFiles], first : [K -> 0..MaxFiles]]
ZeroCounter(K) == [counts |-> [k \in K |-> 0], first |-> [k \in K |-> 0]]

Result == [paired : SUBSET (Id \X Name), ambiguous : SUBSET Id,
           orphanIds : SUBSET Id, orphanNames : SUBSET Name,
           suggestions : Seq(Id \X Name), rejected : Seq(Id \X Name)]
NoResult == [paired |-> {}, ambiguous |-> {}, orphanIds |-> {}, orphanNames |-> {},
             suggestions |-> <<>>, rejected |-> <<>>]

TypeOK ==
  /\ pc \in {"fetch", "count", "done", "failed"}
  /\ files \in Seq(File \ {NoTags}) /\ Len(files) <= MaxFiles
  /\ counted \in 0..Len(files)
  /\ idFiles \in Counter(Id) /\ nameFiles \in Counter(Name)
  /\ \A i \in Id : co[i] \in Counter(Name)
  /\ \A n \in Name : nameCo[n] \in Counter(Id)
  /\ result \in Result

Init ==
  /\ pc = "fetch"
  /\ files = <<>>
  /\ counted = 0
  /\ idFiles = ZeroCounter(Id) /\ nameFiles = ZeroCounter(Name)
  /\ co = [i \in Id |-> ZeroCounter(Name)]
  /\ nameCo = [n \in Name |-> ZeroCounter(Id)]
  /\ result = NoResult

counters == <<counted, idFiles, nameFiles, co, nameCo>>

\* A row of metadata; one that carries neither ids nor names is passed over.
KeepTagged(f) == files' = IF f = NoTags THEN files ELSE Append(files, f)

Fetch ==
  /\ pc = "fetch" /\ Len(files) < MaxFiles
  /\ \E f \in File : KeepTagged(f)
  /\ UNCHANGED <<pc, counters, result>>

\* A batch of metadata cannot be had: nothing is written.
FetchFails == pc = "fetch" /\ pc' = "failed" /\ UNCHANGED <<files, counters, result>>

Fetched == pc = "fetch" /\ pc' = "count" /\ UNCHANGED <<files, counters, result>>

-----------------------------------------------------------------------------
\* The counting loop.

\* The keys of S, each counted once, in the given file.
Inc(c, S, k) ==
  [counts |-> [x \in DOMAIN c.counts |-> IF x \in S THEN c.counts[x] + 1 ELSE c.counts[x]],
   first  |-> [x \in DOMAIN c.first |-> IF x \in S /\ c.first[x] = 0 THEN k ELSE c.first[x]]]

Keys(c) == {x \in DOMAIN c.counts : c.counts[x] > 0}

Before(c, x, y) == c.first[x] < c.first[y] \/ (c.first[x] = c.first[y] /\ x < y)

Count ==
  /\ pc = "count" /\ counted < Len(files)
  /\ LET k == counted + 1  f == files[k] IN
     /\ idFiles' = Inc(idFiles, f.ids, k)
     /\ nameFiles' = Inc(nameFiles, f.names, k)
     /\ co' = [i \in Id |-> IF i \in f.ids THEN Inc(co[i], f.names, k) ELSE co[i]]
     /\ nameCo' = [n \in Name |-> IF n \in f.names THEN Inc(nameCo[n], f.ids, k) ELSE nameCo[n]]
  /\ counted' = counted + 1
  /\ UNCHANGED <<pc, files, result>>

-----------------------------------------------------------------------------
\* Tags already paired.

\* Mutant: it is enough that all of the id's files have the name.
PerfectFrom(i) == {n \in Keys(co[i]) : co[i].counts[n] = idFiles.counts[i]}

\* Names whose file set is that of i.
Perfect(i) == {n \in Keys(co[i]) : /\ co[i].counts[n] = idFiles.counts[i]
                                          /\ nameFiles.counts[n] = co[i].counts[n]}

Exclusive(i, n) == Perfect(i) = {n} /\ \A j \in Id : n \in Perfect(j) => j = i

LockedIds   == {i \in Id : Perfect(i) # {}}
LockedNames == UNION {Perfect(i) : i \in Id}

-----------------------------------------------------------------------------
\* Inference over the others.

Less(a, b) == a.num * b.den < b.num * a.den

Jaccard(i, n) == [num |-> co[i].counts[n],
                  den |-> idFiles.counts[i] + nameFiles.counts[n] - co[i].counts[n]]

\* The pair (i, n) ranks above (j, m): by similarity, then by overlap.
Above(i, n, j, m) ==
  \/ Less(Jaccard(j, m), Jaccard(i, n))
  \/ ~Less(Jaccard(i, n), Jaccard(j, m)) /\ co[i].counts[n] > co[j].counts[m]

\* bestIDFor: the first of the best of n's ids.
BestId(n) ==
  LET ids == Keys(nameCo[n]) \ LockedIds IN
  CHOOSE i \in ids : \A j \in ids \ {i} :
    Above(i, n, j, n) \/ (~Above(j, n, i, n) /\ Before(nameCo[n], i, j))

\* Mutant: names that are paired already compete too.
CandidatesAll(i) == Keys(co[i])

Candidates(i) == Keys(co[i]) \ LockedNames

\* The first of the best of some of i's names, as the stable sort has it.
FirstOf(i, names) ==
  CHOOSE n \in names : \A m \in names \ {n} :
    Above(i, n, i, m) \/ (~Above(i, m, i, n) /\ Before(co[i], n, m))

Top(i) == FirstOf(i, Candidates(i))

RunnerUp(i) ==
  LET rest == Candidates(i) \ {Top(i)} IN
  IF rest = {} THEN [num |-> 0, den |-> 1] ELSE Jaccard(i, FirstOf(i, rest))

\* At most the given part of the winner's similarity.
Most(s) == [num |-> s.num * MaxRunnerUpRatio.num, den |-> s.den * MaxRunnerUpRatio.den]
ClearMargin(i) == ~Less(Most(Jaccard(i, Top(i))), RunnerUp(i))

\* Two thirds and two fifths are in the ratio of six tenths, their quotients are not.
AtTheLimit(i) ==
  LET limit == Most(Jaccard(i, Top(i))) IN
  RunnerUp(i).num > 0 /\ ~Less(limit, RunnerUp(i)) /\ ~Less(RunnerUp(i), limit)

\* Mutants: the name's own best id not asked for; the runner-up not looked at.
AcceptedOneSided(i) ==
  /\ co[i].counts[Top(i)] >= MinOverlap
  /\ ~Less(Jaccard(i, Top(i)), MinJaccard)
  /\ ClearMargin(i)
AcceptedNarrowly(i) ==
  /\ co[i].counts[Top(i)] >= MinOverlap
  /\ ~Less(Jaccard(i, Top(i)), MinJaccard)
  /\ BestId(Top(i)) = i

Accepted(i) ==
  /\ co[i].counts[Top(i)] >= MinOverlap
  /\ ~Less(Jaccard(i, Top(i)), MinJaccard)
  /\ BestId(Top(i)) = i
  /\ ClearMargin(i)

\* round4, in ten thousandths; a tie, which takes 32 files at the least, goes up here.
Rounded(s) == (20000 * s.num + s.den) \div (2 * s.den)

\* sortByConfidence: by the rounded similarity, then by overlap; stable, so equals
\* keep the order their ids were seen in.
RanksBefore(i, j) ==
  LET a == Rounded(Jaccard(i, Top(i)))  m == co[i].counts[Top(i)]
      b == Rounded(Jaccard(j, Top(j)))  n == co[j].counts[Top(j)]
  IN a > b \/ (a = b /\ (m > n \/ (m = n /\ Before(idFiles, i, j))))
Ranked(ids) ==
  {[k \in 1..Cardinality(ids) |-> <<s[k], Top(s[k])>>] :
     s \in {t \in [1..Cardinality(ids) -> ids] :
              ToSet(t) = ids /\ \A k, m \in DOMAIN t : k < m => RanksBefore(t[k], t[m])}}

\* What Correlate returns of the counters.
Outcome(suggestions, rejected) ==
  [paired      |-> {p \in Id \X Name : Exclusive(p[1], p[2])},
   ambiguous   |-> {i \in LockedIds : ~\E n \in Name : Exclusive(i, n)},
   orphanIds   |-> {i \in Keys(idFiles) : Keys(co[i]) = {}},
   orphanNames |-> {n \in Keys(nameFiles) : Keys(nameCo[n]) = {}},
   suggestions |-> suggestions, rejected |-> rejected]

Judged == {i \in Id \ LockedIds : Candidates(i) # {}}

\* The ids that may come out accepted, each set a way the comparisons may fall.
Verdicts ==
  {A \in SUBSET Judged : \A i \in Judged :
     /\ i \in A => Accepted(i)
     /\ Accepted(i) /\ ~AtTheLimit(i) => i \in A}
Returned ==
  UNION {{Outcome(s, r) : s \in Ranked(A), r \in Ranked(Judged \ A)} : A \in Verdicts}

Report ==
  /\ pc = "count" /\ counted = Len(files)
  /\ result' \in Returned
  /\ pc' = "done"
  /\ UNCHANGED <<files, counters>>

Next == Fetch \/ FetchFails \/ Fetched \/ Count \/ Report

Spec == Init /\ [][Next]_vars

-----------------------------------------------------------------------------
\* The properties speak of sets of files, as Correlate's comment does.

WithId(i)   == {k \in DOMAIN files : i \in files[k].ids}
WithName(n) == {k \in DOMAIN files : n \in files[k].names}
Shared(i, n) == Cardinality(WithId(i) \cap WithName(n))
Similarity(i, n) == [num |-> Shared(i, n), den |-> Cardinality(WithId(i) \cup WithName(n))]

\* Identical to the file set of a tag of the other kind.
TakenId(i)   == WithId(i) # {} /\ \E n \in Name : WithName(n) = WithId(i)
TakenName(n) == WithName(n) # {} /\ \E i \in Id : WithId(i) = WithName(n)

Suggested == ToSet(result.suggestions)

\* Already paired is an id with a name of the very same files, no other id or name
\* having them too (Correlate, "exclusive 1:1 on both sides").
PairedExactly ==
  pc = "done" =>
    result.paired = {p \in Id \X Name :
      /\ WithId(p[1]) # {} /\ WithId(p[1]) = WithName(p[2])
      /\ \A i \in Id \ {p[1]} : WithId(i) # WithId(p[1])
      /\ \A n \in Name \ {p[2]} : WithName(n) # WithName(p[2])}

\* Nothing is said of an id that is not there, or whose names are all taken.
PassedOver(i) ==
  /\ ~TakenId(i)
  /\ WithId(i) # {} => \E n \in Name : Shared(i, n) > 0
  /\ \A n \in Name : Shared(i, n) > 0 => TakenName(n)

\* What is paired or suggested is one to one: no id gets two names and no name two
\* ids, and tags that are paired already, or cannot be told apart, get none.  And
\* every id is accounted for once.
OneToOne ==
  pc = "done" =>
    /\ \A p, q \in result.paired \cup Suggested : p[1] = q[1] \/ p[2] = q[2] => p = q
    /\ \A p \in Suggested : ~TakenId(p[1]) /\ ~TakenName(p[2])
    /\ \A i \in Id :
         LET judged == result.suggestions \o result.rejected IN
         Cardinality({k \in DOMAIN judged : judged[k][1] = i})
           + Cardinality({p \in result.paired : p[1] = i})
           + Cardinality({i} \cap result.ambiguous) + Cardinality({i} \cap result.orphanIds)
         = IF PassedOver(i) THEN 0 ELSE 1

\* "Deliberately conservative" (Correlate): a suggested pair shares enough files, no
\* other untaken tag is more similar to either of the two, and the next best name is
\* clearly less.
SuggestedIsBest ==
  pc = "done" => \A p \in Suggested :
    LET s == Similarity(p[1], p[2]) IN
    /\ Shared(p[1], p[2]) >= MinOverlap /\ ~Less(s, MinJaccard)
    /\ \A i \in Id : ~TakenId(i) => ~Less(s, Similarity(i, p[2]))
    /\ \A n \in Name \ {p[2]} : ~TakenName(n) /\ Shared(p[1], n) > 0 =>
         ~Less(Most(s), Similarity(p[1], n))

\* And no clear case is missed: a pair of untaken tags that passes the thresholds,
\* the best for the id by more than the margin and the one best for the name, is
\* suggested, in whatever order the files were fetched.
ClearCaseIsSuggested ==
  pc = "done" => \A i \in Id, n \in Name :
    LET s == Similarity(i, n) IN
    /\ ~TakenId(i) /\ ~TakenName(n)
    /\ Shared(i, n) >= MinOverlap /\ Shared(i, n) > 0 /\ ~Less(s, MinJaccard)
    /\ \A m \in Name \ {n} : ~TakenName(m) /\ Shared(i, m) > 0 =>
         Less(Similarity(i, m), s) /\ Less(Similarity(i, m), Most(s))
    /\ \A j \in Id \ {i} : ~TakenId(j) /\ Shared(j, n) > 0 => Less(Similarity(j, n), s)
    => <<i, n>> \in Suggested
=============================================================================
