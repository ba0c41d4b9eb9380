-------------------------- MODULE RunCommandProofs --------------------------
(***************************************************************************)
(* Proofs about RunCommand, for any number of taggers, services and names: *)
(* preflight comes first, dry runs leave no trace, one service is pushed   *)
(* to, the exit code tells, and one tagger's failure stops no other.       *)
(***************************************************************************)
EXTENDS RunCommand, FiniteSetTheorems, WellFoundedInduction, TLAPS

Early == {"validate", "preflight"}
Late  == {"snapshot", "open", "taggers", "look", "return"}

\* What the proofs rest on of the types.
Shape ==
  /\ pc \in Early \cup Late \cup {"exited"}
  /\ exit \in Codes \cup {Running, Killed}
  /\ services \in Services
  /\ next \in Nat \ {0}
  /\ result \in [Ids -> {"none", "completed", "failed", "skipped"}]
  /\ unsaved \subseteq Ids
  /\ cancelled \in BOOLEAN /\ stopped \in BOOLEAN /\ dry \in BOOLEAN /\ touched \in BOOLEAN

\* The command has an exit code once it is over, and a service once preflight is;
\* until then it has done nothing.
Staged ==
  /\ exit = Running <=> pc # "exited"
  /\ pc \in Early => key = NoKey /\ ~touched /\ pushedTo = {}
  /\ pc \in Late => key # NoKey
  /\ pc \in Early \cup {"snapshot", "open"} => next = 1

\* The taggers the loop has dealt with have the result that is due to them, and
\* the others none; what was not saved belongs to taggers that failed.
Over(i) == i < next \/ (i = next /\ pc = "look")

Due(t) == IF Selected(t) THEN {"completed", "failed"} ELSE {"skipped"}

Told ==
  /\ exit # Killed => \A i \in 1..Len(Tagger) :
       result[Tagger[i]] \in IF Over(i) THEN Due(Tagger[i]) ELSE {"none"}
  /\ exit # Killed => \A t \in unsaved : result[t] = "failed"
  /\ stopped => cancelled
  /\ pc = "look" => next <= Len(Tagger)
  /\ pc = "return" => stopped \/ next > Len(Tagger)

OneService == pushedTo \subseteq {key}

IInv == /\ Shape /\ Staged /\ Told
        /\ PreflightFirst /\ OneService /\ DryRunLeavesNoTrace /\ ExitTells /\ OthersStillRun

-----------------------------------------------------------------------------
\* Among some places of a reply there is a last one: the tail that has no smaller
\* one within it is its alone.
LEMMA LastIsThere ==
  ASSUME NEW n \in Nat, NEW S \in SUBSET (1..n), S # {}
  PROVE  Last(S) \in S
<1>. DEFINE tail(i) == {j \in S : i <= j}
            Tails == {tail(i) : i \in S}
<1>1. IsFiniteSet(S)
  <2>1. 1 \in Int /\ n \in Int
    OBVIOUS
  <2>2. IsFiniteSet(1..n)
    BY <2>1, FS_Interval
  <2>. QED  BY <2>2, FS_Subset
<1>2. Tails \subseteq FiniteSubsetsOf(S) /\ Tails # {}
  <2>1. \A i \in S : tail(i) \in SUBSET S /\ IsFiniteSet(tail(i))
    BY <1>1, FS_Subset
  <2>. QED  BY <2>1 DEF FiniteSubsetsOf
<1>3. PICK x \in Tails : \A y \in Tails : <<y, x>> \notin StrictSubsetOrdering(S)
  <2>. HIDE DEF Tails
  <2>. QED  BY <1>2, FS_StrictSubsetOrderingWellFounded, WFMin
<1>4. PICK i \in S : x = tail(i)
  OBVIOUS
<1>5. ASSUME NEW j \in S, i < j PROVE FALSE
  <2>0. tail(j) \in Tails
    OBVIOUS
  <2>1. tail(j) \subseteq tail(i) /\ i \notin tail(j) /\ i \in tail(i)
    <3>1. \A k \in S : k \in Int
      OBVIOUS
    <3>2. ~(j <= i) /\ i <= i /\ \A k \in S : j <= k => i <= k
      BY <1>5, <3>1
    <3>. QED  BY <3>2
  <2>2. tail(j) \in SUBSET S /\ x \in SUBSET S /\ tail(j) \subseteq x /\ tail(j) # x
    BY <1>4, <2>1
  <2>3. <<tail(j), x>> \in StrictSubsetOrdering(S)
    <3>. HIDE DEF tail
    <3>. QED  BY <2>2 DEF StrictSubsetOrdering
  <2>. QED  BY <1>3, <2>0, <2>3
<1>6. \A j \in S : j <= i
  BY <1>5
<1>. QED  BY <1>6 DEF Last

\* However a Hydrus reports its services, what the client reads is what it has.
LEMMA ReadsWhatThereIs ==
  ASSUME NEW s, NEW listed, <<s, listed>> \in Readings, s \in Services
  PROVE  listed = s
<1>1. PICK reply \in Replies(s) : listed = Collected(reply)
  BY DEF Readings
<1>2. PICK n \in 0..MaxEntries : reply \in [1..n -> Entries(s)]
  BY <1>1 DEF Replies
<1>3. \A i \in 1..n : /\ reply[i] \in Entry
                      /\ OfAnother(reply[i]) \/ \E k \in DOMAIN s : OfService(reply[i], k, s)
  BY <1>2 DEF Entries
<1>4. DOMAIN s \subseteq Service /\ {NoKey, EmptyKey} \cap Service = {} /\ NoKey # EmptyKey
  BY ServiceAssumption DEF Services
<1>5. \A i \in 1..n, k \in DOMAIN s : OfService(reply[i], k, s) =>
        Considered(reply[i]) /\ KeyOf(reply[i]) = k /\ reply[i].name = s[k]
  <2>. SUFFICES ASSUME NEW i \in 1..n, NEW k \in DOMAIN s, OfService(reply[i], k, s)
                PROVE  Considered(reply[i]) /\ KeyOf(reply[i]) = k /\ reply[i].name = s[k]
    OBVIOUS
  <2>1. k \notin {NoKey, EmptyKey} /\ NoKey # EmptyKey
    BY <1>4
  <2>2. {reply[i].key, reply[i].member} \cup {NoKey} = {k, NoKey}
    BY DEF OfService
  <2>3. KeyOf(reply[i]) = k
    <3>1. reply[i].key \in {k, NoKey} /\ (reply[i].key = NoKey => reply[i].member = k)
      BY <2>1, <2>2
    <3>. QED  BY <2>1, <3>1 DEF KeyOf
  <2>. QED  BY <2>1, <2>3 DEF OfService, Considered
<1>6. \A i \in 1..n : OfAnother(reply[i]) => ~Considered(reply[i])
  BY <1>3, <1>4 DEF OfAnother, Considered, KeyOf
<1>7. \A c \in Service : c \in DOMAIN s <=> Sightings(reply, c) # {}
  <2>0. DOMAIN reply = 1..n
    BY <1>2
  <2>1. \A k \in DOMAIN s : \E i \in 1..n : OfService(reply[i], k, s)
    BY <2>0 DEF Replies
  <2>2. ASSUME NEW c \in DOMAIN s PROVE Sightings(reply, c) # {}
    BY <2>0, <2>1, <1>5 DEF Sightings
  <2>3. ASSUME NEW c \in Service, NEW i \in Sightings(reply, c) PROVE c \in DOMAIN s
    <3>1. i \in 1..n /\ Considered(reply[i]) /\ KeyOf(reply[i]) = c
      BY <2>0 DEF Sightings
    <3>. QED  BY <3>1, <1>3, <1>5, <1>6
  <2>. QED  BY <1>4, <2>2, <2>3
<1>8. DOMAIN listed = DOMAIN s
  BY <1>1, <1>4, <1>7 DEF Collected
<1>9. ASSUME NEW k \in DOMAIN s PROVE listed[k] = s[k]
  <2>. DEFINE seen == Sightings(reply, k)
  <2>1. seen \in SUBSET (1..n) /\ seen # {}
    BY <1>2, <1>4, <1>7 DEF Sightings
  <2>2. Last(seen) \in seen
    <3>1. n \in Nat
      BY <1>2, EntriesAssumption
    <3>. HIDE DEF seen
    <3>. QED  BY <2>1, <3>1, LastIsThere
  <2>3. ASSUME NEW i \in seen PROVE reply[i].name = s[k]
    <3>1. i \in 1..n /\ Considered(reply[i]) /\ KeyOf(reply[i]) = k
      BY <1>2 DEF Sightings
    <3>. QED  BY <3>1, <1>3, <1>5, <1>6
  <2>. QED  BY <1>1, <1>4, <1>7, <2>2, <2>3 DEF Collected
<1>10. /\ s = [k \in DOMAIN s |-> s[k]]
       /\ listed = [k \in DOMAIN listed |-> listed[k]]
  BY <1>1 DEF Services, Collected
<1>. QED  BY <1>8, <1>9, <1>10

-----------------------------------------------------------------------------
\* The tagger the loop is at, as an id.
LEMMA NextIsId ==
  ASSUME Shape, next <= Len(Tagger)
  PROVE  /\ next \in 1..Len(Tagger) /\ Tagger[next] \in Ids
         /\ \A i \in 1..Len(Tagger) : i # next => Tagger[i] # Tagger[next]
<1>1. Len(Tagger) \in Nat
  BY IdAssumption
<1>2. next \in 1..Len(Tagger)
  BY <1>1 DEF Shape
<1> QED
  BY <1>2, IdAssumption DEF Ids

\* The command starts in a state that satisfies the invariant.
LEMMA InitIInv == Init => IInv
<1> SUFFICES ASSUME Init PROVE IInv
  OBVIOUS
<1>1. Shape
  <2>1. result \in [Ids -> {"none", "completed", "failed", "skipped"}]
    BY DEF Init
  <2>2. next \in Nat \ {0} /\ exit \in Codes \cup {Running, Killed}
    BY DEF Init
  <2>3. pc \in Early \cup Late \cup {"exited"} /\ unsaved \subseteq Ids
    BY DEF Init, Early
  <2> QED
    BY <2>1, <2>2, <2>3 DEF Init, Shape
<1>2. Staged
  BY DEF Init, Staged, Early, Late
<1>3. Len(Tagger) \in Nat /\ \A i \in 1..Len(Tagger) : Tagger[i] \in Ids
  BY IdAssumption DEF Ids
<1>4. Told
  <2>1. \A i \in 1..Len(Tagger) : ~Over(i) /\ result[Tagger[i]] = "none"
    BY <1>3 DEF Init, Over
  <2> QED
    BY <2>1 DEF Init, Told
<1>5. PreflightFirst /\ OneService /\ DryRunLeavesNoTrace /\ ExitTells /\ OthersStillRun
  BY DEF Init, PreflightFirst, OneService, DryRunLeavesNoTrace, ExitTells, OthersStillRun,
         Codes, Running
<1> QED
  BY <1>1, <1>2, <1>4, <1>5 DEF IInv

\* A return before the taggers keeps the invariant: its code is never 0.
LEMMA EarlyReturn ==
  ASSUME IInv, NEW code \in {1, 2, 130}, code = 130 => cancelled,
         exit' = code, pc' = "exited", \E there : snapshot' = Remains(there),
         pc \in Early \cup {"snapshot", "open"},
         UNCHANGED <<input, held, services, pushedTo, cancelled, key, next, stopped, result, unsaved>>,
         UNCHANGED touched \/ (touched' /\ ~dry /\ pc = "open")
  PROVE  IInv'
<1>1. Shape'
  BY DEF IInv, Shape, input, Codes
<1>2. Staged' /\ PreflightFirst' /\ OneService' /\ DryRunLeavesNoTrace'
  BY DEF IInv, Shape, Staged, PreflightFirst, OneService, DryRunLeavesNoTrace, Remains,
         Deferred, input, Codes, Running, Killed, Early, Late
<1>3. Told'
  BY DEF IInv, Shape, Staged, Told, Over, Due, Selected, input, Running, Killed,
         Early, Late
<1>4. ExitTells' /\ OthersStillRun'
  BY DEF IInv, Shape, Staged, ExitTells, OthersStillRun, input, Early, Late
<1> QED
  BY <1>1, <1>2, <1>3, <1>4 DEF IInv

\* What a step that touches neither the loop's state nor the result keeps of it.
LEMMA LoopUntouched ==
  ASSUME Told, ExitTells, OthersStillRun, Staged,
         exit = Running, exit' \in {Running, Killed},
         UNCHANGED <<only, next, stopped, result, unsaved>>,
         cancelled => cancelled',
         exit' # Killed => (pc' = "look" <=> pc = "look") /\ (pc' = "return" => pc = "return"),
         exit' = Killed => pc' = "exited"
  PROVE  Told' /\ ExitTells' /\ OthersStillRun'
<1>1. Told'
  BY DEF Told, Over, Due, Selected, Running, Killed
<1>2. ExitTells' /\ OthersStillRun'
  BY DEF ExitTells, OthersStillRun, Codes, Running, Killed
<1> QED
  BY <1>1, <1>2

\* The loop goes on from a state between two taggers.
LEMMA LoopStep ==
  ASSUME IInv, pc = "taggers" \/ pc = "look", exit' = exit,
         UNCHANGED <<only, dry, touched, key, cancelled, services>>,
         pushedTo' = pushedTo \/ (~dry /\ Push), snapshot' = snapshot,
         Shape', Told', pc' \in {"taggers", "look", "return"}
  PROVE  IInv'
<1>1. Staged' /\ PreflightFirst' /\ OneService' /\ DryRunLeavesNoTrace'
  BY DEF IInv, Shape, Staged, PreflightFirst, OneService, DryRunLeavesNoTrace, Push,
         Codes, Running, Killed, Early, Late
<1>2. ExitTells' /\ OthersStillRun'
  BY DEF IInv, Shape, Staged, ExitTells, OthersStillRun, Codes, Running, Early, Late
<1> QED
  BY <1>1, <1>2 DEF IInv

\* Every step of the command, of the user and of Hydrus preserves the invariant.
LEMMA NextIInv == IInv /\ [Next]_vars => IInv'
<1> SUFFICES ASSUME IInv, [Next]_vars PROVE IInv'
  OBVIOUS
<1>1. CASE Validate
  <2>1. CASE only \subseteq Ids
    <3>1. Shape' /\ Staged' /\ PreflightFirst' /\ OneService' /\ DryRunLeavesNoTrace'
      BY <1>1, <2>1 DEF IInv, Shape, Staged, PreflightFirst, OneService, DryRunLeavesNoTrace,
             Validate, input, Early, Late, Codes, Running, Killed
    <3>2. Told' /\ ExitTells' /\ OthersStillRun'
      BY <1>1, <2>1, LoopUntouched DEF IInv, Staged, Validate, input, Running, Killed
    <3> QED
      BY <3>1, <3>2 DEF IInv
  <2>2. CASE ~(only \subseteq Ids)
    BY <1>1, <2>2, EarlyReturn DEF Returns, Validate, Early
  <2> QED
    BY <2>1, <2>2
<1>2. CASE BadConfig
  BY <1>2, EarlyReturn DEF Returns, BadConfig, Early
<1>3. CASE Preflight
  <2>1. CASE /\ \E listed \in Services : key' \in Choices(listed, wanted)
             /\ pc' = (IF dry THEN "snapshot" ELSE "open")
             /\ UNCHANGED <<snapshot, exit>>
    <3>1. key' # NoKey
      BY <2>1, ServiceAssumption DEF Choices, IInv, Shape, Services
    <3>2. Shape' /\ Staged' /\ PreflightFirst' /\ OneService' /\ DryRunLeavesNoTrace'
      BY <1>3, <2>1, <3>1 DEF IInv, Shape, Staged, PreflightFirst, OneService, DryRunLeavesNoTrace,
             Preflight, input, Early, Late, Codes, Running, Killed
    <3>3. Told' /\ ExitTells' /\ OthersStillRun'
      BY <1>3, <2>1, LoopUntouched DEF IInv, Staged, Preflight, input, Running, Killed
    <3> QED
      BY <3>2, <3>3 DEF IInv
  <2>2. CASE Returns(2) /\ UNCHANGED key
    BY <1>3, <2>2, EarlyReturn DEF Returns, Preflight, Early
  <2> QED
    BY <1>3, <2>1, <2>2 DEF Preflight
<1>4. CASE PreflightFails
  <2>1. PICK code \in {1, 2} \cup {c \in {130} : cancelled} : Returns(code)
    BY <1>4 DEF PreflightFails
  <2> QED
    BY <1>4, <2>1, EarlyReturn DEF Returns, PreflightFails, Early
<1>5. CASE Snapshot
  <2>1. Shape' /\ Staged' /\ PreflightFirst' /\ OneService' /\ DryRunLeavesNoTrace'
    BY <1>5 DEF IInv, Shape, Staged, PreflightFirst, OneService, DryRunLeavesNoTrace,
           Snapshot, input, Early, Late, Codes, Running, Killed
  <2>2. Told' /\ ExitTells' /\ OthersStillRun'
    BY <1>5, LoopUntouched DEF IInv, Staged, Snapshot, input, Running, Killed
  <2> QED
    BY <2>1, <2>2 DEF IInv
<1>6. CASE Open
  <2>1. touched' \in BOOLEAN /\ (touched' => touched \/ ~dry)
    BY <1>6 DEF IInv, Shape, Open, Touch
  <2>2. Shape'
    BY <1>6, <2>1 DEF IInv, Shape, Open, input, Late
  <2>3. Staged' /\ PreflightFirst' /\ OneService' /\ DryRunLeavesNoTrace'
    BY <1>6, <2>1 DEF IInv, Staged, PreflightFirst, OneService, DryRunLeavesNoTrace,
           Open, input, Early, Late, Codes, Running, Killed
  <2>4. Told' /\ ExitTells' /\ OthersStillRun'
    BY <1>6, LoopUntouched DEF IInv, Staged, Open, input, Running, Killed
  <2> QED
    BY <2>2, <2>3, <2>4 DEF IInv
<1>7. CASE DatabaseFails
  <2>1. PICK code \in {1} \cup {c \in {2} : pc = "open"} \cup {c \in {130} : cancelled} :
          exit' = code
    BY <1>7 DEF DatabaseFails
  <2>2. UNCHANGED touched \/ (touched' /\ ~dry /\ pc = "open")
    <3>1. touched' = (touched \/ (~dry /\ pc = "open")) /\ touched \in BOOLEAN
      BY <1>7 DEF DatabaseFails, IInv, Shape
    <3>2. CASE ~dry /\ pc = "open"
      BY <3>1, <3>2
    <3>3. CASE ~(~dry /\ pc = "open")
      BY <3>1, <3>3
    <3> QED
      BY <3>2, <3>3
  <2> QED
    BY <1>7, <2>1, <2>2, EarlyReturn DEF DatabaseFails, Early
<1>8. CASE Skip
  <2>1. next \in 1..Len(Tagger) /\ Tagger[next] \in Ids
        /\ \A i \in 1..Len(Tagger) : i # next => Tagger[i] # Tagger[next]
    BY <1>8, NextIsId DEF IInv, Skip
  <2>2. Shape'
    BY <1>8, <2>1 DEF IInv, Shape, Skip, input
  <2>3. Told'
    <3>1. \A i \in 1..Len(Tagger) : Tagger[i] \in Ids /\ i \in Int
      BY IdAssumption DEF Ids
    <3>2. \A i \in 1..Len(Tagger) :
            result'[Tagger[i]] = IF i = next THEN "skipped" ELSE result[Tagger[i]]
      BY <1>8, <2>1, <3>1 DEF IInv, Shape, Skip
    <3>3. ASSUME exit' # Killed, NEW i \in 1..Len(Tagger)
          PROVE  result'[Tagger[i]] \in IF Over(i)' THEN Due(Tagger[i])' ELSE {"none"}
      BY <1>8, <2>1, <3>1, <3>2, <3>3 DEF IInv, Shape, Told, Over, Due, Selected, Skip, input
    <3>4. ASSUME exit' # Killed, NEW t \in unsaved' PROVE result'[t] = "failed"
      BY <1>8, <2>1, <3>4 DEF IInv, Shape, Told, Over, Skip
    <3> QED
      BY <1>8, <3>3, <3>4 DEF IInv, Told, Skip
  <2> QED
    BY <1>8, <2>2, <2>3, LoopStep DEF Skip, input
<1>9. CASE RunTagger
  <2>1. next \in 1..Len(Tagger) /\ Tagger[next] \in Ids
        /\ \A i \in 1..Len(Tagger) : i # next => Tagger[i] # Tagger[next]
    BY <1>9, NextIsId DEF IInv, RunTagger
  <2>2. PICK status \in {"completed", "failed"} :
          /\ result' = [result EXCEPT ![Tagger[next]] = status]
          /\ \/ UNCHANGED unsaved
             \/ status = "failed" /\ ~dry /\ unsaved' = unsaved \cup {Tagger[next]}
    BY <1>9 DEF RunTagger
  <2>3. Shape'
    BY <1>9, <2>1, <2>2 DEF IInv, Shape, RunTagger, input, Late
  <2>4. Told'
    <3>1. \A i \in 1..Len(Tagger) : Tagger[i] \in Ids /\ i \in Int
      BY IdAssumption DEF Ids
    <3>2. \A i \in 1..Len(Tagger) :
            result'[Tagger[i]] = IF i = next THEN status ELSE result[Tagger[i]]
      BY <2>1, <2>2, <3>1 DEF IInv, Shape
    <3>3. ASSUME exit' # Killed, NEW i \in 1..Len(Tagger)
          PROVE  result'[Tagger[i]] \in IF Over(i)' THEN Due(Tagger[i])' ELSE {"none"}
      BY <1>9, <2>1, <3>1, <3>2, <3>3 DEF IInv, Shape, Told, Over, Due, Selected, RunTagger, input
    <3>4. ASSUME exit' # Killed, NEW t \in unsaved' PROVE result'[t] = "failed"
      BY <1>9, <2>1, <2>2, <3>4 DEF IInv, Shape, Told, Over, RunTagger
    <3> QED
      BY <1>9, <3>3, <3>4 DEF IInv, Told, RunTagger
  <2> QED
    BY <1>9, <2>3, <2>4, LoopStep DEF RunTagger, input
<1>10. CASE Look
  <2>1. Shape'
    BY <1>10 DEF IInv, Shape, Look, input, Late
  <2>2. Told'
    BY <1>10 DEF IInv, Shape, Told, Over, Due, Selected, Look, input
  <2> QED
    BY <1>10, <2>1, <2>2, LoopStep DEF Look, input
<1>11. CASE AllRan
  <2>1. Shape'
    BY <1>11 DEF IInv, Shape, AllRan, input, Late
  <2>2. Told'
    BY <1>11 DEF IInv, Shape, Told, Over, Due, Selected, AllRan, input
  <2> QED
    BY <1>11, <2>1, <2>2, LoopStep DEF AllRan, input
<1>12. CASE Return
  <2>1. Code \in {0, 1, 130} /\ (Code = 130 <=> stopped)
        /\ (Code = 0 => \A t \in Ids : result[t] # "failed")
    BY DEF Code
  <2>2. Shape' /\ Staged' /\ PreflightFirst' /\ OneService' /\ DryRunLeavesNoTrace'
    BY <1>12, <2>1 DEF IInv, Shape, Staged, PreflightFirst, OneService, DryRunLeavesNoTrace,
           Return, Returns, Remains, Deferred, input, Early, Late, Codes, Running, Killed
  <2>3. Told'
    BY <1>12, <2>1 DEF IInv, Shape, Staged, Told, Over, Due, Selected, Return, Returns, input,
           Running, Killed, Late
  <2>4. ~stopped => \A t \in Ids : result[t] \in Due(t)
    <3>1. ASSUME ~stopped, NEW t \in Ids PROVE result[t] \in Due(t)
      <4>1. PICK i \in 1..Len(Tagger) : t = Tagger[i]
        BY DEF Ids
      <4>2. next > Len(Tagger) /\ exit # Killed
        BY <1>12, <3>1 DEF IInv, Staged, Told, Return, Running, Killed
      <4>3. Over(i)
        BY <4>2, IdAssumption DEF Over, IInv, Shape
      <4> QED
        BY <4>1, <4>2, <4>3 DEF IInv, Told
    <3> QED
      BY <3>1
  <2>5. ExitTells' /\ OthersStillRun'
    BY <1>12, <2>1, <2>4 DEF IInv, Shape, Told, Staged, ExitTells, OthersStillRun, Due, Selected,
           Return, Returns, input, Running, Killed, Late
  <2> QED
    BY <2>2, <2>3, <2>5 DEF IInv
<1>13. CASE Cancel
  <2>1. Shape' /\ Staged' /\ PreflightFirst' /\ OneService' /\ DryRunLeavesNoTrace'
    BY <1>13 DEF IInv, Shape, Staged, PreflightFirst, OneService, DryRunLeavesNoTrace, Cancel, input
  <2>2. Told' /\ ExitTells' /\ OthersStillRun'
    BY <1>13, LoopUntouched DEF IInv, Cancel, input, Running, Killed
  <2> QED
    BY <2>1, <2>2 DEF IInv
<1>14. CASE Kill
  <2>1. Shape' /\ Staged' /\ PreflightFirst' /\ OneService' /\ DryRunLeavesNoTrace'
    BY <1>14 DEF IInv, Shape, Staged, PreflightFirst, OneService, DryRunLeavesNoTrace, Kill, input,
           Early, Late, Codes, Running, Killed
  <2>2. Told' /\ ExitTells' /\ OthersStillRun'
    BY <1>14, LoopUntouched DEF IInv, Kill, input, Running, Killed
  <2> QED
    BY <2>1, <2>2 DEF IInv
<1>15. CASE ChangeServices
  <2>1. Shape' /\ Staged' /\ PreflightFirst' /\ OneService' /\ DryRunLeavesNoTrace'
    BY <1>15 DEF IInv, Shape, Staged, PreflightFirst, OneService, DryRunLeavesNoTrace,
           ChangeServices, input
  <2>2. Told' /\ ExitTells' /\ OthersStillRun'
    BY <1>15, LoopUntouched DEF IInv, ChangeServices, input, Running, Killed
  <2> QED
    BY <2>1, <2>2 DEF IInv
<1>16. CASE UNCHANGED vars
  <2>1. Shape' /\ Staged' /\ PreflightFirst' /\ OneService' /\ DryRunLeavesNoTrace'
    BY <1>16 DEF IInv, Shape, Staged, PreflightFirst, OneService, DryRunLeavesNoTrace, vars
  <2>2. Told' /\ ExitTells' /\ OthersStillRun'
    BY <1>16 DEF IInv, Told, Over, Due, Selected, ExitTells, OthersStillRun, vars
  <2> QED
    BY <2>1, <2>2 DEF IInv
<1>17. CASE Hold
  <2>1. Shape' /\ Staged' /\ PreflightFirst' /\ OneService' /\ DryRunLeavesNoTrace'
    BY <1>17 DEF IInv, Shape, Staged, PreflightFirst, OneService, DryRunLeavesNoTrace, Hold,
           input, Codes, Running
  <2>2. Told' /\ ExitTells' /\ OthersStillRun'
    BY <1>17, LoopUntouched DEF IInv, Hold, input, Running, Killed
  <2> QED
    BY <2>1, <2>2 DEF IInv
<1> QED
  BY <1>1, <1>2, <1>3, <1>4, <1>5, <1>6, <1>7, <1>8, <1>9, <1>10, <1>11, <1>12, <1>13, <1>14,
     <1>15, <1>16, <1>17 DEF Next, Step

\* The invariant holds of every state of the command.
THEOREM Invariance == Spec => []IInv
  BY InitIInv, NextIInv, PTL DEF Spec

\* Whatever the arguments, whoever cancels or kills it, the command writes nothing
\* before preflight resolved a service (run.go, the order of run).
THEOREM PreflightComesFirst == Spec => []PreflightFirst
<1>1. IInv => PreflightFirst
  BY DEF IInv
<1> QED
  BY <1>1, Invariance, PTL

\* A dry run pushes nothing, leaves the database alone, and its copy is gone unless
\* it was killed or another program held the copy, whichever way it returns (run.go's
\* deferred removeDB).
THEOREM DryRunsLeaveNoTrace == Spec => []DryRunLeavesNoTrace
<1>1. IInv => DryRunLeavesNoTrace
  BY DEF IInv
<1> QED
  BY <1>1, Invariance, PTL

\* The exit code tells the truth, for any taggers, selected in any way (exitCode).
THEOREM ExitCodeTells == Spec => []ExitTells
<1>1. IInv => ExitTells
  BY DEF IInv
<1> QED
  BY <1>1, Invariance, PTL

\* One tagger failing does not stop the others (Host.Run's loop).
THEOREM OthersRunAllTheSame == Spec => []OthersStillRun
<1>1. IInv => OthersStillRun
  BY DEF IInv
<1> QED
  BY <1>1, Invariance, PTL

\* One service is pushed to, and the choice of it was clear when it was made.
THEOREM OneTarget == Spec => OnePushTarget
<1>1. IInv => pushedTo \subseteq {key}
  BY DEF IInv, OneService
<1>2. ASSUME IInv, [Next]_vars, key' # key
      PROVE  /\ key = NoKey
             /\ {k \in DOMAIN services : wanted \in {NoName, services[k]}} = {key'}
  <2>0. PICK listed \in Services : /\ <<services, listed>> \in Readings
                                   /\ key' \in Choices(listed, wanted) /\ pc = "preflight"
    BY <1>2 DEF Next, Step, Validate, BadConfig, Preflight, PreflightFails, Snapshot, Open,
           DatabaseFails, Skip, RunTagger, Look, AllRan, Return, Cancel, Kill, ChangeServices,
           Hold, vars
  <2>1. key' \in Choices(services, wanted) /\ pc = "preflight"
    BY <1>2, <2>0, ReadsWhatThereIs DEF IInv, Shape
  <2>2. key = NoKey
    BY <1>2, <2>1 DEF IInv, Staged, Early
  <2> DEFINE fit == IF wanted = NoName THEN DOMAIN services
                    ELSE {k \in DOMAIN services : services[k] = wanted}
  <2>3. Cardinality(fit) = 1 /\ key' \in fit
    BY <2>1 DEF Choices
  <2>4. IsFiniteSet(fit)
    <3>1. DOMAIN services \subseteq Service
      BY <1>2 DEF IInv, Shape, Services
    <3>2. fit \subseteq Service
      BY <3>1
    <3> QED
      BY <3>2, ServiceAssumption, FS_Subset
  <2>5. fit = {key'}
    BY <2>3, <2>4, FS_Singleton
  <2>6. fit = {k \in DOMAIN services : wanted \in {NoName, services[k]}}
    OBVIOUS
  <2> QED
    BY <2>2, <2>5, <2>6
<1> QED
  BY <1>1, <1>2, Invariance, PTL DEF Spec, OnePushTarget

\* A service that is clearly meant is never refused, whichever way it is reported.
THEOREM ClearChoicesAreTaken == Spec => ClearChoiceIsTaken
<1>1. ASSUME IInv, Preflight
      PROVE  key' = NoKey <=> ~ \E k \in Service :
               {c \in DOMAIN services : wanted \in {NoName, services[c]}} = {k}
  <2>. DEFINE fit == {c \in DOMAIN services : wanted \in {NoName, services[c]}}
  <2>1. PICK listed \in Services :
          /\ <<services, listed>> \in Readings
          /\ \/ key' \in Choices(listed, wanted)
             \/ Choices(listed, wanted) = {} /\ UNCHANGED key
    BY <1>1 DEF Preflight
  <2>2. listed = services
    BY <1>1, <2>1, ReadsWhatThereIs DEF IInv, Shape
  <2>3. Choices(services, wanted) = IF Cardinality(fit) = 1 THEN fit ELSE {}
    <3>1. fit = IF wanted = NoName THEN DOMAIN services
                ELSE {k \in DOMAIN services : services[k] = wanted}
      OBVIOUS
    <3>. HIDE DEF fit
    <3>. QED  BY <3>1 DEF Choices
  <2>4. fit \subseteq Service /\ IsFiniteSet(fit)
    <3>1. DOMAIN services \subseteq Service
      BY <1>1 DEF IInv, Shape, Services
    <3>2. fit \subseteq Service
      BY <3>1
    <3>. HIDE DEF fit
    <3>. QED  BY <3>2, ServiceAssumption, FS_Subset
  <2>5. Cardinality(fit) = 1 <=> \E k \in Service : fit = {k}
    <3>. HIDE DEF fit
    <3>1. Cardinality(fit) = 1 <=> \E k : fit = {k}
      BY <2>4, FS_Singleton
    <3>. QED  BY <2>4, <3>1
  <2>6. key = NoKey
    BY <1>1 DEF Preflight, IInv, Staged, Early
  <2>7. NoKey \notin fit
    BY <2>4, ServiceAssumption
  <2>. HIDE DEF fit
  <2>8. key' = NoKey <=> ~ \E k \in Service : fit = {k}
    BY <2>1, <2>2, <2>3, <2>5, <2>6, <2>7
  <2>. QED  BY <2>8 DEF fit
<1> QED
  BY <1>1, Invariance, PTL DEF ClearChoiceIsTaken

=============================================================================
