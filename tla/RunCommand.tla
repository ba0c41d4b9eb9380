----------------------------- MODULE RunCommand -----------------------------
(***************************************************************************)
(* The run command around the taggers: cmd/hydrus-tagger/run.go, the exit  *)
(* codes of main.go and Host.Run of internal/tagging.  A tagger's own run  *)
(* (TaggerRun) is one step here, with the ways it can end.                 *)
(***************************************************************************)
EXTENDS ServiceReply, Sequences

CONSTANTS
  Tagger,  \* taggers the binary has, in the order they run
  Unknown  \* a tagger id it does not have

Ids == {Tagger[i] : i \in 1..Len(Tagger)}

ASSUME IdAssumption ==
  /\ Tagger \in Seq(Ids) /\ Unknown \notin Ids
  /\ \A i, j \in 1..Len(Tagger) : Tagger[i] = Tagger[j] => i = j

VARIABLES
  \* The command line and configuration.
  only,       \* --only
  dry,        \* --dry-run
  wanted,     \* the configured service name
  \* The world.
  services,   \* Hydrus's local tag services: a function from keys to names
  existed,    \* was there a database before the run?
  touched,    \* may the run have written to it, or created it?
  snapshot,   \* is there a file at the dry run's temporary path?
  held,       \* does another program keep such a file from being removed?
  pushedTo,   \* services that were pushed to
  \* The process.
  pc, cancelled,
  key,        \* the service key preflight resolved
  next,       \* index of the tagger to run next
  stopped,    \* did Host.Run return the context's error?
  result,     \* each tagger's status in the report
  unsaved,    \* taggers whose last save failed
  exit        \* the process's exit code

vars == <<only, dry, wanted, services, existed, touched, snapshot, held, pushedTo,
          pc, cancelled, key, next, stopped, result, unsaved, exit>>

input == <<only, dry, wanted, existed>>

Codes == {0, 1, 2, 130}
Running == 10  \* no exit code yet
Killed  == 11  \* ended without one

TypeOK ==
  /\ only \subseteq Ids \cup {Unknown}
  /\ dry \in BOOLEAN /\ existed \in BOOLEAN /\ touched \in BOOLEAN
  /\ snapshot \in BOOLEAN /\ held \in BOOLEAN
  /\ cancelled \in BOOLEAN /\ stopped \in BOOLEAN
  /\ wanted \in Name \cup {NoName}
  /\ services \in Services
  /\ pushedTo \subseteq Service
  /\ pc \in {"validate", "preflight", "snapshot", "open", "taggers", "look", "return",
             "exited"}
  /\ key \in Service \cup {NoKey}
  /\ next \in 1..(Len(Tagger) + 1)
  /\ result \in [Ids -> {"none", "completed", "failed", "skipped"}]
  /\ unsaved \subseteq Ids
  /\ exit \in Codes \cup {Running, Killed}

Init ==
  /\ only \in SUBSET (Ids \cup {Unknown})
  /\ dry \in BOOLEAN
  /\ wanted \in Name \cup {NoName}
  /\ services \in Services
  /\ existed \in BOOLEAN
  /\ touched = FALSE
  /\ snapshot \in BOOLEAN  \* a killed dry run of the same pid may have left one
  /\ held \in BOOLEAN
  /\ pushedTo = {}
  /\ pc = "validate"
  /\ cancelled = FALSE
  /\ key = NoKey
  /\ next = 1
  /\ stopped = FALSE
  /\ result = [t \in Ids |-> "none"]
  /\ unsaved = {}
  /\ exit = Running

-----------------------------------------------------------------------------
\* run() returns: the deferred removal of the snapshot, then the exit code.

\* Before the dry-run branch nothing has been deferred.
Deferred == dry /\ pc \notin {"validate", "preflight"}

\* Mutants: the snapshot removed only after a run that went well; removed before
\* the database is closed, which keeps it from being removed.
ReturnsTidyIfWell(code) ==
  /\ exit' = code
  /\ snapshot' = (snapshot /\ (held \/ ~Deferred \/ code # 0))
  /\ pc' = "exited"
ReturnsBeforeClose(code) ==
  /\ exit' = code
  /\ snapshot' = (snapshot /\ (held \/ ~Deferred \/ pc = "return"))
  /\ pc' = "exited"

\* removeDB, once the database is closed.  Nobody hears of a removal that failed.
Remains(there) == there /\ (held \/ ~Deferred)

Returns(code) ==
  /\ exit' = code
  /\ snapshot' = Remains(snapshot)
  /\ pc' = "exited"

\* Mutant: the database opened before anything was asked of Hydrus.
ValidateOnly ==
  /\ pc = "validate"
  /\ IF only \subseteq Ids
     THEN pc' = "open" /\ UNCHANGED <<snapshot, exit>>
     ELSE Returns(2)
  /\ UNCHANGED <<input, held, services, touched, pushedTo, cancelled, key, next,
                 stopped, result, unsaved>>

Validate ==
  /\ pc = "validate"
  /\ IF only \subseteq Ids
     THEN pc' = "preflight" /\ UNCHANGED <<snapshot, exit>>
     ELSE Returns(2)
  /\ UNCHANGED <<input, held, services, touched, pushedTo, cancelled, key, next,
                 stopped, result, unsaved>>

\* A client that cannot be configured: no key, a malformed address.
BadConfig ==
  /\ pc = "preflight"
  /\ Returns(2)
  /\ UNCHANGED <<input, held, services, touched, pushedTo, cancelled, key, next,
                 stopped, result, unsaved>>

\* Hydrus is asked for its services; one must clearly be meant.
Preflight ==
  /\ pc = "preflight"
  /\ \E listed \in Services :
       /\ <<services, listed>> \in Readings
       /\ \/ /\ key' \in Choices(listed, wanted)
             /\ pc' = IF dry THEN "snapshot" ELSE "open"
             /\ UNCHANGED <<snapshot, exit>>
          \/ /\ Choices(listed, wanted) = {}
             /\ Returns(2)
             /\ UNCHANGED key
  /\ UNCHANGED <<input, held, services, touched, pushedTo, cancelled, next, stopped,
                 result, unsaved>>

\* Hydrus cannot be reached or refuses, or answers what is not JSON; or Ctrl+C.
PreflightFails ==
  /\ pc = "preflight"
  /\ \E code \in {1, 2} \cup {c \in {130} : cancelled} : Returns(code)
  /\ UNCHANGED <<input, held, services, touched, pushedTo, cancelled, key, next,
                 stopped, result, unsaved>>

\* A dry run works on a copy of the database if there is one.
Snapshot ==
  /\ pc = "snapshot"
  /\ snapshot' = (existed \/ snapshot)
  /\ pc' = "open"
  /\ UNCHANGED <<input, held, services, touched, pushedTo, cancelled, key, next,
                 stopped, result, unsaved, exit>>

\* Mutant: the dry run's database is the real one after all.
TouchAlways == touched' = TRUE /\ UNCHANGED snapshot

\* Opening creates, adopts or migrates, whichever file it is.
Touch == IF dry THEN snapshot' = TRUE /\ UNCHANGED touched
                ELSE touched' = TRUE /\ UNCHANGED snapshot

Open ==
  /\ pc = "open"
  /\ Touch
  /\ pc' = "taggers"
  /\ UNCHANGED <<input, held, services, pushedTo, cancelled, key, next, stopped,
                 result, unsaved, exit>>

\* The copy or the opening fails, be it because the context is done, with the copy
\* made or not.  A database of the Python pipeline is the user's to deal with.
DatabaseFails ==
  /\ pc \in {"snapshot", "open"}
  /\ touched' = (touched \/ (~dry /\ pc = "open"))
  /\ \E code \in {1} \cup {c \in {2} : pc = "open"} \cup {c \in {130} : cancelled} :
       exit' = code
  /\ \E made \in {FALSE, dry} : snapshot' = Remains(snapshot \/ made)
  /\ pc' = "exited"
  /\ UNCHANGED <<input, held, services, pushedTo, cancelled, key, next, stopped,
                 result, unsaved>>

-----------------------------------------------------------------------------
\* Host.Run.

Selected(t) == only = {} \/ t \in only

Skip ==
  /\ pc = "taggers" /\ next <= Len(Tagger)
  /\ ~Selected(Tagger[next])
  /\ result' = [result EXCEPT ![Tagger[next]] = "skipped"]
  /\ next' = next + 1
  /\ UNCHANGED <<input, held, services, touched, snapshot, pushedTo, pc, cancelled,
                 key, stopped, unsaved, exit>>

\* Mutant: the service resolved again when there is something to push.
PushToCurrent ==
  \E k \in Choices(services, wanted) \cup {key} : pushedTo' = pushedTo \cup {k}

\* Pushes go to the service preflight resolved (RunOptions.TagServiceKey).
Push == pushedTo' = pushedTo \cup {key}

\* One tagger's run, as TaggerRun has it: it may push, fail, or fail to save.
RunTagger ==
  /\ pc = "taggers" /\ next <= Len(Tagger)
  /\ Selected(Tagger[next])
  /\ \E status \in {"completed", "failed"} :
       /\ result' = [result EXCEPT ![Tagger[next]] = status]
       /\ \/ UNCHANGED unsaved
          \/ status = "failed" /\ ~dry /\ unsaved' = unsaved \cup {Tagger[next]}
  /\ \/ UNCHANGED pushedTo
     \/ ~dry /\ Push
  /\ pc' = "look"
  /\ UNCHANGED <<input, held, services, touched, snapshot, cancelled, key, next,
                 stopped, exit>>

\* Mutant: a failed tagger ends the loop too.
LookAtStatus ==
  /\ pc = "look"
  /\ stopped' = cancelled
  /\ next' = next + 1
  /\ pc' = IF cancelled \/ result[Tagger[next]] = "failed" THEN "return" ELSE "taggers"
  /\ UNCHANGED <<input, held, services, touched, snapshot, pushedTo, cancelled, key,
                 result, unsaved, exit>>

\* Only a context that is done ends the loop early.
Look ==
  /\ pc = "look"
  /\ stopped' = cancelled
  /\ next' = next + 1
  /\ pc' = IF cancelled THEN "return" ELSE "taggers"
  /\ UNCHANGED <<input, held, services, touched, snapshot, pushedTo, cancelled, key,
                 result, unsaved, exit>>

AllRan ==
  /\ pc = "taggers" /\ next > Len(Tagger)
  /\ pc' = "return"
  /\ UNCHANGED <<input, held, services, touched, snapshot, pushedTo, cancelled, key,
                 next, stopped, result, unsaved, exit>>

\* Mutant: failed taggers reported, but not told to the caller.
CodeOfCancellation == IF stopped THEN 130 ELSE 0

Code == CASE stopped                                          -> 130
          [] ~stopped /\ \E t \in Ids : result[t] = "failed" -> 1
          [] OTHER                                            -> 0

Return ==
  /\ pc = "return"
  /\ Returns(Code)
  /\ UNCHANGED <<input, held, services, touched, pushedTo, cancelled, key, next,
                 stopped, result, unsaved>>

-----------------------------------------------------------------------------
\* Ctrl+C.
Cancel ==
  /\ exit = Running /\ ~cancelled
  /\ cancelled' = TRUE
  /\ UNCHANGED <<input, held, services, touched, snapshot, pushedTo, pc, key, next,
                 stopped, result, unsaved, exit>>

\* A second Ctrl+C, at any time: nothing deferred runs.
Kill ==
  /\ exit = Running
  /\ exit' = Killed
  /\ pc' = "exited"
  /\ UNCHANGED <<input, held, services, touched, snapshot, pushedTo, cancelled, key,
                 next, stopped, result, unsaved>>

\* Services are added, removed and renamed in Hydrus while the command runs.
ChangeServices ==
  /\ exit = Running
  /\ services' \in Services
  /\ UNCHANGED <<input, held, touched, snapshot, pushedTo, pc, cancelled, key, next,
                 stopped, result, unsaved, exit>>

\* A virus scanner, say, opens the copy, or is done with it.
Hold ==
  /\ exit = Running
  /\ held' = ~held
  /\ UNCHANGED <<input, services, touched, snapshot, pushedTo, pc, cancelled, key,
                 next, stopped, result, unsaved, exit>>

Step == \/ Validate \/ BadConfig \/ Preflight \/ PreflightFails \/ Snapshot \/ Open
        \/ DatabaseFails \/ Skip \/ RunTagger \/ Look \/ AllRan \/ Return

Next == Step \/ Cancel \/ Kill \/ ChangeServices \/ Hold

Spec == Init /\ [][Next]_vars

-----------------------------------------------------------------------------
\* "A run that cannot reach Hydrus, or names no usable tag service, should leave
\* [the database] exactly as it was" (run.go): nothing is written to it before preflight
\* resolved a service.
PreflightFirst == touched => key # NoKey

\* Whatever is renamed, added or removed in Hydrus while the taggers run, one service
\* is pushed to, and it was the unambiguous choice of those preflight saw.
OnePushTarget ==
  /\ [](pushedTo \subseteq {key})
  /\ [][key' # key => /\ key = NoKey
                     /\ {k \in DOMAIN services : wanted \in {NoName, services[k]}} = {key'}]_vars

\* A service that clearly is the one meant is found, in whatever form Hydrus's version
\* reports it and whatever stands beside it: preflight does not refuse it.
ClearChoiceIsTaken ==
  [][Preflight => (key' = NoKey <=> ~ \E k \in Service :
       {c \in DOMAIN services : wanted \in {NoName, services[c]}} = {k})]_vars

\* A dry run neither pushes nor touches the real database, not even to create or
\* migrate it; and on every way out but a kill it leaves its copy behind only if
\* another program kept it from being removed (run.go's removeDB, which is silent
\* about that).
DryRunLeavesNoTrace ==
  dry => /\ ~touched /\ pushedTo = {}
         /\ exit \in Codes /\ key # NoKey /\ snapshot => held

\* The exit code tells: 0 only when every selected tagger completed and saved, 130
\* only after Ctrl+C (main.go's exitCode, run's last lines).
ExitTells ==
  /\ exit = 0 => unsaved = {} /\ \A t \in Ids :
                   result[t] = IF Selected(t) THEN "completed" ELSE "skipped"
  /\ exit = 130 => cancelled

\* "One tagger failing does not stop the others" (Host.Run): once taggers began to
\* run, a command that was not cancelled has run every one selected.
OthersStillRun ==
  exit \in Codes /\ next > 1 /\ ~cancelled =>
    \A t \in Ids : result[t] \in IF Selected(t) THEN {"completed", "failed"} ELSE {"skipped"}

\* "Cancelled; progress so far was saved" (main.go's exitCode; Host.Run: "each
\* tagger's progress so far is saved before Run returns ctx's error").
CancelledIsSaved == exit = 130 => unsaved = {}
=============================================================================
