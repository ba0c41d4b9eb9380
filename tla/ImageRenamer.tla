---------------------------- MODULE ImageRenamer -----------------------------
(***************************************************************************)
(* image_renamer: walks the working directory and copies every VRChat      *)
(* photo to output/<year>-<month>/ under one canonical name, with the time *)
(* the name tells as its modification time.  Sources are never changed.    *)
(* What is stated is what a walk leaves behind when it is stopped half way *)
(* or refuses a file, and what the next one makes of it.                   *)
(***************************************************************************)
EXTENDS Naturals, FiniteSets

CONSTANTS
  Photo,     \* source files, numbered in the order filepath.Walk visits them
  Shot,      \* each one's form, date, size, readonly and beneath: see ShotAssumption
  Size,      \* resolutions
  Gap,       \* hours the local clock skips: <<year, month, day, hour>>
  Never,     \* no resolution, no photo
  MaxFaults  \* bound: failures and kills

Date == [y : Nat, m : Nat, d : Nat, h : Nat]

\* A copy: the photo whose bytes it has, all of them; whether it has the photo's time;
\* whether it can be opened for writing.
CopyState == [of : Photo \cup {Never}, stamped : BOOLEAN, writable : BOOLEAN]

ASSUME PhotoAssumption == Photo \subseteq Nat /\ Never \notin Photo \cup Size \cup CopyState
ASSUME ShotAssumption ==
  \A k \in Photo :
    /\ Shot[k].form \in {"new", "old", "dated", "other"}  \* by name, or by its directory's
    /\ Shot[k].date \in Date                              \* the digits of the name
    /\ Shot[k].size \in Size \cup {Never}                 \* Never: no PNG header
    /\ Shot[k].readonly \in BOOLEAN
    /\ Shot[k].beneath \in BOOLEAN                        \* in a directory named "output"
ASSUME BoundAssumption == MaxFaults \in Nat

VARIABLES
  present,  \* photos in the input directory
  copies,   \* per name, the copy in the output directory, if any
  left,     \* paths the walk has not come to
  stage,    \* off, visit, copy or stamp
  exit,     \* how the last walk ended
  unseen,   \* history: names whose copy this walk failed to write, without noticing
  faults

vars == <<present, copies, left, stage, exit, unseen, faults>>

-----------------------------------------------------------------------------
Leap(y) == y % 4 = 0 /\ (y % 100 # 0 \/ y % 400 = 0)

DaysIn(y, m) ==
  IF m = 2 THEN IF Leap(y) THEN 29 ELSE 28
  ELSE IF m \in {4, 6, 9, 11} THEN 30 ELSE 31

\* time.Date: days past the month's last run over into the next, and an hour the
\* clock skips becomes another.
Normal(t) ==
  IF t.d > DaysIn(t.y, t.m)
  THEN [t EXCEPT !.d = @ - DaysIn(t.y, t.m),
                 !.m = IF @ = 12 THEN 1 ELSE @ + 1,
                 !.y = IF t.m = 12 THEN @ + 1 ELSE @]
  ELSE IF <<t.y, t.m, t.d, t.h>> \in Gap THEN [t EXCEPT !.h = @ + 1] ELSE t

\* parseParts: each unit's range, then the round trip through time.Date.  Minutes,
\* seconds and milliseconds are treated as the hour is.
Accepted(t) ==
  /\ t.y \in 2000..2500 /\ t.m \in 1..12 /\ t.d \in 1..32 /\ t.h \in 0..23
  /\ Normal(t) = t

-----------------------------------------------------------------------------
\* A path is a photo's or, in the output directory, that of the copy of a name.
Name == {[date |-> Shot[k].date, size |-> Shot[k].size] : k \in Photo}
Path == ({"in"} \X Photo) \cup ({"out"} \X Name)

\* The canonical name, whichever form the file's own has.  A dated file's
\* resolution is read from it (getResolution), a named one's is in its name.
NameOf(path) ==
  IF path[1] = "out" THEN path[2]
  ELSE [date |-> Shot[path[2]].date, size |-> Shot[path[2]].size]

\* None of the three forms.
Unmatched(path) == path[1] = "in" /\ Shot[path[2]].form = "other"

\* A form that matches, and what parseParts or getResolution refuses.
Refused(path) ==
  ~Unmatched(path) /\ (~Accepted(NameOf(path).date) \/ NameOf(path).size = Never)

\* Mutant: output directories are walked like any other.
SkipNothing(path) == FALSE

\* SkipDir: any directory named like the output directory, wherever it is.
Skipped(path) == path[1] = "out" \/ Shot[path[2]].beneath

\* What the walk will come to.
Walked ==
  {path \in Path : /\ path[1] = "in" => path[2] \in present
                   /\ path[1] = "out" => copies[path[2]] # Never
                   /\ ~Skipped(path)}

\* Lexical order: photos' and their directories' names come before "output".
FirstOf(paths) ==
  CHOOSE path \in paths :
    IF \E k \in Photo : <<"in", k>> \in paths
    THEN path[1] = "in" /\ \A k \in Photo : <<"in", k>> \in paths => path[2] <= k
    ELSE TRUE

\* The path the walk is at, and what its copy is called.
At == FirstOf(left)
Dest == NameOf(At)

Init ==
  /\ present = {} /\ copies = [n \in Name |-> Never]
  /\ left = {} /\ stage = "off" /\ exit = "none" /\ unseen = {} /\ faults = 0

Fault == faults < MaxFaults /\ faults' = faults + 1

\* The first error ends the walk, with status 1.
Abort == left' = {} /\ stage' = "off" /\ exit' = "failed"

\* Files come and go between walks.
Rearrange ==
  /\ stage = "off"
  /\ \E k \in Photo : present' \in {present \cup {k}, present \ {k}}
  /\ UNCHANGED <<copies, left, stage, exit, unseen, faults>>

Walk ==
  /\ stage = "off"
  /\ left' = Walked /\ stage' = "visit" /\ exit' = "none" /\ unseen' = {}
  /\ UNCHANGED <<present, copies, faults>>

\* A file of no known form is passed over.
Ignore ==
  /\ stage = "visit" /\ left # {} /\ Unmatched(At)
  /\ left' = left \ {At}
  /\ UNCHANGED <<present, copies, stage, exit, unseen, faults>>

Refuse ==
  /\ stage = "visit" /\ left # {} /\ Refused(At)
  /\ Abort
  /\ UNCHANGED <<present, copies, unseen, faults>>

Writable(path) == path[1] = "out" \/ ~Shot[path[2]].readonly

\* Mutant: what is there already is not written again.
OpenUnlessThere ==
  /\ stage = "visit" /\ left # {} /\ ~Unmatched(At) /\ ~Refused(At)
  /\ IF copies[Dest] # Never
     THEN left' = left \ {At} /\ UNCHANGED <<copies, stage>>
     ELSE /\ copies' = [copies EXCEPT ![Dest] =
                          [of |-> Never, stamped |-> FALSE, writable |-> Writable(At)]]
          /\ stage' = "copy" /\ UNCHANGED left
  /\ UNCHANGED <<present, exit, unseen, faults>>

\* copyFile opens the destination: one that is there is truncated and keeps its
\* mode, a new one takes its source's.
Open ==
  /\ stage = "visit" /\ left # {} /\ ~Unmatched(At) /\ ~Refused(At)
  /\ copies[Dest] # Never => copies[Dest].writable
  /\ copies' = [copies EXCEPT ![Dest] =
       [of |-> Never, stamped |-> FALSE,
        writable |-> IF copies[Dest] = Never THEN Writable(At) ELSE copies[Dest].writable]]
  /\ stage' = "copy" /\ unseen' = unseen \ {Dest}
  /\ UNCHANGED <<present, left, exit, faults>>

\* A copy that took the mode of a read-only photo cannot be opened again.
Locked ==
  /\ stage = "visit" /\ left # {} /\ ~Unmatched(At) /\ ~Refused(At)
  /\ copies[Dest] # Never /\ ~copies[Dest].writable
  /\ Abort
  /\ UNCHANGED <<present, copies, unseen, faults>>

\* The bytes of a path, at the time they are read: a copy that is being written
\* over itself has none.
Bytes(path) == IF path[1] = "in" THEN path[2] ELSE copies[path[2]].of

\* All bytes are written; until then the copy has, as far as anyone can tell, none.
Copy ==
  /\ stage = "copy"
  /\ copies' = [copies EXCEPT ![Dest].of = Bytes(At)]
  /\ stage' = "stamp"
  /\ UNCHANGED <<present, left, exit, unseen, faults>>

\* copyFile drops the error of the deferred Close: bytes the file system loses that
\* late are missed by nobody, and the walk goes on.
CloseFails ==
  /\ stage = "copy" /\ Fault
  /\ stage' = "stamp" /\ unseen' = unseen \cup {Dest}
  /\ UNCHANGED <<present, copies, left, exit>>

\* Mutant: the time is set while the copy is open, and the last write undoes it.
StampLost ==
  /\ stage = "stamp"
  /\ left' = left \ {At} /\ stage' = "visit"
  /\ UNCHANGED <<present, copies, exit, unseen, faults>>

\* Chtimes, once the copy is closed.
Stamp ==
  /\ stage = "stamp"
  /\ copies' = [copies EXCEPT ![Dest].stamped = TRUE]
  /\ left' = left \ {At} /\ stage' = "visit"
  /\ UNCHANGED <<present, exit, unseen, faults>>

Finish ==
  /\ stage = "visit" /\ left = {}
  /\ stage' = "off" /\ exit' = "ok"
  /\ UNCHANGED <<present, copies, left, unseen, faults>>

\* A file operation whose error is looked at fails, or the program is killed,
\* between any two steps.
Fail ==
  /\ stage # "off" /\ Fault
  /\ Abort
  /\ UNCHANGED <<present, copies, unseen>>

Step == Walk \/ Ignore \/ Refuse \/ Open \/ Locked \/ Copy \/ Stamp \/ Finish
Next == Step \/ Rearrange \/ Fail \/ CloseFails

Spec == Init /\ [][Next]_vars

\* File operations return, and the program is started again and again.
FairSpec == Spec /\ WF_vars(Step)

-----------------------------------------------------------------------------
(***************************************************************************)
(* Properties.                                                             *)
(***************************************************************************)

TypeOK ==
  /\ present \subseteq Photo
  /\ copies \in [Name -> {Never} \cup CopyState]
  /\ left \subseteq Path
  /\ stage \in {"off", "visit", "copy", "stamp"}
  /\ exit \in {"none", "ok", "failed"}
  /\ unseen \subseteq Name
  /\ faults \in 0..MaxFaults

\* The photos the program is for: of a known form, not beneath an output directory.
Wanted == {k \in present : Shot[k].form # "other" /\ ~Shot[k].beneath}

\* A copy that has all bytes of a photo of its name, and its time.
Good(n) ==
  /\ copies[n] # Never /\ copies[n].stamped
  /\ copies[n].of # Never /\ NameOf(<<"in", copies[n].of>>) = n

AllCopied ==
  \A k \in Wanted : LET n == NameOf(<<"in", k>>) IN Good(n) /\ copies[n].of \in present

\* At every point of a walk each photo it has passed has its copy, of photos with one
\* name one, even when an earlier walk was stopped half way.  All that can be missing
\* is what was lost in closing a copy, which the program does not look at.
PassedAreCopied ==
  stage = "visit" =>
    \A k \in Wanted : <<"in", k>> \notin left =>
      LET n == NameOf(<<"in", k>>)
      IN  (Good(n) /\ copies[n].of \in present) \/ n \in unseen

\* Torn copies are what failures and kills have left, one each at the most, those in
\* closing too: a walk that refuses a file leaves none, nor does one that succeeds
\* without a fault.  (A later walk truncates what
\* an earlier one finished, so that a kill may tear a copy that was good.)
OneTornPerFault ==
  Cardinality({n \in Name : copies[n] # Never /\ ~Good(n)})
    <= faults + (IF stage \in {"copy", "stamp"} THEN 1 ELSE 0)

\* A day the calendar has and an hour the local clock shows.
Real(t) ==
  /\ t.y \in 2000..2500 /\ t.m \in 1..12 /\ t.d \in 1..DaysIn(t.y, t.m) /\ t.h \in 0..23
  /\ <<t.y, t.m, t.d, t.h>> \notin Gap

\* What could make a walk refuse.
Acceptable ==
  \A k \in Wanted : LET n == NameOf(<<"in", k>>) IN
    Real(n.date) /\ n.size # Never /\ (copies[n] # Never => copies[n].writable)

\* Once no photo is left that a walk refuses, all are copied again and again,
\* whatever earlier walks left behind.  One bad photo keeps all after it from being
\* copied, for ever.
Mends == <>[]Acceptable => []<>AllCopied

=============================================================================
