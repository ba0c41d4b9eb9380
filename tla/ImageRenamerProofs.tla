-------------------------- MODULE ImageRenamerProofs -------------------------
(***************************************************************************)
(* Theorems about ImageRenamer, for any photos, of any number: a walk has  *)
(* copied all it has passed, but for what was lost unseen in closing, and  *)
(* each torn copy has cost a fault.                                        *)
(***************************************************************************)
EXTENDS ImageRenamer, FiniteSetTheorems, WellFoundedInduction, TLAPS

Copying == stage \in {"copy", "stamp"}

\* What the walk does of a photo is done, or is being done over.
Kept(n) ==
  (Good(n) /\ copies[n].of \in present) \/ (Copying /\ Dest = n) \/ n \in unseen

\* The copy in hand may be torn without its having cost a fault.
Owing == Copying /\ Dest \notin unseen

\* Where a walk is: it comes to photos only, the copy in hand is its photo's and not
\* stamped yet, and every photo it has passed has its copy.
WalkInv ==
  stage # "off" =>
    /\ left \subseteq {"in"} \X present
    /\ Copying => left # {} /\ copies[Dest] # Never /\ ~copies[Dest].stamped
    /\ stage = "copy" => Dest \notin unseen
    /\ stage = "stamp" => copies[Dest].of = At[2] \/ Dest \in unseen
    /\ \A k \in Wanted : <<"in", k>> \notin left => Kept(NameOf(<<"in", k>>))

Torn == {n \in Name : copies[n] # Never /\ ~Good(n)}

TornInv ==
  /\ IsFiniteSet(Torn)
  /\ Cardinality(Torn) <= faults + (IF Owing THEN 1 ELSE 0)

IInv == TypeOK /\ WalkInv /\ TornInv

-----------------------------------------------------------------------------
\* Among photos there is a first one.
LEMMA FirstPhoto ==
  ASSUME NEW S \in SUBSET Photo, S # {}
  PROVE  \E k \in S : \A j \in S : k <= j
<1>1. S \subseteq Nat
  BY PhotoAssumption
<1>2. PICK k \in S : \A j \in S : ~ (<<j, k>> \in OpToRel(<, Nat))
  BY <1>1, NatLessThanWellFounded, WFMin
<1>3. \A j, m \in Nat : j < m => <<j, m>> \in OpToRel(<, Nat)
  BY SMT DEF OpToRel
<1>4. \A j \in S : ~ (j < k)
  BY <1>1, <1>2, <1>3, Zenon
<1>. QED  BY <1>1, <1>4

\* The walk is at a path it has not come past, and that is a photo there.
LEMMA AtIsLeft ==
  ASSUME left \subseteq {"in"} \X present, present \subseteq Photo, left # {}
  PROVE  /\ At \in left
         /\ At = <<"in", At[2]>> /\ At[2] \in present /\ At[2] \in Photo
         /\ Dest \in Name /\ Dest = NameOf(<<"in", At[2]>>)
<1> DEFINE S == {k \in Photo : <<"in", k>> \in left}
<1>1. S # {}
  OBVIOUS
<1>2. PICK k \in S : \A j \in S : k <= j
  BY <1>1, FirstPhoto
<1>3. <<"in", k>> \in left /\ <<"in", k>>[1] = "in" /\ <<"in", k>>[2] = k
  OBVIOUS
<1>4. At \in left
  BY <1>2, <1>3 DEF At, FirstOf
<1>5. At = <<"in", At[2]>> /\ At[2] \in present
  BY <1>4
<1>6. Dest = NameOf(<<"in", At[2]>>)
  BY <1>5 DEF Dest
<1>7. Dest \in Name
  BY <1>5, <1>6 DEF NameOf, Name
<1>. QED  BY <1>4, <1>5, <1>6, <1>7

LEMMA NamesAreNames ==
  ASSUME present \subseteq Photo
  PROVE  \A k \in Wanted : NameOf(<<"in", k>>) \in Name
  BY DEF Wanted, NameOf, Name

LEMMA InitIInv == Init => IInv
<1> SUFFICES ASSUME Init PROVE IInv
  OBVIOUS
<1>1. TypeOK
  BY BoundAssumption DEF Init, TypeOK
<1>2. WalkInv
  BY DEF Init, WalkInv
<1>3. Torn = {}
  BY DEF Init, Torn
<1>4. TornInv
  BY <1>3, FS_EmptySet DEF Init, TornInv, Owing, Copying
<1>. QED  BY <1>1, <1>2, <1>4 DEF IInv

\* A step of the copy in hand touches that copy alone.
LEMMA OtherCopies ==
  ASSUME NEW d \in Name, \A n \in Name \ {d} : copies'[n] = copies[n], UNCHANGED present
  PROVE  /\ \A n \in Name \ {d} : Good(n) <=> Good(n)'
         /\ Torn' \subseteq Torn \cup {d}
<1>1. \A n \in Name \ {d} : Good(n) <=> Good(n)'
  BY DEF Good
<1>. QED  BY <1>1 DEF Torn

\* What no step of a walk changes but those on copies.
LEMMA StillTorn ==
  ASSUME UNCHANGED copies
  PROVE  Torn' = Torn /\ \A n \in Name : Good(n)' <=> Good(n)
  BY DEF Torn, Good

LEMMA FewerTorn ==
  ASSUME TornInv, NEW T \in SUBSET Torn
  PROVE  IsFiniteSet(T) /\ Cardinality(T) <= Cardinality(Torn)
         /\ Cardinality(T) \in Nat /\ Cardinality(Torn) \in Nat
  BY FS_Subset, FS_CardinalityType DEF TornInv

LEMMA MoreTorn ==
  ASSUME TornInv, NEW d, NEW T \in SUBSET (Torn \cup {d})
  PROVE  IsFiniteSet(T) /\ Cardinality(T) <= Cardinality(Torn) + 1
         /\ Cardinality(T) \in Nat /\ Cardinality(Torn) \in Nat
<1>1. IsFiniteSet(Torn)
  BY DEF TornInv
<1>2. IsFiniteSet(Torn \cup {d})
  BY <1>1, FS_AddElement
<1>3. Cardinality(Torn \cup {d}) = Cardinality(Torn)
      \/ Cardinality(Torn \cup {d}) = Cardinality(Torn) + 1
  BY <1>1, FS_AddElement
<1>4. IsFiniteSet(T) /\ Cardinality(T) <= Cardinality(Torn \cup {d})
  BY <1>2, FS_Subset
<1>5. Cardinality(T) \in Nat /\ Cardinality(Torn) \in Nat
  BY <1>1, <1>4, FS_CardinalityType
<1>. QED  BY <1>3, <1>4, <1>5

LEMMA OneLessTorn ==
  ASSUME TornInv, NEW d \in Torn, NEW T \in SUBSET (Torn \ {d})
  PROVE  IsFiniteSet(T) /\ Cardinality(T) + 1 <= Cardinality(Torn)
         /\ Cardinality(T) \in Nat /\ Cardinality(Torn) \in Nat
<1>1. IsFiniteSet(Torn) /\ Cardinality(Torn) \in Nat
  BY FS_CardinalityType DEF TornInv
<1>2. IsFiniteSet(Torn \ {d}) /\ Cardinality(Torn \ {d}) = Cardinality(Torn) - 1
  BY <1>1, FS_RemoveElement
<1>3. IsFiniteSet(T) /\ Cardinality(T) <= Cardinality(Torn \ {d})
  BY <1>2, FS_Subset
<1>4. Cardinality(T) \in Nat
  BY <1>3, FS_CardinalityType
<1>. QED  BY <1>1, <1>2, <1>3, <1>4

\* Steps outside of a walk, and those that end one.
LEMMA NoWalk ==
  ASSUME IInv, stage' = "off", UNCHANGED copies, faults' >= faults,
         Copying => faults' = faults + 1, TypeOK'
  PROVE  IInv'
<1>1. WalkInv'
  BY DEF WalkInv
<1>2. Torn' = Torn /\ ~Copying'
  BY StillTorn DEF Copying
<1>3. TornInv'
  BY <1>2, FewerTorn DEF IInv, TypeOK, TornInv, Owing
<1>. QED  BY <1>1, <1>3 DEF IInv

-----------------------------------------------------------------------------
LEMMA RearrangeKeeps == IInv /\ Rearrange => IInv'
<1> SUFFICES ASSUME IInv, Rearrange PROVE IInv'
  OBVIOUS
<1>1. TypeOK' /\ ~Copying
  BY DEF Rearrange, IInv, TypeOK, Copying
<1>. QED  BY <1>1, NoWalk DEF Rearrange, IInv, TypeOK

LEMMA AbortKeeps == IInv /\ (Refuse \/ Locked \/ Fail) => IInv'
<1> SUFFICES ASSUME IInv, Refuse \/ Locked \/ Fail PROVE IInv'
  OBVIOUS
<1>1. stage' = "off" /\ left' = {} /\ exit' = "failed" /\ UNCHANGED <<present, copies, unseen>>
  BY DEF Refuse, Locked, Fail, Abort
<1>2. faults' \in 0..MaxFaults /\ faults' >= faults /\ (Copying => faults' = faults + 1)
  BY BoundAssumption DEF Refuse, Locked, Fail, Fault, IInv, TypeOK, Copying
<1>3. TypeOK'
  BY <1>1, <1>2 DEF IInv, TypeOK
<1>. QED  BY <1>1, <1>2, <1>3, NoWalk

\* A walk comes to all that is wanted.
LEMMA WalkKeeps == IInv /\ Walk => IInv'
<1> SUFFICES ASSUME IInv, Walk PROVE IInv'
  OBVIOUS
<1>1. Walked \subseteq {"in"} \X present /\ Walked \subseteq Path
  BY DEF Walked, Path, Skipped
<1>2. TypeOK'
  BY <1>1 DEF Walk, IInv, TypeOK
<1>3. \A k \in Wanted : <<"in", k>> \in Walked
  BY DEF Wanted, Walked, Path, Skipped, IInv, TypeOK
<1>4. WalkInv'
  BY <1>1, <1>3 DEF WalkInv, Walk, Copying, Wanted
<1>5. TornInv'
  BY StillTorn DEF IInv, TornInv, Walk, Owing, Copying
<1>. QED  BY <1>2, <1>4, <1>5 DEF IInv

\* What is passed over is not wanted.
LEMMA IgnoreKeeps == IInv /\ Ignore => IInv'
<1> SUFFICES ASSUME IInv, Ignore PROVE IInv'
  OBVIOUS
<1>1. TypeOK'
  BY DEF Ignore, IInv, TypeOK
<1>2. At = <<"in", At[2]>> /\ At[2] \notin Wanted
  BY AtIsLeft DEF Ignore, IInv, TypeOK, WalkInv, Unmatched, Wanted
<1>3. \A k \in Wanted' : <<"in", k>> \notin left' => <<"in", k>> \notin left /\ k \in Wanted
  BY <1>2 DEF Ignore, Wanted
<1>4. \A n : Kept(n) => Kept(n)'
  BY DEF Ignore, Kept, Good, Copying
<1>5. WalkInv'
  BY <1>3, <1>4 DEF Ignore, IInv, WalkInv, Copying
<1>6. TornInv'
  BY StillTorn DEF IInv, TornInv, Ignore, Owing, Copying
<1>. QED  BY <1>1, <1>5, <1>6 DEF IInv

LEMMA FinishKeeps == IInv /\ Finish => IInv'
<1> SUFFICES ASSUME IInv, Finish PROVE IInv'
  OBVIOUS
<1>1. TypeOK' /\ ~Copying
  BY DEF Finish, IInv, TypeOK, Copying
<1>. QED  BY <1>1, NoWalk DEF Finish, IInv, TypeOK

\* What has been passed stays done, if every copy that was kept is.
LEMMA PassedKept ==
  ASSUME IInv, stage # "off", UNCHANGED present, \A n \in Name : Kept(n) => Kept(n)'
  PROVE  \A k \in Wanted' : <<"in", k>> \notin left => Kept(NameOf(<<"in", k>>))'
<1> SUFFICES ASSUME NEW k \in Wanted', <<"in", k>> \notin left
             PROVE  Kept(NameOf(<<"in", k>>))'
  OBVIOUS
<1>1. k \in Wanted
  BY DEF Wanted
<1>2. NameOf(<<"in", k>>) \in Name
  BY <1>1, NamesAreNames DEF IInv, TypeOK
<1>3. Kept(NameOf(<<"in", k>>))
  BY <1>1 DEF IInv, WalkInv
<1>4. PICK n \in Name : n = NameOf(<<"in", k>>)
  BY <1>2
<1>5. Kept(n)'
  BY <1>3, <1>4
<1>. QED  BY <1>4, <1>5 DEF NameOf

\* The copy that is truncated is in hand, for all photos of its name.
LEMMA OpenKeeps == IInv /\ Open => IInv'
<1> SUFFICES ASSUME IInv, Open PROVE IInv'
  OBVIOUS
<1>1. /\ Dest \in Name /\ At \in left /\ At[1] = "in" /\ At[2] \in Photo
      /\ left \subseteq {"in"} \X present /\ left # {}
  BY AtIsLeft DEF Open, IInv, TypeOK, WalkInv
<1>2. PICK w : copies' = [copies EXCEPT ![Dest] =
                            [of |-> Never, stamped |-> FALSE, writable |-> w]]
               /\ w \in BOOLEAN
  <2>1. Writable(At) \in BOOLEAN
    BY <1>1, ShotAssumption DEF Writable
  <2>2. copies[Dest] # Never => copies[Dest].writable \in BOOLEAN
    BY <1>1 DEF IInv, TypeOK, CopyState
  <2>3. (IF copies[Dest] = Never THEN Writable(At) ELSE copies[Dest].writable) \in BOOLEAN
    BY <2>1, <2>2
  <2>. QED  BY <2>3 DEF Open
<1> DEFINE c == [of |-> Never, stamped |-> FALSE, writable |-> w]
<1>3. /\ c \in CopyState /\ c # Never /\ ~c.stamped
      /\ copies'[Dest] = c /\ \A n \in Name \ {Dest} : copies'[n] = copies[n]
  <2>1. c \in CopyState /\ ~c.stamped
    BY <1>2 DEF CopyState
  <2>2. c # Never
    BY <2>1, PhotoAssumption
  <2>3. copies'[Dest] = c /\ \A n \in Name \ {Dest} : copies'[n] = copies[n]
    BY <1>1, <1>2 DEF IInv, TypeOK
  <2>. QED  BY <2>1, <2>2, <2>3
<1>4. TypeOK'
  <2> HIDE DEF c
  <2>1. copies' \in [Name -> {Never} \cup CopyState]
    BY <1>2, <1>3, Zenon DEF IInv, TypeOK, c
  <2>. QED  BY <2>1 DEF Open, IInv, TypeOK
<1>5. UNCHANGED <<Dest, At>>
  BY DEF Open, At, Dest
<1>6. Torn' \subseteq Torn \cup {Dest} /\ \A n \in Name \ {Dest} : Good(n) <=> Good(n)'
  BY <1>1, <1>3, OtherCopies DEF Open
<1>7. \A n \in Name : Kept(n) => Kept(n)'
  BY <1>3, <1>5, <1>6 DEF Open, Kept, Copying
<1>8. WalkInv'
  <2>1. Copying' /\ stage' # "stamp" /\ Dest' \notin unseen' /\ UNCHANGED <<left, present>>
    BY <1>5 DEF Open, Copying
  <2>2. copies'[Dest'] # Never /\ ~copies'[Dest'].stamped
    BY <1>3, <1>5
  <2>3. \A k \in Wanted' : <<"in", k>> \notin left' => Kept(NameOf(<<"in", k>>))'
    BY <1>7, <2>1, PassedKept DEF Open
  <2>. QED  BY <1>1, <2>1, <2>2, <2>3 DEF WalkInv
<1>9. TornInv'
  <2>1. ~Owing /\ Owing' /\ UNCHANGED faults
    BY <1>5 DEF Open, Owing, Copying
  <2>2. IsFiniteSet(Torn') /\ Cardinality(Torn') <= Cardinality(Torn) + 1
        /\ Cardinality(Torn') \in Nat /\ Cardinality(Torn) \in Nat
    BY <1>6, MoreTorn DEF IInv
  <2>. QED  BY <2>1, <2>2 DEF IInv, TypeOK, TornInv
<1>. QED  BY <1>4, <1>8, <1>9 DEF IInv

\* The copy has its bytes, and is torn as before until it is stamped.
LEMMA CopyKeeps == IInv /\ Copy => IInv'
<1> SUFFICES ASSUME IInv, Copy PROVE IInv'
  OBVIOUS
<1>1. /\ Copying /\ left # {} /\ left \subseteq {"in"} \X present
      /\ copies[Dest] # Never /\ ~copies[Dest].stamped
  BY DEF Copy, Copying, IInv, WalkInv
<1>2. Dest \in Name /\ At[1] = "in" /\ At[2] \in Photo
  BY <1>1, AtIsLeft DEF IInv, TypeOK
<1>3. copies[Dest] \in CopyState /\ Bytes(At) = At[2]
  BY <1>1, <1>2 DEF IInv, TypeOK, Bytes
<1>4. /\ copies'[Dest] = [copies[Dest] EXCEPT !.of = At[2]]
      /\ \A n \in Name \ {Dest} : copies'[n] = copies[n]
      /\ copies' = [copies EXCEPT ![Dest] = [copies[Dest] EXCEPT !.of = At[2]]]
  BY <1>2, <1>3 DEF Copy, IInv, TypeOK
<1>5. /\ copies'[Dest] \in CopyState /\ copies'[Dest] # Never
      /\ copies'[Dest].of = At[2] /\ ~copies'[Dest].stamped
  BY <1>1, <1>2, <1>3, <1>4, PhotoAssumption DEF CopyState
<1>6. TypeOK'
  <2>1. copies' \in [Name -> {Never} \cup CopyState]
    BY <1>4, <1>5 DEF IInv, TypeOK
  <2>. QED  BY <2>1 DEF Copy, IInv, TypeOK
<1>7. UNCHANGED <<Dest, At>>
  BY DEF Copy, At, Dest
<1>8. Torn' \subseteq Torn /\ \A n \in Name \ {Dest} : Good(n) <=> Good(n)'
  <2>1. Dest \in Torn
    BY <1>1, <1>2 DEF Torn, Good
  <2>. QED  BY <1>2, <1>4, <2>1, OtherCopies DEF Copy
<1>9. \A n \in Name : Kept(n) => Kept(n)'
  BY <1>4, <1>7, <1>8 DEF Copy, Kept, Copying
<1>10. WalkInv'
  <2>1. Copying' /\ stage' = "stamp" /\ UNCHANGED <<left, present>>
    BY DEF Copy, Copying
  <2>2. copies'[Dest'] # Never /\ ~copies'[Dest'].stamped /\ copies'[Dest'].of = At'[2]
    BY <1>5, <1>7
  <2>3. \A k \in Wanted' : <<"in", k>> \notin left' => Kept(NameOf(<<"in", k>>))'
    BY <1>9, <2>1, PassedKept DEF Copy
  <2>. QED  BY <1>1, <2>1, <2>2, <2>3 DEF WalkInv
<1>11. TornInv'
  BY <1>1, <1>7, <1>8, FewerTorn DEF Copy, IInv, TypeOK, TornInv, Owing, Copying
<1>. QED  BY <1>6, <1>10, <1>11 DEF IInv

\* The copy in hand becomes good, for all photos of its name.
LEMMA StampKeeps == IInv /\ Stamp => IInv'
<1> SUFFICES ASSUME IInv, Stamp PROVE IInv'
  OBVIOUS
<1>1. /\ Copying /\ left # {} /\ left \subseteq {"in"} \X present
      /\ copies[Dest] # Never /\ ~copies[Dest].stamped
      /\ copies[Dest].of = At[2] \/ Dest \in unseen
  BY DEF Stamp, Copying, IInv, WalkInv
<1>2. /\ At = <<"in", At[2]>> /\ At[2] \in present /\ At[2] \in Photo
      /\ Dest \in Name /\ Dest = NameOf(<<"in", At[2]>>)
  BY <1>1, AtIsLeft DEF IInv, TypeOK
<1>3. copies[Dest] \in CopyState
  BY <1>1, <1>2 DEF IInv, TypeOK
<1>4. /\ copies'[Dest] = [copies[Dest] EXCEPT !.stamped = TRUE]
      /\ \A n \in Name \ {Dest} : copies'[n] = copies[n]
      /\ copies' = [copies EXCEPT ![Dest] = [copies[Dest] EXCEPT !.stamped = TRUE]]
  <2>1. copies' = [copies EXCEPT ![Dest] = [copies[Dest] EXCEPT !.stamped = TRUE]]
    BY DEF Stamp
  <2>. QED  BY <1>2, <2>1 DEF IInv, TypeOK
<1>5. /\ copies'[Dest] \in CopyState /\ copies'[Dest] # Never
      /\ copies'[Dest].of = copies[Dest].of /\ copies'[Dest].stamped
  <2>1. copies'[Dest].of = copies[Dest].of /\ copies'[Dest].stamped
    BY <1>1, <1>3, <1>4 DEF CopyState
  <2>2. copies'[Dest] \in CopyState
    BY <1>3, <1>4 DEF CopyState
  <2>. QED  BY <2>1, <2>2, PhotoAssumption
<1>6. TypeOK'
  <2>1. copies' \in [Name -> {Never} \cup CopyState]
    BY <1>4, <1>5 DEF IInv, TypeOK
  <2>. QED  BY <2>1 DEF Stamp, IInv, TypeOK
<1>7. \A n \in Name \ {Dest} : Good(n) <=> Good(n)'
  BY <1>2, <1>4, OtherCopies DEF Stamp
<1>8. ASSUME Dest \notin unseen
      PROVE  \A n : n = Dest => Good(n)' /\ copies'[n].of \in present'
  <2>1. copies'[Dest].of = At[2] /\ At[2] # Never
    BY <1>1, <1>2, <1>5, <1>8, PhotoAssumption
  <2>. QED  BY <1>2, <1>5, <2>1 DEF Stamp, Good, NameOf
<1>9. /\ Torn' \subseteq Torn /\ Dest \in Torn
      /\ Dest \notin unseen => Torn' \subseteq Torn \ {Dest}
  <2>1. Dest \in Torn
    BY <1>1, <1>2 DEF Torn, Good
  <2>2. Torn' \subseteq Torn
    BY <1>4, <1>7, <2>1 DEF Torn
  <2>3. Dest \notin unseen => Dest \notin Torn'
    BY <1>8 DEF Torn
  <2>. QED  BY <2>1, <2>2, <2>3
<1>10. \A n \in Name : Kept(n) => Kept(n)'
  <2>1. \A n \in Name \ {Dest} : Kept(n) => Kept(n)'
    BY <1>4, <1>7 DEF Stamp, Kept, Copying
  <2>2. \A n : n = Dest => Kept(n)'
    BY <1>8 DEF Stamp, Kept
  <2>. QED  BY <2>1, <2>2
<1>11. WalkInv'
  <2>1. ~Copying' /\ stage' = "visit" /\ left' \subseteq left /\ UNCHANGED present
    BY DEF Stamp, Copying
  <2>2. ASSUME NEW k \in Wanted', <<"in", k>> \notin left'
        PROVE  Kept(NameOf(<<"in", k>>))'
    <3>1. CASE <<"in", k>> \in left
      <4>1. NameOf(<<"in", k>>) = Dest
        BY <1>2, <2>2, <3>1 DEF Stamp
      <4>2. \A n : n = Dest => Kept(n)'
        BY <1>8 DEF Stamp, Kept
      <4>. QED  BY <4>1, <4>2 DEF NameOf
    <3>2. CASE <<"in", k>> \notin left
      BY <1>10, <2>2, <3>2, PassedKept DEF Stamp
    <3>. QED  BY <3>1, <3>2
  <2>. QED  BY <1>1, <2>1, <2>2 DEF WalkInv
<1>12. TornInv'
  <2>1. ~Copying' /\ UNCHANGED faults /\ Copying
    BY DEF Stamp, Copying
  <2>2. CASE Dest \in unseen
    BY <1>9, <2>1, <2>2, FewerTorn DEF IInv, TypeOK, TornInv, Owing
  <2>3. CASE Dest \notin unseen
    BY <1>9, <2>1, <2>3, OneLessTorn DEF IInv, TypeOK, TornInv, Owing
  <2>. QED  BY <2>2, <2>3
<1>. QED  BY <1>6, <1>11, <1>12 DEF IInv

\* The copy in hand stays torn, and that has cost a fault.
LEMMA CloseFailsKeeps == IInv /\ CloseFails => IInv'
<1> SUFFICES ASSUME IInv, CloseFails PROVE IInv'
  OBVIOUS
<1>1. /\ Copying /\ left # {} /\ left \subseteq {"in"} \X present
      /\ copies[Dest] # Never /\ ~copies[Dest].stamped /\ Dest \notin unseen
  BY DEF CloseFails, Copying, IInv, WalkInv
<1>2. Dest \in Name
  BY <1>1, AtIsLeft DEF IInv, TypeOK
<1>3. faults' \in 0..MaxFaults /\ faults' = faults + 1
  BY BoundAssumption DEF CloseFails, Fault, IInv, TypeOK
<1>4. TypeOK'
  BY <1>2, <1>3 DEF CloseFails, IInv, TypeOK
<1>5. /\ UNCHANGED <<Dest, At, left, present, copies>> /\ stage' = "stamp" /\ Copying'
      /\ Dest' \in unseen'
  BY DEF CloseFails, At, Dest, Copying
<1>6. \A n \in Name : Kept(n) => Kept(n)'
  BY <1>5 DEF CloseFails, Kept, Good
<1>7. WalkInv'
  <2>1. \A k \in Wanted' : <<"in", k>> \notin left' => Kept(NameOf(<<"in", k>>))'
    BY <1>5, <1>6, PassedKept DEF CloseFails
  <2>. QED  BY <1>1, <1>5, <2>1 DEF WalkInv
<1>8. TornInv'
  <2>1. Torn' = Torn
    BY <1>5, StillTorn
  <2>. QED  BY <1>1, <1>3, <1>5, <2>1, FewerTorn DEF IInv, TypeOK, TornInv, Owing
<1>. QED  BY <1>4, <1>7, <1>8 DEF IInv

-----------------------------------------------------------------------------
LEMMA NextIInv == IInv /\ [Next]_vars => IInv'
<1> SUFFICES ASSUME IInv, [Next]_vars PROVE IInv'
  OBVIOUS
<1>1. CASE UNCHANGED vars
  BY <1>1 DEF vars, IInv, TypeOK, WalkInv, TornInv, Torn, Good, Kept, Owing, Copying,
     Wanted, At, Dest
<1>2. CASE Next
  BY <1>2, RearrangeKeeps, AbortKeeps, WalkKeeps, IgnoreKeeps, FinishKeeps, OpenKeeps,
     CopyKeeps, StampKeeps, CloseFailsKeeps DEF Next, Step
<1>. QED  BY <1>1, <1>2

THEOREM AlwaysIInv == Spec => []IInv
  BY InitIInv, NextIInv, PTL DEF Spec

\* Every reachable state is well typed, for any photos and names.
THEOREM TypeCorrect == Spec => []TypeOK
  BY AlwaysIInv, PTL DEF IInv

\* At every point a walk has copied all the photos it has passed (image_renamer.go's
\* walk with processNewFile and its siblings), whatever earlier walks left behind, but
\* for what was lost in closing a copy, whose error copyFile drops.
THEOREM PassedAreAlwaysCopied == Spec => []PassedAreCopied
<1>1. IInv => PassedAreCopied
  <2> SUFFICES ASSUME IInv, stage = "visit", NEW k \in Wanted, <<"in", k>> \notin left
               PROVE  LET n == NameOf(<<"in", k>>)
                      IN  (Good(n) /\ copies[n].of \in present) \/ n \in unseen
    BY DEF PassedAreCopied
  <2>1. Kept(NameOf(<<"in", k>>)) /\ ~Copying
    BY DEF IInv, WalkInv, Copying
  <2>. QED  BY <2>1 DEF Kept
<1>. QED  BY <1>1, AlwaysIInv, PTL

\* Each torn copy has cost a fault, but for the one in hand (copyFile's order of
\* truncating, writing and Chtimes): a walk that fails by itself tears none.
THEOREM TornOnesCostFaults == Spec => []OneTornPerFault
<1>1. IInv => OneTornPerFault
  <2> SUFFICES ASSUME IInv PROVE OneTornPerFault
    OBVIOUS
  <2>1. Cardinality(Torn) \in Nat /\ faults \in Nat
    BY FS_CardinalityType DEF IInv, TypeOK, TornInv
  <2>. QED  BY <2>1 DEF IInv, TornInv, Torn, Owing, Copying, OneTornPerFault
<1>. QED  BY <1>1, AlwaysIInv, PTL

=============================================================================
