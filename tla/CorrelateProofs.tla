--------------------------- MODULE CorrelateProofs ---------------------------
(***************************************************************************)
(* Theorems about Correlate for any ids, names, files and thresholds: the  *)
(* counters count the files, and what is reported of them is one to one,   *)
(* conservative, and misses no clear case.                                 *)
(***************************************************************************)
EXTENDS Correlate, FiniteSetTheorems, WellFoundedInduction, TLAPS

-----------------------------------------------------------------------------
(* Orders. *)

\* Any numbers have a least one.
LEMMA LeastNumber ==
  ASSUME NEW S, S \subseteq Nat, S # {}
  PROVE  \E x \in S : \A y \in S : x <= y
<1> DEFINE R == {ss \in Nat \X Nat : ss[1] < ss[2]}
<1>1. IsWellFoundedOn(R, Nat)
  BY NatLessThanWellFounded, Zenon DEF OpToRel
<1>2. \A x, y \in S : y < x => <<y, x>> \in R
  OBVIOUS
<1> HIDE DEF R
<1>3. PICK x \in S : \A y \in S : ~(<<y, x>> \in R)
  BY <1>1, WFMin, Zenon
<1>4. \A y \in S : ~(y < x)
  BY <1>2, <1>3, Zenon
<1> QED
  BY <1>4

\* A strict order on a finite set has an element with none before it: that with the
\* fewest before it.
LEMMA FirstExists ==
  ASSUME NEW S, IsFiniteSet(S), S # {}, NEW R,
         \A x \in S : <<x, x>> \notin R,
         \A x, y, z \in S : <<x, y>> \in R /\ <<y, z>> \in R => <<x, z>> \in R
  PROVE  \E x \in S : \A y \in S : <<y, x>> \notin R
<1> DEFINE B(x) == {y \in S : <<y, x>> \in R}
           N == {Cardinality(B(x)) : x \in S}
<1>1. ASSUME NEW x \in S PROVE IsFiniteSet(B(x)) /\ Cardinality(B(x)) \in Nat
  BY FS_Subset, FS_CardinalityType
<1>2. N \subseteq Nat /\ N # {} /\ \A x \in S : Cardinality(B(x)) \in N
  <2> HIDE DEF B
  <2> QED  BY <1>1
<1>3. PICK n \in N : \A m \in N : n <= m
  BY <1>2, LeastNumber
<1>4. PICK x \in S : n = Cardinality(B(x))
  OBVIOUS
<1>5. ASSUME NEW y \in S, <<y, x>> \in R PROVE FALSE
  <2>1. B(y) \subseteq B(x) /\ y \in B(x) /\ y \notin B(y)
    BY <1>5
  <2> HIDE DEF B, N
  <2>2. Cardinality(B(y)) <= Cardinality(B(x)) /\ Cardinality(B(x)) # Cardinality(B(y))
    BY <1>1, <2>1, FS_Subset
  <2>3. n <= Cardinality(B(y))
    BY <1>2, <1>3
  <2> QED  BY <1>1, <1>4, <2>2, <2>3
<1> QED
  BY <1>5

\* Comparing fractions by cross-multiplication is transitive.
LEMMA CrossMultiplied ==
  ASSUME NEW an \in Nat, NEW ad \in Nat \ {0}, NEW bn \in Nat, NEW bd \in Nat \ {0},
         NEW cn \in Nat, NEW cd \in Nat \ {0},
         an * bd <= bn * ad, bn * cd <= cn * bd
  PROVE  /\ an * cd <= cn * ad
         /\ an * bd < bn * ad \/ bn * cd < cn * bd => an * cd < cn * ad
<1> DEFINE x == an * bd  y == bn * ad  u == bn * cd  v == cn * bd
           p == an * cd  q == cn * ad
<1>1. x \in Nat /\ y \in Nat /\ u \in Nat /\ v \in Nat /\ p \in Nat /\ q \in Nat
  OBVIOUS
<1>2. x * cd = bd * p /\ y * cd = u * ad /\ v * ad = bd * q
  OBVIOUS
<1> HIDE DEF x, y, u, v, p, q
<1>3. \A r, s \in Nat, t \in Nat \ {0} :
        /\ r <= s => r * t <= s * t
        /\ r < s => r * t < s * t
        /\ t * r <= t * s => r <= s
        /\ t * r < t * s => r < s
  OBVIOUS
<1>4. x <= y /\ u <= v
  BY DEF x, y, u, v
<1>5. x * cd <= y * cd /\ u * ad <= v * ad
  BY <1>1, <1>3, <1>4
<1>6. x * cd \in Nat /\ y * cd \in Nat /\ v * ad \in Nat
  BY <1>1
<1>7. bd * p <= bd * q
  BY <1>2, <1>5, <1>6
<1>8. p <= q
  BY <1>1, <1>3, <1>7
<1>9. ASSUME x < y \/ u < v PROVE p < q
  <2>1. x * cd < y * cd \/ u * ad < v * ad
    BY <1>1, <1>3, <1>9
  <2>2. bd * p < bd * q
    BY <1>2, <1>5, <1>6, <2>1
  <2> QED  BY <1>1, <1>3, <2>2
<1> QED
  BY <1>8, <1>9 DEF x, y, u, v, p, q

\* The order that ranks what has been counted: by similarity, by overlap (which is
\* its numerator), and by when and where it was first seen.
Over(a, b) == b.num * a.den < a.num * b.den \/ (~(a.num * b.den < b.num * a.den) /\ a.num > b.num)
Beats(a, b) ==
  Over(a, b) \/ (~Over(b, a) /\ (a.first < b.first \/ (a.first = b.first /\ a.key < b.key)))
Scores == [num : Nat, den : Nat \ {0}, first : Nat, key : Nat]

\* It is a strict order, and total but for equal keys.
LEMMA BeatsIsOrder ==
  ASSUME NEW a \in Scores, NEW b \in Scores, NEW c \in Scores
  PROVE  /\ ~Beats(a, a)
         /\ Beats(a, b) /\ Beats(b, c) => Beats(a, c)
         /\ Beats(a, b) \/ Beats(b, a) \/ a.key = b.key
<1> DEFINE ab == a.num * b.den  ba == b.num * a.den  bc == b.num * c.den  cb == c.num * b.den
           ac == a.num * c.den  ca == c.num * a.den
<1>1. /\ ab \in Nat /\ ba \in Nat /\ bc \in Nat /\ cb \in Nat /\ ac \in Nat /\ ca \in Nat
      /\ a.num \in Nat /\ b.num \in Nat /\ c.num \in Nat
      /\ a.den \in Nat \ {0} /\ b.den \in Nat \ {0} /\ c.den \in Nat \ {0}
      /\ a.first \in Nat /\ b.first \in Nat /\ c.first \in Nat
      /\ a.key \in Nat /\ b.key \in Nat /\ c.key \in Nat
  BY DEF Scores
<1>2. ab <= ba /\ bc <= cb => ac <= ca /\ (ab < ba \/ bc < cb => ac < ca)
  BY <1>1, CrossMultiplied
<1>3. cb <= bc /\ ba <= ab => ca <= ac /\ (cb < bc \/ ba < ab => ca < ac)
  BY <1>1, CrossMultiplied
<1>4. /\ Over(a, b) <=> (ba < ab \/ (~(ab < ba) /\ a.num > b.num))
      /\ Over(b, a) <=> (ab < ba \/ (~(ba < ab) /\ b.num > a.num))
      /\ Over(b, c) <=> (cb < bc \/ (~(bc < cb) /\ b.num > c.num))
      /\ Over(c, b) <=> (bc < cb \/ (~(cb < bc) /\ c.num > b.num))
      /\ Over(a, c) <=> (ca < ac \/ (~(ac < ca) /\ a.num > c.num))
      /\ Over(c, a) <=> (ac < ca \/ (~(ca < ac) /\ c.num > a.num))
  BY DEF Over
<1>5. ~Over(a, a)
  <2>1. a.num * a.den \in Nat
    BY <1>1
  <2> QED  BY <1>1, <2>1 DEF Over
<1> HIDE DEF ab, ba, bc, cb, ac, ca
<1>6. ~Beats(a, a)
  BY <1>1, <1>5 DEF Beats
<1>7. Beats(a, b) /\ Beats(b, c) => Beats(a, c)
  BY <1>1, <1>2, <1>3, <1>4 DEF Beats
<1>8. Beats(a, b) \/ Beats(b, a) \/ a.key = b.key
  BY <1>1, <1>4 DEF Beats
<1> QED
  BY <1>6, <1>7, <1>8

\* So that some key of finitely many beats every other one.
LEMMA WinnerExists ==
  ASSUME NEW K, IsFiniteSet(K), K # {}, NEW score \in [K -> Scores],
         \A x, y \in K : score[x].key = score[y].key => x = y
  PROVE  \E x \in K : \A y \in K \ {x} : Beats(score[x], score[y])
<1> DEFINE R == {pq \in K \X K : Beats(score[pq[1]], score[pq[2]])}
<1>1. \A x, y \in K : <<x, y>> \in R <=> Beats(score[x], score[y])
  OBVIOUS
<1>2. \A x \in K : score[x] \in Scores
  OBVIOUS
<1>3. \A x, y, z \in K : /\ ~Beats(score[x], score[x])
                         /\ Beats(score[x], score[y]) /\ Beats(score[y], score[z])
                              => Beats(score[x], score[z])
                         /\ Beats(score[x], score[y]) \/ Beats(score[y], score[x]) \/ x = y
  BY <1>2, BeatsIsOrder
<1> HIDE DEF R
<1>4. PICK x \in K : \A y \in K : <<y, x>> \notin R
  <2>1. \A x \in K : <<x, x>> \notin R
    BY <1>1, <1>3
  <2>2. \A x, y, z \in K : <<x, y>> \in R /\ <<y, z>> \in R => <<x, z>> \in R
    BY <1>1, <1>3
  <2> QED  BY <2>1, <2>2, FirstExists
<1> QED
  BY <1>1, <1>3, <1>4

-----------------------------------------------------------------------------
(* Counting. *)

\* What is counted of a set of files when one more is looked at.
LEMMA OneMore ==
  ASSUME NEW c \in Nat, NEW S \in SUBSET Nat
  PROVE  /\ IsFiniteSet(S \cap (1..c)) /\ Cardinality(S \cap (1..c)) \in 0..c
         /\ Cardinality(S \cap (1..(c + 1))) =
              IF c + 1 \in S THEN Cardinality(S \cap (1..c)) + 1 ELSE Cardinality(S \cap (1..c))
<1>1. IsFiniteSet(1..c) /\ Cardinality(1..c) = c
  BY FS_Interval
<1>2. IsFiniteSet(S \cap (1..c)) /\ Cardinality(S \cap (1..c)) <= c
  BY <1>1, FS_Subset
<1>3. Cardinality(S \cap (1..c)) \in Nat
  BY <1>2, FS_CardinalityType
<1>4. CASE c + 1 \in S
  <2>1. S \cap (1..(c + 1)) = (S \cap (1..c)) \cup {c + 1}
    BY <1>4
  <2>2. c + 1 \notin S \cap (1..c)
    OBVIOUS
  <2> DEFINE T == S \cap (1..c)
  <2>3. Cardinality(T \cup {c + 1}) = Cardinality(T) + 1
    <3> HIDE DEF T
    <3> QED  BY <1>2, <2>2, FS_AddElement DEF T
  <2> QED  BY <1>2, <1>3, <1>4, <2>1, <2>3
<1>5. CASE c + 1 \notin S
  <2>1. S \cap (1..(c + 1)) = S \cap (1..c)
    BY <1>5
  <2> QED  BY <1>2, <1>3, <1>5, <2>1
<1> QED
  BY <1>4, <1>5

\* The files with a tag among those counted, and what the counters say of them.
Seen(S) == S \cap (1..counted)
Tally ==
  /\ \A i \in Id : idFiles.counts[i] = Cardinality(Seen(WithId(i)))
  /\ \A n \in Name : nameFiles.counts[n] = Cardinality(Seen(WithName(n)))
  /\ \A i \in Id, n \in Name :
       /\ co[i].counts[n] = Cardinality(Seen(WithId(i) \cap WithName(n)))
       /\ nameCo[n].counts[i] = co[i].counts[n]

\* Nothing is counted while files are fetched.
Inv == TypeOK /\ Tally /\ (pc = "fetch" => counted = 0)

\* Nothing is fetched yet, and nothing counted.
LEMMA InitInv == Init => Inv
<1> SUFFICES ASSUME Init PROVE Inv
  OBVIOUS
<1>1. MaxFiles \in Nat
  BY OptionsAssumption
<1>2. TypeOK
  BY <1>1 DEF Init, TypeOK, Counter, ZeroCounter, NoResult, Result
<1>3. \A S : Seen(S) = {}
  BY DEF Init, Seen
<1>4. Tally
  BY <1>3, FS_EmptySet DEF Init, Tally, ZeroCounter
<1> QED
  BY <1>2, <1>4 DEF Init, Inv

-----------------------------------------------------------------------------
(* What the counters say once all is counted. *)

Ready == TypeOK /\ Tally /\ counted = Len(files)

\* Files are numbered.
LEMMA FilesNumbered ==
  ASSUME TypeOK
  PROVE  /\ Len(files) \in Nat /\ DOMAIN files = 1..Len(files)
         /\ \A i \in Id : WithId(i) \in SUBSET Nat
         /\ \A n \in Name : WithName(n) \in SUBSET Nat
BY DEF TypeOK, WithId, WithName

\* The numbers of files with a tag, with both of two, and with either.
LEMMA Tallied ==
  ASSUME Ready
  PROVE  /\ \A i \in Id : /\ IsFiniteSet(WithId(i))
                          /\ idFiles.counts[i] = Cardinality(WithId(i))
                          /\ idFiles.counts[i] \in Nat
         /\ \A n \in Name : /\ IsFiniteSet(WithName(n))
                            /\ nameFiles.counts[n] = Cardinality(WithName(n))
                            /\ nameFiles.counts[n] \in Nat
         /\ \A i \in Id, n \in Name :
              /\ Shared(i, n) \in Nat
              /\ co[i].counts[n] = Shared(i, n) /\ nameCo[n].counts[i] = Shared(i, n)
<1>1. /\ counted \in Nat /\ DOMAIN files = 1..counted
      /\ \A i \in Id : WithId(i) \in SUBSET Nat
      /\ \A n \in Name : WithName(n) \in SUBSET Nat
  BY FilesNumbered DEF Ready
<1>2. /\ \A i \in Id : Seen(WithId(i)) = WithId(i)
      /\ \A n \in Name : Seen(WithName(n)) = WithName(n)
      /\ \A i \in Id, n \in Name : Seen(WithId(i) \cap WithName(n)) = WithId(i) \cap WithName(n)
  BY <1>1 DEF Seen, WithId, WithName
<1>3. \A S \in SUBSET Nat : IsFiniteSet(Seen(S)) /\ Cardinality(Seen(S)) \in Nat
  BY <1>1, OneMore DEF Seen
<1>4. \A i \in Id : /\ IsFiniteSet(WithId(i))
                    /\ idFiles.counts[i] = Cardinality(WithId(i))
                    /\ idFiles.counts[i] \in Nat
  BY <1>1, <1>2, <1>3 DEF Ready, Tally
<1>5. \A n \in Name : /\ IsFiniteSet(WithName(n))
                      /\ nameFiles.counts[n] = Cardinality(WithName(n))
                      /\ nameFiles.counts[n] \in Nat
  BY <1>1, <1>2, <1>3 DEF Ready, Tally
<1>6. ASSUME NEW i \in Id, NEW n \in Name
      PROVE  /\ Shared(i, n) \in Nat
             /\ co[i].counts[n] = Shared(i, n) /\ nameCo[n].counts[i] = Shared(i, n)
  <2>1. WithId(i) \cap WithName(n) \in SUBSET Nat
    BY <1>1
  <2>2. Cardinality(Seen(WithId(i) \cap WithName(n))) \in Nat
    BY <1>3, <2>1
  <2> QED  BY <1>2, <2>2 DEF Ready, Tally, Shared
<1> QED
  BY <1>4, <1>5, <1>6

\* A counter's keys are the tags that are there, and the similarity that is computed
\* of the counts is that of the sets of files.
LEMMA KeysAndSimilarity ==
  ASSUME Ready
  PROVE  /\ Keys(idFiles) = {i \in Id : WithId(i) # {}}
         /\ Keys(nameFiles) = {n \in Name : WithName(n) # {}}
         /\ \A i \in Id : Keys(co[i]) = {n \in Name : Shared(i, n) > 0}
         /\ \A n \in Name : Keys(nameCo[n]) = {i \in Id : Shared(i, n) > 0}
         /\ \A i \in Id, n \in Name :
              /\ Jaccard(i, n) = Similarity(i, n)
              /\ Similarity(i, n).num = Shared(i, n)
              /\ Similarity(i, n).den \in Nat
              /\ Shared(i, n) > 0 => WithId(i) # {} /\ WithName(n) # {}
              /\ WithId(i) # {} \/ WithName(n) # {} => Similarity(i, n).den > 0
<1>1. /\ DOMAIN idFiles.counts = Id /\ DOMAIN nameFiles.counts = Name
      /\ \A i \in Id : DOMAIN co[i].counts = Name
      /\ \A n \in Name : DOMAIN nameCo[n].counts = Id
  BY DEF Ready, TypeOK, Counter
<1>2. \A S : IsFiniteSet(S) => Cardinality(S) \in Nat /\ (Cardinality(S) = 0 <=> S = {})
  BY FS_CardinalityType, FS_EmptySet
<1>3. /\ Keys(idFiles) = {i \in Id : WithId(i) # {}}
      /\ Keys(nameFiles) = {n \in Name : WithName(n) # {}}
  BY <1>1, <1>2, Tallied DEF Keys
<1>4. /\ \A i \in Id : Keys(co[i]) = {n \in Name : Shared(i, n) > 0}
      /\ \A n \in Name : Keys(nameCo[n]) = {i \in Id : Shared(i, n) > 0}
  BY <1>1, Tallied DEF Keys
<1>5. ASSUME NEW i \in Id, NEW n \in Name
      PROVE  /\ Jaccard(i, n) = Similarity(i, n)
             /\ Similarity(i, n).num = Shared(i, n)
             /\ Similarity(i, n).den \in Nat
             /\ Shared(i, n) > 0 => WithId(i) # {} /\ WithName(n) # {}
             /\ WithId(i) # {} \/ WithName(n) # {} => Similarity(i, n).den > 0
  <2> DEFINE A == WithId(i)  B == WithName(n)
  <2>1. IsFiniteSet(A) /\ IsFiniteSet(B)
    BY Tallied
  <2>2. Jaccard(i, n) = [num |-> Cardinality(A \cap B),
                         den |-> Cardinality(A) + Cardinality(B) - Cardinality(A \cap B)]
    BY Tallied DEF Jaccard, Shared
  <2>3. Similarity(i, n) = [num |-> Cardinality(A \cap B), den |-> Cardinality(A \cup B)]
    BY DEF Similarity, Shared
  <2>4. Shared(i, n) = Cardinality(A \cap B)
    BY DEF Shared
  <2> HIDE DEF A, B
  <2>5. /\ IsFiniteSet(A \cup B)
        /\ Cardinality(A \cup B) = Cardinality(A) + Cardinality(B) - Cardinality(A \cap B)
    BY <2>1, FS_Union
  <2>6. Cardinality(A \cup B) \in Nat /\ (A # {} \/ B # {} => Cardinality(A \cup B) > 0)
    BY <1>2, <2>5
  <2>7. Cardinality(A \cap B) > 0 => A # {} /\ B # {}
    BY FS_EmptySet
  <2>8. /\ Jaccard(i, n) = Similarity(i, n)
        /\ Similarity(i, n).num = Shared(i, n)
        /\ Similarity(i, n).den = Cardinality(A \cup B)
    BY <2>2, <2>3, <2>4, <2>5
  <2>9. /\ Shared(i, n) > 0 => A # {} /\ B # {}
        /\ A # {} \/ B # {} => Similarity(i, n).den > 0
    BY <2>4, <2>6, <2>7, <2>8
  <2> QED  BY <2>6, <2>8, <2>9 DEF A, B
<1> QED
  BY <1>3, <1>4, <1>5

\* Similarities compare as Beats has them compared.
LEMMA AboveIsOver ==
  ASSUME Ready, NEW i \in Id, NEW j \in Id, NEW n \in Name, NEW m \in Name
  PROVE  Above(i, n, j, m) <=> Over(Similarity(i, n), Similarity(j, m))
BY Tallied, KeysAndSimilarity DEF Above, Over, Less

\* The best of an id's names is one of them, and none of them is more similar.
LEMMA FirstOfIsBest ==
  ASSUME Ready, NEW i \in Id, NEW names \in SUBSET Keys(co[i]), names # {}
  PROVE  /\ FirstOf(i, names) \in names
         /\ \A m \in names : ~Less(Similarity(i, FirstOf(i, names)), Similarity(i, m))
<1> DEFINE score == [n \in names |-> [num |-> Shared(i, n), den |-> Similarity(i, n).den,
                                      first |-> co[i].first[n], key |-> n]]
           Wins(n, m) == Above(i, n, i, m) \/ (~Above(i, m, i, n) /\ Before(co[i], n, m))
<1>1. \A n \in names : n \in Name /\ Shared(i, n) > 0 /\ n \in Nat
  BY KeysAndSimilarity, TagAssumption
<1>2. \A n \in names : co[i].first[n] \in Nat
  BY <1>1, OptionsAssumption DEF Ready, TypeOK, Counter
<1>3. \A n \in names : Shared(i, n) \in Nat /\ Similarity(i, n).den \in Nat \ {0}
  BY <1>1, Tallied, KeysAndSimilarity
<1>4. score \in [names -> Scores]
  BY <1>1, <1>2, <1>3 DEF Scores
<1>5. IsFiniteSet(names)
  BY <1>1, TagAssumption, FS_Subset
<1>6. ASSUME NEW n \in names, NEW m \in names
      PROVE  /\ Beats(score[n], score[m]) <=> Wins(n, m)
             /\ Above(i, n, i, m) <=> Over(score[n], score[m])
             /\ score[n].key = score[m].key => n = m
  <2>1. Above(i, n, i, m) <=> Over(Similarity(i, n), Similarity(i, m))
    BY <1>1, AboveIsOver
  <2>2. Above(i, m, i, n) <=> Over(Similarity(i, m), Similarity(i, n))
    BY <1>1, AboveIsOver
  <2>3. /\ Similarity(i, n).num = Shared(i, n)
        /\ Similarity(i, m).num = Shared(i, m)
    BY <1>1, KeysAndSimilarity
  <2> QED  BY <2>1, <2>2, <2>3 DEF Beats, Over, Before
<1>7. \E n \in names : \A m \in names \ {n} : Wins(n, m)
  <2> HIDE DEF score, Wins
  <2>1. PICK n \in names : \A m \in names \ {n} : Beats(score[n], score[m])
    BY <1>4, <1>5, <1>6, WinnerExists
  <2> QED  BY <1>6, <2>1
<1> DEFINE f == FirstOf(i, names)
<1>8. f \in names /\ \A m \in names \ {f} : Wins(f, m)
  BY <1>7 DEF FirstOf
<1>9. ASSUME NEW m \in names PROVE ~Less(Similarity(i, f), Similarity(i, m))
  <2>1. m # f => Above(i, f, i, m) \/ ~Above(i, m, i, f)
    BY <1>8
  <2>2. /\ Above(i, f, i, m) <=> Over(Similarity(i, f), Similarity(i, m))
        /\ Above(i, m, i, f) <=> Over(Similarity(i, m), Similarity(i, f))
    BY <1>1, <1>8, AboveIsOver
  <2> DEFINE s == Similarity(i, f)  t == Similarity(i, m)
  <2>3. s.num \in Nat /\ s.den \in Nat /\ t.num \in Nat /\ t.den \in Nat
    BY <1>1, <1>8, Tallied, KeysAndSimilarity
  <2>4. s.num * t.den \in Nat /\ t.num * s.den \in Nat
    BY <2>3
  <2> QED  BY <2>1, <2>2, <2>4 DEF Over, Less
<1> QED
  BY <1>8, <1>9

\* And the best of a name's ids is one of them, as long as one is left, and none of
\* them is more similar.
LEMMA BestIdIsBest ==
  ASSUME Ready, NEW n \in Name, Keys(nameCo[n]) \ LockedIds # {}
  PROVE  /\ BestId(n) \in Keys(nameCo[n]) \ LockedIds
         /\ \A j \in Keys(nameCo[n]) \ LockedIds : ~Less(Similarity(BestId(n), n), Similarity(j, n))
<1> DEFINE ids == Keys(nameCo[n]) \ LockedIds
           score == [i \in ids |-> [num |-> Shared(i, n), den |-> Similarity(i, n).den,
                                    first |-> nameCo[n].first[i], key |-> i]]
           Wins(i, j) == Above(i, n, j, n) \/ (~Above(j, n, i, n) /\ Before(nameCo[n], i, j))
<1>1. \A i \in ids : i \in Id /\ Shared(i, n) > 0 /\ i \in Nat
  BY KeysAndSimilarity, TagAssumption
<1>2. \A i \in ids : nameCo[n].first[i] \in Nat
  BY <1>1, OptionsAssumption DEF Ready, TypeOK, Counter
<1>3. \A i \in ids : Shared(i, n) \in Nat /\ Similarity(i, n).den \in Nat \ {0}
  BY <1>1, Tallied, KeysAndSimilarity
<1>4. score \in [ids -> Scores]
  <2> HIDE DEF ids
  <2> QED  BY <1>1, <1>2, <1>3 DEF Scores
<1>5. IsFiniteSet(ids)
  BY <1>1, TagAssumption, FS_Subset
<1>6. ASSUME NEW i \in ids, NEW j \in ids
      PROVE  /\ Beats(score[i], score[j]) <=> Wins(i, j)
             /\ score[i].key = score[j].key => i = j
  <2>1. Above(i, n, j, n) <=> Over(Similarity(i, n), Similarity(j, n))
    BY <1>1, AboveIsOver
  <2>2. Above(j, n, i, n) <=> Over(Similarity(j, n), Similarity(i, n))
    BY <1>1, AboveIsOver
  <2>3. /\ Similarity(i, n).num = Shared(i, n)
        /\ Similarity(j, n).num = Shared(j, n)
    BY <1>1, KeysAndSimilarity
  <2> HIDE DEF ids
  <2> QED  BY <2>1, <2>2, <2>3 DEF Beats, Over, Before
<1>7. \E i \in ids : \A j \in ids \ {i} : Wins(i, j)
  <2> HIDE DEF score, Wins
  <2>1. ids # {}
    OBVIOUS
  <2> HIDE DEF ids
  <2>2. PICK i \in ids : \A j \in ids \ {i} : Beats(score[i], score[j])
    BY <1>4, <1>5, <1>6, <2>1, WinnerExists
  <2> QED  BY <1>6, <2>2
<1> DEFINE f == BestId(n)
<1>8. f \in ids /\ \A j \in ids \ {f} : Wins(f, j)
  BY <1>7 DEF BestId
<1>9. ASSUME NEW j \in ids PROVE ~Less(Similarity(f, n), Similarity(j, n))
  <2>1. j # f => Above(f, n, j, n) \/ ~Above(j, n, f, n)
    BY <1>8
  <2>2. /\ Above(f, n, j, n) <=> Over(Similarity(f, n), Similarity(j, n))
        /\ Above(j, n, f, n) <=> Over(Similarity(j, n), Similarity(f, n))
    BY <1>1, <1>8, AboveIsOver
  <2> DEFINE s == Similarity(f, n)  t == Similarity(j, n)
  <2>3. s.num \in Nat /\ s.den \in Nat /\ t.num \in Nat /\ t.den \in Nat
    BY <1>1, <1>8, Tallied, KeysAndSimilarity
  <2>4. s.num * t.den \in Nat /\ t.num * s.den \in Nat
    BY <2>3
  <2> QED  BY <2>1, <2>2, <2>4 DEF Over, Less
<1> QED
  BY <1>8, <1>9

\* The names that an id perfectly overlaps are those of the very same files; so that
\* what is locked is what has the files of a tag of the other kind.
LEMMA PerfectIsSame ==
  ASSUME Ready
  PROVE  /\ \A i \in Id : Perfect(i) = {n \in Name : WithId(i) # {} /\ WithName(n) = WithId(i)}
         /\ \A i \in Id : i \in LockedIds <=> TakenId(i)
         /\ \A n \in Name : n \in LockedNames <=> TakenName(n)
<1>1. ASSUME NEW i \in Id, NEW n \in Name
      PROVE  n \in Perfect(i) <=> WithId(i) # {} /\ WithName(n) = WithId(i)
  <2> DEFINE A == WithId(i)  B == WithName(n)
  <2>1. n \in Perfect(i) <=> /\ Cardinality(A \cap B) > 0
                             /\ Cardinality(A \cap B) = Cardinality(A)
                             /\ Cardinality(B) = Cardinality(A \cap B)
    BY Tallied, KeysAndSimilarity DEF Perfect, Shared
  <2>2. IsFiniteSet(A) /\ IsFiniteSet(B)
    BY Tallied
  <2> HIDE DEF A, B
  <2>3. ASSUME Cardinality(A \cap B) > 0, Cardinality(A \cap B) = Cardinality(A),
               Cardinality(B) = Cardinality(A \cap B)
        PROVE  A # {} /\ B = A
    <3>1. A \cap B = A
      BY <2>2, <2>3, FS_Subset
    <3>2. A \cap B = B
      BY <2>2, <2>3, FS_Subset
    <3> QED  BY <2>3, <3>1, <3>2, FS_EmptySet
  <2>4. ASSUME A # {}, B = A PROVE Cardinality(A) > 0 /\ A \cap B = A
    BY <2>2, <2>4, FS_EmptySet, FS_CardinalityType
  <2> QED  BY <2>1, <2>3, <2>4 DEF A, B
<1>2. \A i \in Id : Perfect(i) \subseteq Name
  BY KeysAndSimilarity DEF Perfect
<1>3. \A i \in Id : Perfect(i) = {n \in Name : WithId(i) # {} /\ WithName(n) = WithId(i)}
  BY <1>1, <1>2
<1>4. \A i \in Id : i \in LockedIds <=> TakenId(i)
  BY <1>3 DEF LockedIds, TakenId
<1>5. \A n \in Name : n \in LockedNames <=> TakenName(n)
  BY <1>3 DEF LockedNames, TakenName
<1> QED
  BY <1>3, <1>4, <1>5

\* An id's candidates are the names untaken that it shares files with; the top one is
\* the best of them.
LEMMA TopIsBest ==
  ASSUME Ready, NEW i \in Id
  PROVE  /\ Candidates(i) = {n \in Name : Shared(i, n) > 0 /\ ~TakenName(n)}
         /\ Candidates(i) # {} =>
              /\ Top(i) \in Candidates(i)
              /\ \A m \in Candidates(i) : ~Less(Similarity(i, Top(i)), Similarity(i, m))
<1>1. Candidates(i) = {n \in Name : Shared(i, n) > 0 /\ ~TakenName(n)}
  BY KeysAndSimilarity, PerfectIsSame DEF Candidates
<1>2. Candidates(i) \in SUBSET Keys(co[i])
  BY DEF Candidates
<1> QED
  BY <1>1, <1>2, FirstOfIsBest DEF Top

\* A ranking lists the ids it is of, each once and with its top name.
LEMMA RankedLists ==
  ASSUME Ready, NEW ids \in SUBSET Judged, NEW s \in Ranked(ids)
  PROVE  /\ s \in Seq(Id \X Name)
         /\ \A k \in DOMAIN s : s[k][1] \in ids /\ s[k][2] = Top(s[k][1])
         /\ \A i \in ids : \E k \in DOMAIN s : s[k][1] = i
         /\ \A k, m \in DOMAIN s : s[k][1] = s[m][1] => k = m
<1> DEFINE n == Cardinality(ids)
<1>1. \A i \in ids : i \in Id /\ i \in Nat /\ Top(i) \in Name
  BY TopIsBest, TagAssumption DEF Judged
<1>2. n \in Nat
  <2>1. ids \in SUBSET Id
    BY <1>1
  <2> QED  BY <2>1, TagAssumption, FS_Subset, FS_CardinalityType
<1>3. PICK t \in [1..n -> ids] :
        /\ ToSet(t) = ids /\ \A k, m \in DOMAIN t : k < m => RanksBefore(t[k], t[m])
        /\ s = [k \in 1..n |-> <<t[k], Top(t[k])>>]
  BY DEF Ranked
<1> HIDE DEF n
<1>4. DOMAIN s = 1..n /\ \A k \in 1..n : t[k] \in ids /\ s[k] = <<t[k], Top(t[k])>>
  BY <1>3
<1>5. s \in Seq(Id \X Name)
  BY <1>1, <1>2, <1>3
<1>6. \A k \in DOMAIN s : s[k][1] \in ids /\ s[k][2] = Top(s[k][1])
  BY <1>4
<1>7. \A i \in ids : \E k \in DOMAIN s : s[k][1] = i
  BY <1>3, <1>4 DEF ToSet
<1>8. ASSUME NEW i \in ids PROVE ~RanksBefore(i, i)
  <2> DEFINE j == Jaccard(i, Top(i))
  <2>1. Candidates(i) # {} /\ Top(i) \in Candidates(i) /\ Shared(i, Top(i)) > 0
    BY <1>1, TopIsBest DEF Judged
  <2>2. j.num \in Nat /\ j.den \in Nat \ {0} /\ co[i].counts[Top(i)] \in Nat
    BY <1>1, <2>1, Tallied, KeysAndSimilarity
  <2> HIDE DEF j
  <2>3. 20000 * j.num + j.den \in Nat /\ 2 * j.den \in Nat \ {0}
    BY <2>2
  <2>4. (20000 * j.num + j.den) \div (2 * j.den) \in Int
    BY <2>3
  <2>5. idFiles.first[i] \in Nat
    BY <1>1, OptionsAssumption DEF Ready, TypeOK, Counter
  <2> QED  BY <1>1, <2>2, <2>4, <2>5 DEF RanksBefore, Before, Rounded, j
<1>9. \A k, m \in DOMAIN s : s[k][1] = s[m][1] => k = m
  <2>1. \A k, m \in 1..n : k < m => t[k] # t[m]
    BY <1>3, <1>4, <1>8
  <2> QED  BY <1>2, <1>4, <2>1
<1> QED
  BY <1>5, <1>6, <1>7, <1>9

\* What is returned is well typed.
LEMMA ReturnedType ==
  ASSUME Ready, NEW res \in Returned
  PROVE  res \in Result
<1>1. PICK A \in SUBSET Judged : \E s \in Ranked(A), r \in Ranked(Judged \ A) :
        res = Outcome(s, r)
  BY DEF Returned, Verdicts
<1>a. PICK suggestions \in Ranked(A), rejected \in Ranked(Judged \ A) :
        res = Outcome(suggestions, rejected)
  BY <1>1
<1>2. suggestions \in Seq(Id \X Name) /\ rejected \in Seq(Id \X Name)
  BY RankedLists
<1>3. Keys(idFiles) \subseteq Id /\ Keys(nameFiles) \subseteq Name /\ LockedIds \subseteq Id
  BY KeysAndSimilarity DEF LockedIds
<1> QED
  BY <1>a, <1>2, <1>3 DEF Outcome, Result

\* What a counter counts.
LEMMA IncCounts ==
  ASSUME NEW K, NEW c \in Counter(K), NEW S, NEW k \in 1..MaxFiles, MaxFiles \in Nat,
         NEW n \in Nat, n < MaxFiles, \A x \in K : c.counts[x] \in 0..n
  PROVE  /\ Inc(c, S, k) \in Counter(K)
         /\ \A x \in K : Inc(c, S, k).counts[x] =
              IF x \in S THEN c.counts[x] + 1 ELSE c.counts[x]
<1>1. DOMAIN c.counts = K /\ DOMAIN c.first = K
  BY DEF Counter
<1>2. Inc(c, S, k) = [counts |-> [x \in K |-> IF x \in S THEN c.counts[x] + 1 ELSE c.counts[x]],
                      first  |-> [x \in K |-> IF x \in S /\ c.first[x] = 0 THEN k ELSE c.first[x]]]
  BY <1>1 DEF Inc
<1>3. \A x \in K : (IF x \in S THEN c.counts[x] + 1 ELSE c.counts[x]) \in 0..MaxFiles
  OBVIOUS
<1>4. \A x \in K : (IF x \in S /\ c.first[x] = 0 THEN k ELSE c.first[x]) \in 0..MaxFiles
  BY DEF Counter
<1> QED
  BY <1>2, <1>3, <1>4 DEF Counter

\* Fetching and counting keep the counters true.
LEMMA NextInv == Inv /\ [Next]_vars => Inv'
<1> SUFFICES ASSUME Inv, [Next]_vars PROVE Inv'
  OBVIOUS
<1>1. TypeOK /\ Tally /\ (pc = "fetch" => counted = 0) /\ MaxFiles \in Nat
  BY OptionsAssumption DEF Inv
<1>2. CASE UNCHANGED <<files, counters>>
  <2>1. Tally'
    BY <1>1, <1>2 DEF Tally, Seen, WithId, WithName, counters
  <2>2. UNCHANGED vars \/ FetchFails \/ Fetched => Inv'
    BY <1>1, <2>1 DEF Inv, TypeOK, FetchFails, Fetched, vars, counters
  <2>3. Report => Inv'
    <3> SUFFICES ASSUME Report PROVE Inv'
      OBVIOUS
    <3>1. result' \in Result
      BY <1>1, ReturnedType DEF Report, Ready
    <3> QED  BY <1>1, <1>2, <2>1, <3>1 DEF Inv, TypeOK, Report, counters
  <2>4. UNCHANGED vars \/ FetchFails \/ Fetched \/ Report
    BY <1>1, <1>2 DEF Next, Fetch, Count, vars, counters, KeepTagged, TypeOK
  <2> QED  BY <2>2, <2>3, <2>4
<1>3. CASE Fetch
  <2>1. counted = 0 /\ UNCHANGED <<pc, counters, result>>
    BY <1>1, <1>3 DEF Fetch
  <2>2. \A S : Seen(S) = {} /\ Seen(S)' = {}
    BY <2>1 DEF Seen, counters
  <2>3. Tally'
    BY <1>1, <2>1, <2>2 DEF Tally, counters
  <2>4. files' \in Seq(File \ {NoTags}) /\ Len(files') <= MaxFiles /\ 0 <= Len(files')
    BY <1>1, <1>3 DEF Fetch, KeepTagged, TypeOK
  <2> QED  BY <1>1, <2>1, <2>3, <2>4 DEF Inv, TypeOK, counters
<1>4. CASE Count
  <2> DEFINE k == counted + 1  f == files[k]
  <2>1. /\ counted \in Nat /\ k \in 1..Len(files) /\ Len(files) \in Nat /\ k <= MaxFiles
        /\ f \in File /\ DOMAIN files = 1..Len(files)
    BY <1>1, <1>4 DEF Count, TypeOK
  <2>2. /\ idFiles' = Inc(idFiles, f.ids, k)
        /\ nameFiles' = Inc(nameFiles, f.names, k)
        /\ co' = [i \in Id |-> IF i \in f.ids THEN Inc(co[i], f.names, k) ELSE co[i]]
        /\ nameCo' = [n \in Name |-> IF n \in f.names THEN Inc(nameCo[n], f.ids, k) ELSE nameCo[n]]
        /\ counted' = k /\ pc = "count" /\ UNCHANGED <<pc, files, result>>
    BY <1>4 DEF Count
  <2>3. /\ \A i \in Id : WithId(i)' = WithId(i) /\ (k \in WithId(i) <=> i \in f.ids)
        /\ \A n \in Name : WithName(n)' = WithName(n) /\ (k \in WithName(n) <=> n \in f.names)
    BY <2>1, <2>2 DEF WithId, WithName
  <2>4. /\ \A i \in Id : WithId(i) \in SUBSET Nat
        /\ \A n \in Name : WithName(n) \in SUBSET Nat
    BY <1>1, FilesNumbered
  <2> HIDE DEF f, k
  <2>5. \A S \in SUBSET Nat :
          /\ Cardinality(Seen(S)) \in 0..counted
          /\ Cardinality(S \cap (1..k)) =
               IF k \in S THEN Cardinality(Seen(S)) + 1 ELSE Cardinality(Seen(S))
    <3> SUFFICES ASSUME NEW S \in SUBSET Nat
                 PROVE  /\ Cardinality(Seen(S)) \in 0..counted
                        /\ Cardinality(S \cap (1..k)) =
                             IF k \in S THEN Cardinality(Seen(S)) + 1 ELSE Cardinality(Seen(S))
      OBVIOUS
    <3> QED  BY <2>1, OneMore DEF Seen, k
  <2>6. /\ \A i \in Id : Seen(WithId(i))' = WithId(i) \cap (1..k)
        /\ \A n \in Name : Seen(WithName(n))' = WithName(n) \cap (1..k)
        /\ \A i \in Id, n \in Name : Seen(WithId(i) \cap WithName(n))'
                                      = (WithId(i) \cap WithName(n)) \cap (1..k)
    BY <2>2, <2>3 DEF Seen
  <2>7. counted < MaxFiles /\ k \in 1..MaxFiles
    BY <1>1, <2>1 DEF k
  <2>8. /\ idFiles' \in Counter(Id)
        /\ \A i \in Id : idFiles'.counts[i] = Cardinality(Seen(WithId(i))')
    <3>1. \A i \in Id : idFiles.counts[i] \in 0..counted
      BY <1>1, <2>4, <2>5 DEF Tally
    <3>2. /\ idFiles' \in Counter(Id)
          /\ \A i \in Id : idFiles'.counts[i] =
               IF i \in f.ids THEN idFiles.counts[i] + 1 ELSE idFiles.counts[i]
      BY <1>1, <2>1, <2>2, <2>7, <3>1, IncCounts DEF TypeOK
    <3> QED  BY <1>1, <2>3, <2>4, <2>5, <2>6, <3>2 DEF Tally
  <2>9. /\ nameFiles' \in Counter(Name)
        /\ \A n \in Name : nameFiles'.counts[n] = Cardinality(Seen(WithName(n))')
    <3>1. \A n \in Name : nameFiles.counts[n] \in 0..counted
      BY <1>1, <2>4, <2>5 DEF Tally
    <3>2. /\ nameFiles' \in Counter(Name)
          /\ \A n \in Name : nameFiles'.counts[n] =
               IF n \in f.names THEN nameFiles.counts[n] + 1 ELSE nameFiles.counts[n]
      BY <1>1, <2>1, <2>2, <2>7, <3>1, IncCounts DEF TypeOK
    <3> QED  BY <1>1, <2>3, <2>4, <2>5, <2>6, <3>2 DEF Tally
  <2>10. ASSUME NEW i \in Id, NEW n \in Name
         PROVE  /\ co[i].counts[n] \in 0..counted /\ nameCo[n].counts[i] \in 0..counted
                /\ Cardinality((WithId(i) \cap WithName(n)) \cap (1..k)) =
                     IF i \in f.ids /\ n \in f.names THEN co[i].counts[n] + 1 ELSE co[i].counts[n]
    <3>1. WithId(i) \cap WithName(n) \in SUBSET Nat
      BY <2>4
    <3>2. k \in WithId(i) \cap WithName(n) <=> i \in f.ids /\ n \in f.names
      BY <2>3
    <3> QED  BY <1>1, <2>5, <3>1, <3>2 DEF Tally
  <2>11. ASSUME NEW i \in Id
         PROVE  /\ co'[i] \in Counter(Name)
                /\ \A n \in Name : co'[i].counts[n] =
                     IF i \in f.ids /\ n \in f.names THEN co[i].counts[n] + 1 ELSE co[i].counts[n]
    <3>1. co[i] \in Counter(Name) /\ \A n \in Name : co[i].counts[n] \in 0..counted
      BY <1>1, <2>10 DEF TypeOK
    <3>2. /\ Inc(co[i], f.names, k) \in Counter(Name)
          /\ \A n \in Name : Inc(co[i], f.names, k).counts[n] =
               IF n \in f.names THEN co[i].counts[n] + 1 ELSE co[i].counts[n]
      BY <1>1, <2>1, <2>7, <3>1, IncCounts
    <3>3. co'[i] = IF i \in f.ids THEN Inc(co[i], f.names, k) ELSE co[i]
      BY <2>2
    <3> QED  BY <3>1, <3>2, <3>3
  <2>12. ASSUME NEW n \in Name
         PROVE  /\ nameCo'[n] \in Counter(Id)
                /\ \A i \in Id : nameCo'[n].counts[i] =
                     IF i \in f.ids /\ n \in f.names THEN nameCo[n].counts[i] + 1
                                                   ELSE nameCo[n].counts[i]
    <3>1. nameCo[n] \in Counter(Id) /\ \A i \in Id : nameCo[n].counts[i] \in 0..counted
      BY <1>1, <2>10 DEF TypeOK
    <3>2. /\ Inc(nameCo[n], f.ids, k) \in Counter(Id)
          /\ \A i \in Id : Inc(nameCo[n], f.ids, k).counts[i] =
               IF i \in f.ids THEN nameCo[n].counts[i] + 1 ELSE nameCo[n].counts[i]
      BY <1>1, <2>1, <2>7, <3>1, IncCounts
    <3>3. nameCo'[n] = IF n \in f.names THEN Inc(nameCo[n], f.ids, k) ELSE nameCo[n]
      BY <2>2
    <3> QED  BY <3>1, <3>2, <3>3
  <2>13. \A i \in Id, n \in Name :
           /\ co'[i].counts[n] = Cardinality(Seen(WithId(i) \cap WithName(n))')
           /\ nameCo'[n].counts[i] = co'[i].counts[n]
    <3> SUFFICES ASSUME NEW i \in Id, NEW n \in Name
                 PROVE  /\ co'[i].counts[n] = Cardinality(Seen(WithId(i) \cap WithName(n))')
                        /\ nameCo'[n].counts[i] = co'[i].counts[n]
      OBVIOUS
    <3>1. nameCo[n].counts[i] = co[i].counts[n]
      BY <1>1 DEF Tally
    <3>2. Seen(WithId(i) \cap WithName(n))' = (WithId(i) \cap WithName(n)) \cap (1..k)
      BY <2>6
    <3>3. /\ co'[i].counts[n] =
               IF i \in f.ids /\ n \in f.names THEN co[i].counts[n] + 1 ELSE co[i].counts[n]
          /\ nameCo'[n].counts[i] =
               IF i \in f.ids /\ n \in f.names THEN nameCo[n].counts[i] + 1
                                             ELSE nameCo[n].counts[i]
      BY <2>11, <2>12
    <3>4. co'[i].counts[n] = Cardinality((WithId(i) \cap WithName(n)) \cap (1..k))
      BY <2>10, <3>3
    <3> QED  BY <3>1, <3>2, <3>3, <3>4
  <2>14. Tally'
    BY <2>8, <2>9, <2>13 DEF Tally
  <2>15. TypeOK'
    BY <1>1, <2>1, <2>2, <2>8, <2>9, <2>11, <2>12 DEF TypeOK
  <2> QED  BY <2>2, <2>14, <2>15 DEF Inv
<1> QED
  BY <1>2, <1>3, <1>4 DEF Next, Report, FetchFails, Fetched, vars, counters

\* Every reachable state is well typed, and its counters are true.
LEMMA Invariance == Spec => []Inv
BY InitInv, NextInv, PTL DEF Spec

\* Counters, result and all are well typed, for any number of ids, names and files.
THEOREM TypeCorrect == Spec => []TypeOK
<1>1. Inv => TypeOK
  BY DEF Inv
<1> QED  BY <1>1, Invariance, PTL

-----------------------------------------------------------------------------
(* What is reported. *)

\* A list of pairs: the ids, each once, with the top name of each.
Lists(pairs, ids) ==
  /\ pairs \in Seq(Id \X Name)
  /\ \A k \in DOMAIN pairs : pairs[k][1] \in ids /\ pairs[k][2] = Top(pairs[k][1])
  /\ \A i \in ids : \E k \in DOMAIN pairs : pairs[k][1] = i
  /\ \A k, m \in DOMAIN pairs : pairs[k][1] = pairs[m][1] => k = m

\* What is returned, in terms of sets of files but for what is accepted.
LEMMA ReturnedLists ==
  ASSUME Ready, NEW res \in Returned
  PROVE  /\ res.paired = {p \in Id \X Name : Exclusive(p[1], p[2])}
         /\ res.ambiguous = {i \in Id : TakenId(i) /\ ~\E n \in Name : Exclusive(i, n)}
         /\ res.orphanIds = {i \in Id : WithId(i) # {} /\ \A n \in Name : Shared(i, n) = 0}
         /\ \E A \in Verdicts : Lists(res.suggestions, A) /\ Lists(res.rejected, Judged \ A)
<1>0. PICK A \in Verdicts : \E s \in Ranked(A), r \in Ranked(Judged \ A) :
        res = Outcome(s, r)
  BY DEF Returned
<1>1. PICK suggestions \in Ranked(A), rejected \in Ranked(Judged \ A) :
        res = Outcome(suggestions, rejected)
  BY <1>0
<1>a. A \in SUBSET Judged /\ Judged \ A \in SUBSET Judged
  BY DEF Verdicts
<1>2. Lists(suggestions, A)
  BY <1>a, RankedLists DEF Lists
<1>3. Lists(rejected, Judged \ A)
  BY <1>a, RankedLists DEF Lists
<1>4. LockedIds = {i \in Id : TakenId(i)}
  BY PerfectIsSame DEF LockedIds
<1>5. {i \in Keys(idFiles) : Keys(co[i]) = {}}
        = {i \in Id : WithId(i) # {} /\ \A n \in Name : Shared(i, n) = 0}
  <2>1. \A i \in Id : Keys(co[i]) = {} <=> \A n \in Name : Shared(i, n) = 0
    BY KeysAndSimilarity, Tallied
  <2> QED  BY <2>1, KeysAndSimilarity
<1>6. /\ res.paired = {p \in Id \X Name : Exclusive(p[1], p[2])}
      /\ res.ambiguous = {i \in LockedIds : ~\E n \in Name : Exclusive(i, n)}
      /\ res.orphanIds = {i \in Keys(idFiles) : Keys(co[i]) = {}}
      /\ res.suggestions = suggestions /\ res.rejected = rejected
  BY <1>1 DEF Outcome
<1> QED
  BY <1>2, <1>3, <1>4, <1>5, <1>6

\* An id and a name are paired when they have the same files and nothing else has.
LEMMA ExclusiveIsSame ==
  ASSUME Ready, NEW i \in Id, NEW n \in Name
  PROVE  Exclusive(i, n) <=> /\ WithId(i) # {} /\ WithId(i) = WithName(n)
                             /\ \A j \in Id \ {i} : WithId(j) # WithId(i)
                             /\ \A m \in Name \ {n} : WithName(m) # WithName(n)
<1>1. \A j \in Id, m \in Name : m \in Perfect(j) <=> WithId(j) # {} /\ WithName(m) = WithId(j)
  BY PerfectIsSame
<1>2. Perfect(i) \subseteq Name
  BY PerfectIsSame
<1>3. Exclusive(i, n) <=> /\ n \in Perfect(i) /\ \A m \in Name : m \in Perfect(i) => m = n
                          /\ \A j \in Id : n \in Perfect(j) => j = i
  BY <1>2 DEF Exclusive
<1> QED
  BY <1>1, <1>3

\* The sets of files are what they were as long as the files are.
LEMMA SetsStay ==
  ASSUME files' = files
  PROVE  /\ \A i \in Id : WithId(i)' = WithId(i) /\ (TakenId(i)' <=> TakenId(i))
                          /\ (PassedOver(i)' <=> PassedOver(i))
         /\ \A n \in Name : WithName(n)' = WithName(n) /\ (TakenName(n)' <=> TakenName(n))
         /\ \A i \in Id, n \in Name :
              Shared(i, n)' = Shared(i, n) /\ Similarity(i, n)' = Similarity(i, n)
<1>1. /\ \A i : WithId(i)' = WithId(i)
      /\ \A n : WithName(n)' = WithName(n)
  BY DEF WithId, WithName
<1>2. /\ \A i \in Id : TakenId(i)' <=> TakenId(i)
      /\ \A n \in Name : TakenName(n)' <=> TakenName(n)
  BY <1>1 DEF TakenId, TakenName
<1>3. \A i, n : Shared(i, n)' = Shared(i, n)
  BY <1>1 DEF Shared
<1>4. \A i, n : Similarity(i, n)' = Similarity(i, n)
  BY <1>1, <1>3 DEF Similarity
<1>5. \A i \in Id : PassedOver(i)' <=> PassedOver(i)
  BY <1>1, <1>2, <1>3 DEF PassedOver
<1> QED
  BY <1>1, <1>2, <1>3, <1>4, <1>5

\* A state in which it is done is just reported, or as before.
LEMMA DoneWhenReported ==
  ASSUME Inv, [Next]_vars, pc' = "done"
  PROVE  /\ files' = files
         /\ \/ Ready /\ result' \in Returned
            \/ pc = "done" /\ result' = result
BY DEF Inv, Ready, Next, Fetch, FetchFails, Fetched, Count, Report, vars

\* Of any files, an id and a name are reported as paired if and only if they are on
\* the very same ones and no other id or name is.
THEOREM PairsAreExact == Spec => []PairedExactly
<1>1. Init => PairedExactly
  BY DEF Init, PairedExactly
<1>2. Inv /\ PairedExactly /\ [Next]_vars => PairedExactly'
  <2> SUFFICES ASSUME Inv, PairedExactly, [Next]_vars, pc' = "done" PROVE PairedExactly'
    BY DEF PairedExactly
  <2> DEFINE Same(p) == /\ WithId(p[1]) # {} /\ WithId(p[1]) = WithName(p[2])
                        /\ \A i \in Id \ {p[1]} : WithId(i) # WithId(p[1])
                        /\ \A n \in Name \ {p[2]} : WithName(n) # WithName(p[2])
  <2>1. result'.paired = {p \in Id \X Name : Same(p)}
    <3>1. CASE Ready /\ result' \in Returned
      <4>1. \A p \in Id \X Name : Exclusive(p[1], p[2]) <=> Same(p)
        BY <3>1, ExclusiveIsSame
      <4> HIDE DEF Same
      <4> QED  BY <3>1, <4>1, ReturnedLists
    <3>2. CASE pc = "done" /\ result' = result
      BY <3>2 DEF PairedExactly
    <3> QED  BY <3>1, <3>2, DoneWhenReported
  <2>2. \A p \in Id \X Name : Same(p) <=>
          /\ WithId(p[1])' # {} /\ WithId(p[1])' = WithName(p[2])'
          /\ \A i \in Id \ {p[1]} : WithId(i)' # WithId(p[1])'
          /\ \A n \in Name \ {p[2]} : WithName(n)' # WithName(p[2])'
    BY DoneWhenReported, SetsStay
  <2> QED  BY <2>1, <2>2 DEF PairedExactly
<1> QED
  BY <1>1, <1>2, Invariance, PTL DEF Spec

\* What is no less than something is no less than what that is no less than.
LEMMA NotLessTransitive ==
  ASSUME NEW a \in Fraction, NEW b \in Fraction, NEW c \in Fraction, ~Less(a, b), ~Less(b, c)
  PROVE  ~Less(a, c)
<1>1. /\ a.num \in Nat /\ b.num \in Nat /\ c.num \in Nat
      /\ a.den \in Nat \ {0} /\ b.den \in Nat \ {0} /\ c.den \in Nat \ {0}
  BY DEF Fraction
<1>2. \A x, y \in Nat : ~(x < y) <=> y <= x
  OBVIOUS
<1>3. /\ a.num * b.den \in Nat /\ b.num * a.den \in Nat /\ b.num * c.den \in Nat
      /\ c.num * b.den \in Nat /\ a.num * c.den \in Nat /\ c.num * a.den \in Nat
  BY <1>1
<1>4. c.num * b.den <= b.num * c.den /\ b.num * a.den <= a.num * b.den
  BY <1>2, <1>3 DEF Less
<1>5. c.num * a.den <= a.num * c.den
  BY <1>1, <1>4, CrossMultiplied
<1> QED
  BY <1>2, <1>3, <1>5 DEF Less

LEMMA LessIsStrict ==
  ASSUME NEW a \in Fraction, NEW b \in Fraction, Less(a, b)
  PROVE  ~Less(b, a)
<1>1. a.num * b.den \in Nat /\ b.num * a.den \in Nat
  BY DEF Fraction
<1> QED
  BY <1>1 DEF Less

\* Similarities of tags that are there are fractions, and so is a part of one.
LEMMA Fractions ==
  ASSUME Ready, NEW i \in Id, NEW n \in Name, WithId(i) # {} \/ WithName(n) # {}
  PROVE  Similarity(i, n) \in Fraction /\ Most(Similarity(i, n)) \in Fraction
<1>1. Similarity(i, n).num \in Nat /\ Similarity(i, n).den \in Nat \ {0}
  BY Tallied, KeysAndSimilarity
<1>2. Similarity(i, n) = [num |-> Similarity(i, n).num, den |-> Similarity(i, n).den]
  BY DEF Similarity
<1>3. MaxRunnerUpRatio.num \in Nat /\ MaxRunnerUpRatio.den \in Nat \ {0}
  BY OptionsAssumption DEF Fraction
<1>4. \A x, y \in Nat \ {0} : x * y \in Nat \ {0}
  OBVIOUS
<1>5. \A x, y \in Nat : x * y \in Nat
  OBVIOUS
<1> QED
  BY <1>1, <1>2, <1>3, <1>4, <1>5 DEF Fraction, Most

\* The margin is clear if it is so to each other candidate.
LEMMA ClearToAll ==
  ASSUME Ready, NEW i \in Id, Candidates(i) # {}
  PROVE  ClearMargin(i) <=>
           \A m \in Candidates(i) \ {Top(i)} : ~Less(Most(Similarity(i, Top(i))), Similarity(i, m))
<1> DEFINE top == Top(i)  rest == Candidates(i) \ {top}  most == Most(Similarity(i, top))
<1>1. /\ Candidates(i) \in SUBSET Name /\ Candidates(i) \in SUBSET Keys(co[i]) /\ top \in Candidates(i)
      /\ \A m \in Candidates(i) : WithId(i) # {}
  <2>1. \A m \in Candidates(i) : m \in Name /\ Shared(i, m) > 0
    BY TopIsBest
  <2> QED  BY <2>1, TopIsBest, KeysAndSimilarity DEF Candidates
<1>2. \A m \in Candidates(i) : Jaccard(i, m) = Similarity(i, m) /\ Similarity(i, m) \in Fraction
  BY <1>1, KeysAndSimilarity, Fractions
<1>3. most \in Fraction
  BY <1>1, Fractions
<1>4. ClearMargin(i) <=> ~Less(most, RunnerUp(i))
  BY <1>1, <1>2 DEF ClearMargin, Most
<1>5. CASE rest = {}
  <2>1. RunnerUp(i) = [num |-> 0, den |-> 1]
    BY <1>5 DEF RunnerUp
  <2>2. ~Less(most, RunnerUp(i))
    BY <1>3, <2>1 DEF Less, Fraction
  <2> QED  BY <1>4, <1>5, <2>2
<1>6. CASE rest # {}
  <2> DEFINE r == FirstOf(i, rest)
  <2>1. r \in rest /\ \A m \in rest : ~Less(Similarity(i, r), Similarity(i, m))
    BY <1>1, <1>6, FirstOfIsBest
  <2>2. RunnerUp(i) = Similarity(i, r)
    BY <1>2, <1>6, <2>1 DEF RunnerUp
  <2> HIDE DEF r
  <2>3. ~Less(most, Similarity(i, r)) <=> \A m \in rest : ~Less(most, Similarity(i, m))
    <3> HIDE DEF most
    <3> QED  BY <1>2, <1>3, <2>1, NotLessTransitive
  <2> QED  BY <1>4, <2>2, <2>3
<1> QED
  BY <1>5, <1>6

\* Nor is the limit hit if each other candidate is below it.
LEMMA OverTheLimit ==
  ASSUME Ready, NEW i \in Id, Candidates(i) # {},
         \A m \in Candidates(i) \ {Top(i)} : Less(Similarity(i, m), Most(Similarity(i, Top(i))))
  PROVE  ~AtTheLimit(i)
<1> DEFINE rest == Candidates(i) \ {Top(i)}
<1>1. Top(i) \in Name /\ Jaccard(i, Top(i)) = Similarity(i, Top(i))
  BY TopIsBest, KeysAndSimilarity
<1>2. CASE rest = {}
  <2>1. RunnerUp(i).num = 0
    BY <1>2 DEF RunnerUp
  <2> QED  BY <2>1 DEF AtTheLimit
<1>3. CASE rest # {}
  <2> DEFINE r == FirstOf(i, rest)
  <2>1. rest \in SUBSET Keys(co[i]) /\ rest \in SUBSET Name
    BY TopIsBest DEF Candidates
  <2>2. r \in rest
    BY <1>3, <2>1, FirstOfIsBest
  <2>3. RunnerUp(i) = Similarity(i, r)
    BY <1>3, <2>1, <2>2, KeysAndSimilarity DEF RunnerUp
  <2> HIDE DEF r
  <2> QED  BY <1>1, <2>2, <2>3 DEF AtTheLimit
<1> QED
  BY <1>2, <1>3

\* What is accepted passes every test that Correlate's comment names.
LEMMA AcceptedIsBest ==
  ASSUME Ready, NEW i \in Judged, Accepted(i)
  PROVE  LET n == Top(i)  s == Similarity(i, n) IN
         /\ i \in Id /\ n \in Name /\ ~TakenId(i) /\ ~TakenName(n)
         /\ Shared(i, n) >= MinOverlap /\ Shared(i, n) > 0 /\ ~Less(s, MinJaccard)
         /\ BestId(n) = i
         /\ \A j \in Id : ~TakenId(j) => ~Less(s, Similarity(j, n))
         /\ \A m \in Name \ {n} : ~TakenName(m) /\ Shared(i, m) > 0 => ~Less(Most(s), Similarity(i, m))
<1> DEFINE n == Top(i)  s == Similarity(i, n)
<1>1. i \in Id /\ ~TakenId(i) /\ Candidates(i) # {}
  BY PerfectIsSame DEF Judged
<1>2. n \in Candidates(i) /\ n \in Name /\ Shared(i, n) > 0 /\ ~TakenName(n)
  BY <1>1, TopIsBest
<1>3. Shared(i, n) >= MinOverlap /\ ~Less(s, MinJaccard) /\ BestId(n) = i /\ ClearMargin(i)
  BY <1>1, <1>2, Tallied, KeysAndSimilarity DEF Accepted
<1> HIDE DEF n
<1>4. ASSUME NEW j \in Id, ~TakenId(j) PROVE ~Less(s, Similarity(j, n))
  <2>1. CASE Shared(j, n) > 0
    <3>1. i \in Keys(nameCo[n]) \ LockedIds /\ j \in Keys(nameCo[n]) \ LockedIds
      BY <1>1, <1>2, <1>4, <2>1, KeysAndSimilarity, PerfectIsSame
    <3> QED  BY <1>2, <1>3, <3>1, BestIdIsBest
  <2>2. CASE ~(Shared(j, n) > 0)
    <3>1. Similarity(j, n).num = 0 /\ Similarity(j, n).den \in Nat
      BY <1>2, <2>2, Tallied, KeysAndSimilarity
    <3>2. s.num \in Nat /\ s.den \in Nat
      BY <1>1, <1>2, Tallied, KeysAndSimilarity
    <3>3. s.num * Similarity(j, n).den \in Nat /\ 0 * s.den = 0
      BY <3>1, <3>2
    <3> QED  BY <3>1, <3>3 DEF Less
  <2> QED  BY <2>1, <2>2
<1>5. ASSUME NEW m \in Name \ {n}, ~TakenName(m), Shared(i, m) > 0
      PROVE  ~Less(Most(s), Similarity(i, m))
  <2>1. m \in Candidates(i) \ {Top(i)}
    BY <1>1, <1>5, TopIsBest DEF n
  <2> QED  BY <1>1, <1>3, <2>1, ClearToAll DEF n
<1> QED
  BY <1>1, <1>2, <1>3, <1>4, <1>5 DEF n

\* What is suggested shares enough files and is similar enough, is the most similar of
\* all untaken tags on either side, and clearly more so than the id's next best name.
THEOREM SuggestionsAreBest == Spec => []SuggestedIsBest
<1>1. Init => SuggestedIsBest
  BY DEF Init, SuggestedIsBest
<1>2. Inv /\ SuggestedIsBest /\ [Next]_vars => SuggestedIsBest'
  <2> SUFFICES ASSUME Inv, SuggestedIsBest, [Next]_vars, pc' = "done" PROVE SuggestedIsBest'
    BY DEF SuggestedIsBest
  <2> DEFINE Right(p) ==
        LET s == Similarity(p[1], p[2]) IN
        /\ Shared(p[1], p[2]) >= MinOverlap /\ ~Less(s, MinJaccard)
        /\ \A i \in Id : ~TakenId(i) => ~Less(s, Similarity(i, p[2]))
        /\ \A n \in Name \ {p[2]} : ~TakenName(n) /\ Shared(p[1], n) > 0 =>
             ~Less(Most(s), Similarity(p[1], n))
  <2>1. \A p \in Suggested' : Right(p) /\ p \in Id \X Name
    <3>1. CASE Ready /\ result' \in Returned
      <4> DEFINE new == result'.suggestions
      <4>1. PICK A \in Verdicts : Lists(new, A)
        BY <3>1, ReturnedLists
      <4>2. ASSUME NEW p \in ToSet(new) PROVE Right(p) /\ p \in Id \X Name
        <5> HIDE DEF new
        <5>1. p[1] \in Judged /\ Accepted(p[1]) /\ p[2] = Top(p[1]) /\ p \in Id \X Name
          BY <4>1, <4>2 DEF Lists, ToSet, Verdicts
        <5> QED  BY <3>1, <5>1, AcceptedIsBest
      <4> QED  BY <4>2 DEF Suggested
    <3>2. CASE pc = "done" /\ result' = result
      <4>1. \A p \in Suggested : Right(p)
        BY <3>2 DEF SuggestedIsBest
      <4>2. Suggested' = Suggested
        BY <3>2 DEF Suggested
      <4>3. result.suggestions \in Seq(Id \X Name)
        BY DEF Inv, TypeOK, Result
      <4>4. Suggested \subseteq Id \X Name
        BY <4>3 DEF Suggested, ToSet
      <4> QED  BY <4>1, <4>2, <4>4
    <3> QED  BY <3>1, <3>2, DoneWhenReported
  <2>2. ASSUME NEW p \in Suggested'
        PROVE  LET s == Similarity(p[1], p[2])' IN
               /\ Shared(p[1], p[2])' >= MinOverlap /\ ~Less(s, MinJaccard)
               /\ \A i \in Id : ~TakenId(i)' => ~Less(s, Similarity(i, p[2])')
               /\ \A n \in Name \ {p[2]} : ~TakenName(n)' /\ Shared(p[1], n)' > 0 =>
                    ~Less(Most(s), Similarity(p[1], n)')
    BY <2>1, <2>2, DoneWhenReported, SetsStay
  <2> QED  BY <2>2 DEF SuggestedIsBest
<1> QED
  BY <1>1, <1>2, Invariance, PTL DEF Spec

\* An id and a name untaken that pass the thresholds, each clearly the best for the
\* other, are suggested.
LEMMA ClearCaseAccepted ==
  ASSUME Ready, NEW i \in Id, NEW n \in Name, ~TakenId(i), ~TakenName(n),
         Shared(i, n) >= MinOverlap, Shared(i, n) > 0, ~Less(Similarity(i, n), MinJaccard),
         \A m \in Name \ {n} : ~TakenName(m) /\ Shared(i, m) > 0 =>
           /\ Less(Similarity(i, m), Similarity(i, n))
           /\ Less(Similarity(i, m), Most(Similarity(i, n))),
         \A j \in Id \ {i} : ~TakenId(j) /\ Shared(j, n) > 0 => Less(Similarity(j, n), Similarity(i, n))
  PROVE  i \in Judged /\ Accepted(i) /\ ~AtTheLimit(i) /\ Top(i) = n
<1>1. n \in Candidates(i)
  BY TopIsBest
<1>2. i \in Judged
  BY <1>1, PerfectIsSame DEF Judged
<1>3. Top(i) = n
  <2>1. Top(i) \in Candidates(i) /\ ~Less(Similarity(i, Top(i)), Similarity(i, n))
    BY <1>1, TopIsBest
  <2> QED  BY <2>1, TopIsBest
<1>4. BestId(n) = i
  <2>1. i \in Keys(nameCo[n]) \ LockedIds
    BY KeysAndSimilarity, PerfectIsSame
  <2>2. /\ BestId(n) \in Keys(nameCo[n]) \ LockedIds
        /\ ~Less(Similarity(BestId(n), n), Similarity(i, n))
    BY <2>1, BestIdIsBest
  <2>3. BestId(n) \in Id /\ Shared(BestId(n), n) > 0 /\ ~TakenId(BestId(n))
    BY <2>2, KeysAndSimilarity, PerfectIsSame
  <2> QED  BY <2>2, <2>3
<1>5. \A m \in Candidates(i) \ {Top(i)} :
        /\ Less(Similarity(i, m), Most(Similarity(i, Top(i))))
        /\ ~Less(Most(Similarity(i, Top(i))), Similarity(i, m))
  <2>1. ASSUME NEW m \in Candidates(i) \ {Top(i)}
        PROVE  /\ Less(Similarity(i, m), Most(Similarity(i, Top(i))))
               /\ ~Less(Most(Similarity(i, Top(i))), Similarity(i, m))
    <3>1. Less(Similarity(i, m), Most(Similarity(i, n))) /\ m \in Name /\ Shared(i, m) > 0
      BY <1>3, TopIsBest
    <3>2. Similarity(i, m) \in Fraction /\ Most(Similarity(i, n)) \in Fraction
      BY <3>1, KeysAndSimilarity, Fractions
    <3> QED  BY <1>3, <3>1, <3>2, LessIsStrict
  <2> QED  BY <2>1
<1>6. ClearMargin(i)
  BY <1>1, <1>5, ClearToAll
<1>7. ~AtTheLimit(i)
  BY <1>1, <1>5, OverTheLimit
<1> QED
  BY <1>2, <1>3, <1>4, <1>6, <1>7, Tallied, KeysAndSimilarity DEF Accepted

\* No clear case is missed, whatever the order of the files.
THEOREM ClearCasesAreSuggested == Spec => []ClearCaseIsSuggested
<1>1. Init => ClearCaseIsSuggested
  BY DEF Init, ClearCaseIsSuggested
<1>2. Inv /\ ClearCaseIsSuggested /\ [Next]_vars => ClearCaseIsSuggested'
  <2> SUFFICES ASSUME Inv, ClearCaseIsSuggested, [Next]_vars, pc' = "done"
               PROVE  ClearCaseIsSuggested'
    BY DEF ClearCaseIsSuggested
  <2> DEFINE Clear(i, n) ==
        LET s == Similarity(i, n) IN
        /\ ~TakenId(i) /\ ~TakenName(n)
        /\ Shared(i, n) >= MinOverlap /\ Shared(i, n) > 0 /\ ~Less(s, MinJaccard)
        /\ \A m \in Name \ {n} : ~TakenName(m) /\ Shared(i, m) > 0 =>
             Less(Similarity(i, m), s) /\ Less(Similarity(i, m), Most(s))
        /\ \A j \in Id \ {i} : ~TakenId(j) /\ Shared(j, n) > 0 => Less(Similarity(j, n), s)
  <2>1. ASSUME NEW i \in Id, NEW n \in Name, Clear(i, n) PROVE <<i, n>> \in Suggested'
    <3>1. CASE Ready /\ result' \in Returned
      <4> DEFINE new == result'.suggestions
      <4>1. PICK A \in Verdicts : Lists(new, A)
        BY <3>1, ReturnedLists
      <4>2. i \in A /\ i \in Judged /\ Top(i) = n
        BY <2>1, <3>1, ClearCaseAccepted DEF Verdicts
      <4> HIDE DEF new
      <4>3. PICK k \in DOMAIN new : new[k][1] = i
        BY <4>1, <4>2 DEF Lists
      <4>4. new[k] = <<i, n>>
        <5>1. new[k] \in Id \X Name
          BY <4>1 DEF Lists
        <5> QED  BY <4>1, <4>2, <4>3, <5>1 DEF Lists
      <4> QED  BY <4>4 DEF new, Suggested, ToSet
    <3>2. CASE pc = "done" /\ result' = result
      <4>1. <<i, n>> \in Suggested
        BY <2>1, <3>2 DEF ClearCaseIsSuggested
      <4> QED  BY <3>2, <4>1 DEF Suggested
    <3> QED  BY <3>1, <3>2, DoneWhenReported
  <2>2. ASSUME NEW i \in Id, NEW n \in Name
        PROVE  Clear(i, n) <=>
                 LET s == Similarity(i, n)' IN
                 /\ ~TakenId(i)' /\ ~TakenName(n)'
                 /\ Shared(i, n)' >= MinOverlap /\ Shared(i, n)' > 0 /\ ~Less(s, MinJaccard)
                 /\ \A m \in Name \ {n} : ~TakenName(m)' /\ Shared(i, m)' > 0 =>
                      Less(Similarity(i, m)', s) /\ Less(Similarity(i, m)', Most(s))
                 /\ \A j \in Id \ {i} : ~TakenId(j)' /\ Shared(j, n)' > 0 => Less(Similarity(j, n)', s)
    BY DoneWhenReported, SetsStay
  <2> HIDE DEF Clear
  <2> QED  BY <2>1, <2>2 DEF ClearCaseIsSuggested
<1> QED
  BY <1>1, <1>2, Invariance, PTL DEF Spec

\* The places of an id in a list.
Places(c, i) == {k \in DOMAIN c : c[k][1] = i}

\* In a list after another it has one if it is in either, and none if in none.
LEMMA PlacedOnce ==
  ASSUME NEW A, NEW B, NEW a, NEW b, Lists(a, A), Lists(b, B), NEW i, i \notin A \/ i \notin B
  PROVE  Cardinality(Places(a \o b, i)) = IF i \in A \cup B THEN 1 ELSE 0
<1> DEFINE c == a \o b  K == {k \in DOMAIN c : c[k][1] = i}
<1>0. Places(a \o b, i) = K
  BY DEF Places
<1>1. /\ a \in Seq(Id \X Name) /\ b \in Seq(Id \X Name)
      /\ Len(a) \in Nat /\ Len(b) \in Nat
      /\ DOMAIN a = 1..Len(a) /\ DOMAIN b = 1..Len(b)
  BY DEF Lists
<1>2. /\ DOMAIN c = 1..(Len(a) + Len(b))
      /\ \A k \in 1..Len(a) : c[k] = a[k]
      /\ \A k \in 1..Len(b) : c[Len(a) + k] = b[k]
  BY <1>1
<1> HIDE DEF c
<1>3. \A k \in DOMAIN c : \/ k \in 1..Len(a)
                          \/ k - Len(a) \in 1..Len(b) /\ k = Len(a) + (k - Len(a))
  BY <1>1, <1>2
<1>4. \A k \in K : \/ k \in 1..Len(a) /\ a[k][1] = i /\ i \in A
                   \/ /\ k - Len(a) \in 1..Len(b) /\ k = Len(a) + (k - Len(a))
                      /\ b[k - Len(a)][1] = i /\ i \in B
  BY <1>1, <1>2, <1>3 DEF Lists
<1>5. CASE i \in A
  <2>1. PICK k \in 1..Len(a) : a[k][1] = i
    BY <1>1, <1>5 DEF Lists
  <2>2. k \in K
    BY <1>1, <1>2, <2>1
  <2>3. \A m \in K : m = k
    BY <1>1, <1>4, <1>5, <2>1 DEF Lists
  <2>4. K = {k}
    BY <2>2, <2>3
  <2> QED  BY <1>0, <1>5, <2>4, FS_Singleton
<1>6. CASE i \in B
  <2>1. PICK k \in 1..Len(b) : b[k][1] = i
    BY <1>1, <1>6 DEF Lists
  <2>2. Len(a) + k \in K
    BY <1>1, <1>2, <2>1
  <2>3. ASSUME NEW m \in K PROVE m = Len(a) + k
    <3> HIDE DEF K
    <3>1. m - Len(a) \in 1..Len(b) /\ m = Len(a) + (m - Len(a)) /\ b[m - Len(a)][1] = i
      BY <1>4, <1>6, <2>3
    <3>2. m - Len(a) = k
      BY <1>1, <2>1, <3>1 DEF Lists
    <3> QED  BY <3>1, <3>2
  <2>4. K = {Len(a) + k}
    BY <2>2, <2>3
  <2> QED  BY <1>0, <1>6, <2>4, FS_Singleton
<1>7. CASE i \notin A \cup B
  <2>1. K = {}
    BY <1>4, <1>7
  <2> QED  BY <1>0, <1>7, <2>1, FS_EmptySet
<1> QED
  BY <1>5, <1>6, <1>7

\* Every id is accounted for once, but for those of which there is nothing to say.
LEMMA AccountedOnce ==
  ASSUME Ready, NEW res \in Returned, NEW i \in Id
  PROVE  LET judged == res.suggestions \o res.rejected IN
         Cardinality({k \in DOMAIN judged : judged[k][1] = i})
           + Cardinality({p \in res.paired : p[1] = i})
           + Cardinality({i} \cap res.ambiguous) + Cardinality({i} \cap res.orphanIds)
         = IF PassedOver(i) THEN 0 ELSE 1
<1> DEFINE judged == res.suggestions \o res.rejected
           Paired == \E n \in Name : Exclusive(i, n)
           Orphan == WithId(i) # {} /\ \A n \in Name : Shared(i, n) = 0
<1>1. Cardinality(Places(judged, i)) = IF i \in Judged THEN 1 ELSE 0
  <2>0. PICK A \in Verdicts : Lists(res.suggestions, A) /\ Lists(res.rejected, Judged \ A)
    BY ReturnedLists
  <2> DEFINE B == Judged \ A
  <2>1. Lists(res.suggestions, A) /\ Lists(res.rejected, B)
    BY <2>0
  <2>2. (i \in A \cup B <=> i \in Judged) /\ (i \notin A \/ i \notin B)
    BY DEF Verdicts
  <2> HIDE DEF B
  <2>3. Cardinality(Places(judged, i)) = IF i \in A \cup B THEN 1 ELSE 0
    BY <2>1, <2>2, PlacedOnce
  <2> QED  BY <2>2, <2>3
<1>2. Cardinality({p \in res.paired : p[1] = i}) = IF Paired THEN 1 ELSE 0
  <2>1. res.paired = {p \in Id \X Name : Exclusive(p[1], p[2])}
    BY ReturnedLists
  <2>2. CASE Paired
    <3>1. PICK n \in Name : Exclusive(i, n)
      BY <2>2
    <3>2. \A m \in Name : Exclusive(i, m) => m = n
      BY <3>1 DEF Exclusive
    <3>3. {p \in res.paired : p[1] = i} = {<<i, n>>}
      BY <2>1, <3>1, <3>2
    <3> QED  BY <2>2, <3>3, FS_Singleton
  <2>3. CASE ~Paired
    <3>1. {p \in res.paired : p[1] = i} = {}
      BY <2>1, <2>3
    <3> QED  BY <2>3, <3>1, FS_EmptySet
  <2> QED  BY <2>2, <2>3
<1>3. Cardinality({i} \cap res.ambiguous) = IF TakenId(i) /\ ~Paired THEN 1 ELSE 0
  <2>1. i \in res.ambiguous <=> TakenId(i) /\ ~Paired
    BY ReturnedLists
  <2>2. CASE i \in res.ambiguous
    <3>1. {i} \cap res.ambiguous = {i}
      BY <2>2
    <3> QED  BY <2>1, <2>2, <3>1, FS_Singleton
  <2>3. CASE i \notin res.ambiguous
    <3>1. {i} \cap res.ambiguous = {}
      BY <2>3
    <3> QED  BY <2>1, <2>3, <3>1, FS_EmptySet
  <2> QED  BY <2>2, <2>3
<1>4. Cardinality({i} \cap res.orphanIds) = IF Orphan THEN 1 ELSE 0
  <2>1. i \in res.orphanIds <=> Orphan
    BY ReturnedLists
  <2>2. CASE i \in res.orphanIds
    <3>1. {i} \cap res.orphanIds = {i}
      BY <2>2
    <3> QED  BY <2>1, <2>2, <3>1, FS_Singleton
  <2>3. CASE i \notin res.orphanIds
    <3>1. {i} \cap res.orphanIds = {}
      BY <2>3
    <3> QED  BY <2>1, <2>3, <3>1, FS_EmptySet
  <2> QED  BY <2>2, <2>3
<1>5. Paired => TakenId(i)
  BY ExclusiveIsSame DEF TakenId
<1>6. TakenId(i) => ~Orphan
  <2> SUFFICES ASSUME NEW n \in Name, WithId(i) # {}, WithName(n) = WithId(i) PROVE ~Orphan
    BY DEF TakenId
  <2>1. n \in Perfect(i)
    BY PerfectIsSame
  <2>2. Shared(i, n) > 0
    BY <2>1, KeysAndSimilarity DEF Perfect
  <2> QED  BY <2>2, Tallied
<1>7. i \in Judged <=> ~TakenId(i) /\ \E n \in Name : Shared(i, n) > 0 /\ ~TakenName(n)
  BY TopIsBest, PerfectIsSame DEF Judged
<1>8. \A n \in Name : Shared(i, n) \in Nat /\ (Shared(i, n) > 0 => WithId(i) # {})
  BY Tallied, KeysAndSimilarity
<1>9. PassedOver(i) <=> ~TakenId(i) /\ ~(i \in Judged) /\ ~Orphan
  BY <1>7, <1>8 DEF PassedOver
<1>10. i \in Judged => ~Orphan
  BY <1>7, <1>8
<1> DEFINE a == Cardinality(Places(judged, i))
           b == Cardinality({p \in res.paired : p[1] = i})
           c == Cardinality({i} \cap res.ambiguous)
           d == Cardinality({i} \cap res.orphanIds)
<1>11. a + b + c + d = IF PassedOver(i) THEN 0 ELSE 1
  <2> HIDE DEF Paired, Orphan, a, b, c, d
  <2>1. /\ a = IF i \in Judged THEN 1 ELSE 0
        /\ b = IF Paired THEN 1 ELSE 0
        /\ c = IF TakenId(i) /\ ~Paired THEN 1 ELSE 0
        /\ d = IF Orphan THEN 1 ELSE 0
    BY <1>1, <1>2, <1>3, <1>4 DEF a, b, c, d
  <2> QED  BY <1>5, <1>6, <1>7, <1>9, <1>10, <2>1
<1>12. Places(judged, i) = {k \in DOMAIN judged : judged[k][1] = i}
  BY DEF Places
<1> HIDE DEF judged
<1> QED
  BY <1>11, <1>12 DEF judged

\* What is paired and what is suggested never share an id or a name.
LEMMA NeverShared ==
  ASSUME Ready, NEW res \in Returned
  PROVE  LET S == ToSet(res.suggestions) IN
         /\ \A p, q \in res.paired \cup S : p[1] = q[1] \/ p[2] = q[2] => p = q
         /\ \A p \in S : p \in Id \X Name /\ ~TakenId(p[1]) /\ ~TakenName(p[2])
<1> DEFINE new == res.suggestions  S == ToSet(new)
<1>1. ASSUME NEW p \in S
      PROVE  /\ p \in Id \X Name /\ ~TakenId(p[1]) /\ ~TakenName(p[2])
             /\ p[2] = Top(p[1]) /\ p[1] = BestId(p[2])
  <2>1. PICK A \in Verdicts : Lists(new, A)
    BY ReturnedLists
  <2> HIDE DEF new
  <2>2. p[1] \in Judged /\ Accepted(p[1]) /\ p[2] = Top(p[1]) /\ p \in Id \X Name
    BY <1>1, <2>1 DEF Lists, ToSet, Verdicts
  <2> QED  BY <2>2, AcceptedIsBest
<1>2. ASSUME NEW p \in res.paired
      PROVE  /\ p \in Id \X Name /\ TakenId(p[1]) /\ TakenName(p[2])
             /\ WithId(p[1]) = WithName(p[2])
             /\ \A i \in Id \ {p[1]} : WithId(i) # WithId(p[1])
             /\ \A n \in Name \ {p[2]} : WithName(n) # WithName(p[2])
  <2>1. p \in Id \X Name /\ Exclusive(p[1], p[2])
    BY <1>2, ReturnedLists
  <2> QED  BY <2>1, ExclusiveIsSame DEF TakenId, TakenName
<1> HIDE DEF S
<1>3. ASSUME NEW p \in S, NEW q \in S, p[1] = q[1] \/ p[2] = q[2] PROVE p = q
  <2>1. p[1] = q[1] /\ p[2] = q[2]
    BY <1>1, <1>3
  <2> QED  BY <1>1, <2>1
<1>4. ASSUME NEW p \in res.paired, NEW q \in res.paired, p[1] = q[1] \/ p[2] = q[2] PROVE p = q
  <2>1. p[1] = q[1] /\ p[2] = q[2]
    BY <1>2, <1>4
  <2> QED  BY <1>2, <2>1
<1>5. ASSUME NEW p \in res.paired, NEW q \in S PROVE p[1] # q[1] /\ p[2] # q[2]
  BY <1>1, <1>2
<1>6. \A p, q \in res.paired \cup S : p[1] = q[1] \/ p[2] = q[2] => p = q
  BY <1>3, <1>4, <1>5
<1> QED
  BY <1>1, <1>6 DEF S

\* What is paired or suggested is one to one, what is taken is left alone, and every
\* id is accounted for once.
THEOREM AlwaysOneToOne == Spec => []OneToOne
<1>1. Init => OneToOne
  BY DEF Init, OneToOne
<1>2. Inv /\ OneToOne /\ [Next]_vars => OneToOne'
  <2> SUFFICES ASSUME Inv, OneToOne, [Next]_vars, pc' = "done" PROVE OneToOne'
    BY DEF OneToOne
  <2> DEFINE S == ToSet(result'.suggestions)
             Count1(i) ==
               LET judged == result'.suggestions \o result'.rejected IN
               Cardinality({k \in DOMAIN judged : judged[k][1] = i})
                 + Cardinality({p \in result'.paired : p[1] = i})
                 + Cardinality({i} \cap result'.ambiguous) + Cardinality({i} \cap result'.orphanIds)
  <2>1. /\ \A p, q \in result'.paired \cup S : p[1] = q[1] \/ p[2] = q[2] => p = q
        /\ \A p \in S : p \in Id \X Name /\ ~TakenId(p[1]) /\ ~TakenName(p[2])
        /\ \A i \in Id : Count1(i) = IF PassedOver(i) THEN 0 ELSE 1
    <3>1. CASE Ready /\ result' \in Returned
      <4>1. /\ \A p, q \in result'.paired \cup S : p[1] = q[1] \/ p[2] = q[2] => p = q
            /\ \A p \in S : p \in Id \X Name /\ ~TakenId(p[1]) /\ ~TakenName(p[2])
        BY <3>1, NeverShared
      <4>2. \A i \in Id : Count1(i) = IF PassedOver(i) THEN 0 ELSE 1
        BY <3>1, AccountedOnce
      <4> QED  BY <4>1, <4>2
    <3>2. CASE pc = "done" /\ result' = result
      <4>1. result.suggestions \in Seq(Id \X Name) /\ S = Suggested
        BY <3>2 DEF Inv, TypeOK, Result, Suggested
      <4>2. S \subseteq Id \X Name
        <5> HIDE DEF S
        <5> QED  BY <4>1 DEF Suggested, ToSet
      <4> QED  BY <3>2, <4>1, <4>2 DEF OneToOne
    <3> QED  BY <3>1, <3>2, DoneWhenReported
  <2>2. /\ \A p \in S : ~TakenId(p[1])' /\ ~TakenName(p[2])'
        /\ \A i \in Id : PassedOver(i)' <=> PassedOver(i)
    BY <2>1, DoneWhenReported, SetsStay
  <2>3. S = Suggested'
    BY DEF Suggested
  <2> QED  BY <2>1, <2>2, <2>3 DEF OneToOne
<1> QED
  BY <1>1, <1>2, Invariance, PTL DEF Spec

=============================================================================
