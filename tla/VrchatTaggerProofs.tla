------------------------- MODULE VrchatTaggerProofs -------------------------
(***************************************************************************)
(* Theorems about PngReader and VrchatTagger, for files, payloads, buffers *)
(* and limits of any size: a record is what the layout of its chunk says,  *)
(* a scan relates position, buffer and records to the file, whatever reads *)
(* return, and so what is cached as read is what the file holds.           *)
(***************************************************************************)
EXTENDS VrchatTagger, FiniteSetTheorems, WellFoundedInduction, TLAPS

\* Any numbers have a least one.
LEMMA LeastNumber ==
  ASSUME NEW S, S \subseteq Nat, S # {}
  PROVE  \E x \in S : \A y \in S : x <= y
<1> DEFINE R == {ss \in Nat \X Nat : ss[1] < ss[2]}
<1>1. IsWellFoundedOn(R, Nat)
  BY NatLessThanWellFounded, Zenon DEF OpToRel
<1>2. \A x, y \in S : y < x => <<y, x>> \in R
  OBVIOUS
<1> HIDE DEF R
<1>3. PICK x \in S : \A y \in S : ~(<<y, x>> \in R)
  BY <1>1, WFMin, Zenon
<1>4. \A y \in S : ~(y < x)
  BY <1>2, <1>3, Zenon
<1> QED
  BY <1>4

\* The community modules' Min of a set of numbers that has any.
LEMMA MinIsLeast ==
  ASSUME NEW S, S \subseteq Nat, S # {}
  PROVE  Min(S) \in S /\ \A y \in S : Min(S) <= y
BY LeastNumber DEF Min

-----------------------------------------------------------------------------
(* ParseRecord. *)

\* A sequence is a function on 1 to its length.
LEMMA SequenceDomain ==
  ASSUME NEW s, Sequence(s)
  PROVE  Len(s) \in Nat /\ DOMAIN s = 1..Len(s)
BY DEF Sequence

\* The first NUL from a position on, or none.
LEMMA FirstNulFound ==
  ASSUME NEW data, Sequence(data), NEW i \in Nat \ {0}
  PROVE  /\ FirstNul(data, i) \in Nat
         /\ \/ FirstNul(data, i) = Len(data) + 1
            \/ FirstNul(data, i) \in i..Len(data) /\ data[FirstNul(data, i)] = NUL
         /\ \A j \in i..Len(data) : data[j] = NUL => FirstNul(data, i) <= j
<1>0. Len(data) \in Nat
  BY SequenceDomain
<1> DEFINE nuls == {j \in i..Len(data) : data[j] = NUL}
<1>1. CASE nuls = {}
  BY <1>0, <1>1 DEF FirstNul
<1>2. CASE nuls # {}
  <2>1. nuls \subseteq Nat
    BY <1>0
  <2>2. Min(nuls) \in nuls /\ \A y \in nuls : Min(nuls) <= y
    BY <1>2, <2>1, MinIsLeast
  <2>3. FirstNul(data, i) = Min(nuls)
    BY <1>2 DEF FirstNul
  <2> QED  BY <2>1, <2>2, <2>3
<1> QED
  BY <1>1, <1>2

\* A record says of a payload what its layout says, and there is but one.
LEMMA ParsedRight ==
  ASSUME NEW data, Sequence(data), NEW n \in Nat
  PROVE  ParseRecord(data, n).seq = n /\ IsRecordOf(ParseRecord(data, n), data)
<1> DEFINE nul    == FirstNul(data, 1)
           first  == FirstNul(data, nul + 3)
           second == FirstNul(data, first + 1)
           nuls   == {k \in DOMAIN data : data[k] = NUL}
           Laid(t) == /\ t[1] + 2 < t[2] /\ t[2] < t[3]
                      /\ (nuls \cap (1..t[3])) \ {t[1] + 1, t[1] + 2} = {t[1], t[2], t[3]}
           parsed == nul + 2 <= Len(data) /\ first <= Len(data) /\ second <= Len(data)
<1>0. Len(data) \in Nat /\ DOMAIN data = 1..Len(data)
  BY SequenceDomain
<1>a. \A i \in Nat \ {0} :
        /\ FirstNul(data, i) \in Nat \ {0}
        /\ FirstNul(data, i) = Len(data) + 1
           \/ (FirstNul(data, i) \in nuls /\ FirstNul(data, i) >= i)
        /\ \A k \in nuls : k >= i => FirstNul(data, i) <= k
  <2> SUFFICES ASSUME NEW i \in Nat \ {0}
               PROVE  /\ FirstNul(data, i) \in Nat \ {0}
                      /\ FirstNul(data, i) = Len(data) + 1
                         \/ (FirstNul(data, i) \in nuls /\ FirstNul(data, i) >= i)
                      /\ \A k \in nuls : k >= i => FirstNul(data, i) <= k
    OBVIOUS
  <2> DEFINE r == FirstNul(data, i)
  <2>1. /\ r \in Nat
        /\ r = Len(data) + 1 \/ (r \in i..Len(data) /\ data[r] = NUL)
        /\ \A j \in i..Len(data) : data[j] = NUL => r <= j
    BY FirstNulFound
  <2> HIDE DEF r
  <2>2. r \in Nat \ {0} /\ (r = Len(data) + 1 \/ (r \in nuls /\ r >= i))
    BY <1>0, <2>1
  <2>3. \A k \in nuls : k >= i => r <= k
    BY <1>0, <2>1
  <2> QED  BY <2>2, <2>3 DEF r
<1>1. nul \in Nat \ {0} /\ (nul = Len(data) + 1 \/ nul \in nuls) /\ \A k \in nuls : nul <= k
  BY <1>0, <1>a
<1>2. /\ first \in Nat \ {0} /\ (first = Len(data) + 1 \/ (first \in nuls /\ first >= nul + 3))
      /\ \A k \in nuls : k >= nul + 3 => first <= k
  <2> HIDE DEF nul, nuls
  <2>1. nul + 3 \in Nat \ {0}
    BY <1>1
  <2> QED  BY <1>a, <2>1
<1>3. /\ second \in Nat /\ (second = Len(data) + 1 \/ (second \in nuls /\ second >= first + 1))
      /\ \A k \in nuls : k >= first + 1 => second <= k
  <2> HIDE DEF first, nuls
  <2>1. first + 1 \in Nat \ {0}
    BY <1>2
  <2> QED  BY <1>a, <2>1
<1> HIDE DEF nul, first, second
<1>4. ASSUME NEW t \in nuls \X nuls \X nuls, Laid(t)
      PROVE  parsed /\ t = <<nul, first, second>>
  <2>1. /\ t[1] \in nuls /\ t[2] \in nuls /\ t[3] \in nuls
        /\ t = <<t[1], t[2], t[3]>>
    BY <1>4
  <2>2. nuls \subseteq 1..Len(data)
    BY <1>0
  <2>3. \A k \in nuls : k <= t[3] /\ k # t[1] + 1 /\ k # t[1] + 2 => k \in {t[1], t[2], t[3]}
    BY <1>4, <2>2
  <2>4. nul = t[1]
    BY <1>0, <1>1, <1>4, <2>1, <2>2, <2>3
  <2>5. first = t[2]
    BY <1>0, <1>2, <1>4, <2>1, <2>2, <2>3, <2>4
  <2>6. second = t[3]
    BY <1>0, <1>3, <1>4, <2>1, <2>2, <2>3, <2>5
  <2> QED  BY <1>0, <1>4, <2>1, <2>2, <2>4, <2>5, <2>6
<1>5. ASSUME parsed
      PROVE  <<nul, first, second>> \in nuls \X nuls \X nuls /\ Laid(<<nul, first, second>>)
  <2>1. nul \in nuls /\ first \in nuls /\ second \in nuls
    BY <1>0, <1>1, <1>2, <1>3, <1>5
  <2>2. nul + 2 < first /\ first < second
    BY <1>0, <1>1, <1>2, <1>3, <1>5
  <2>3. \A k \in nuls : k <= second /\ k # nul + 1 /\ k # nul + 2 => k \in {nul, first, second}
    BY <1>0, <1>1, <1>2, <1>3, <2>2
  <2>4. (nuls \cap (1..second)) \ {nul + 1, nul + 2} = {nul, first, second}
    <3>1. ASSUME NEW k \in {nul, first, second}
          PROVE  k \in nuls \cap (1..second) /\ k # nul + 1 /\ k # nul + 2
      BY <1>0, <1>1, <1>2, <1>3, <2>1, <2>2, <3>1
    <3>2. ASSUME NEW k \in nuls, k \in 1..second, k # nul + 1, k # nul + 2
          PROVE  k \in {nul, first, second}
      BY <2>3, <3>2
    <3> QED  BY <3>1, <3>2, Zenon
  <2> QED  BY <2>1, <2>2, <2>4
<1>6. ParseRecord(data, n) =
        IF ~parsed THEN [seq |-> n, parseable |-> FALSE]
        ELSE [seq |-> n, parseable |-> TRUE, keyword |-> SubSeq(data, 1, nul - 1),
              text |-> SubSeq(data, second + 1, Len(data))]
  BY <1>0, <1>1, <1>2, <1>3 DEF ParseRecord, Unparseable, nul, first, second
<1> DEFINE Layout(t) == [keyword |-> SubSeq(data, 1, t[1] - 1),
                         text |-> SubSeq(data, t[3] + 1, Len(data))]
           laid == {t \in nuls \X nuls \X nuls : Laid(t)}
<1>7. Layouts(data) = {Layout(t) : t \in laid}
  BY DEF Layouts
<1> HIDE DEF Laid, nuls
<1>8. CASE parsed
  <2>1. laid = {<<nul, first, second>>}
    BY <1>4, <1>5, <1>8
  <2>2. Layout(<<nul, first, second>>) = [keyword |-> SubSeq(data, 1, nul - 1),
                                          text |-> SubSeq(data, second + 1, Len(data))]
    OBVIOUS
  <2> HIDE DEF Layout, laid
  <2>3. Layouts(data) = {Layout(<<nul, first, second>>)}
    BY <1>7, <2>1
  <2>4. ParseRecord(data, n) =
          [seq |-> n, parseable |-> TRUE, keyword |-> SubSeq(data, 1, nul - 1),
           text |-> SubSeq(data, second + 1, Len(data))]
    BY <1>6, <1>8
  <2> DEFINE r == ParseRecord(data, n)
             keyword == SubSeq(data, 1, nul - 1)
             text == SubSeq(data, second + 1, Len(data))
  <2>5. /\ r.seq = n /\ r.parseable
        /\ r.keyword = keyword
        /\ r.text = text
    <3>1. r = [seq |-> n, parseable |-> TRUE, keyword |-> keyword, text |-> text]
      BY <2>4
    <3> HIDE DEF r, keyword, text
    <3> QED  BY <3>1
  <2> HIDE DEF r
  <2>6. Layouts(data) = {[keyword |-> r.keyword, text |-> r.text]}
    BY <2>2, <2>3, <2>5
  <2>7. r.seq = n /\ IsRecordOf(r, data)
    BY <2>5, <2>6 DEF IsRecordOf
  <2> QED  BY <2>7 DEF r
<1>9. CASE ~parsed
  <2>1. laid = {}
    BY <1>4, <1>9
  <2>2. Layouts(data) = {}
    BY <1>7, <2>1
  <2> QED  BY <1>6, <1>9, <2>2 DEF IsRecordOf
<1> QED
  BY <1>8, <1>9

-----------------------------------------------------------------------------
(* Files. *)

\* Where the chunk after the first n is.
After(f, n) == IF n = 0 THEN SignatureLength ELSE End(f.chunks[n])

\* What FilesAssumption says of one chunk.
LEMMA ChunkFacts ==
  ASSUME NEW f \in Files
  PROVE  /\ Len(f.chunks) \in Nat /\ DOMAIN f.chunks = 1..Len(f.chunks)
         /\ f.size \in Nat /\ f.signed \in BOOLEAN
         /\ \A k \in 1..Len(f.chunks) :
              /\ f.chunks[k].start \in Nat /\ f.chunks[k].length \in Nat
              /\ f.chunks[k].start = After(f, k - 1)
              /\ f.chunks[k].type \in {"iTXt", "IEND", "other"}
              /\ Sequence(f.chunks[k].payload)
<1>1. Sequence(f.chunks) /\ f.size \in Nat /\ f.signed \in BOOLEAN
  BY FilesAssumption
<1>2. Len(f.chunks) \in Nat /\ DOMAIN f.chunks = 1..Len(f.chunks)
  BY <1>1, SequenceDomain
<1>3. ASSUME NEW k \in 1..Len(f.chunks)
      PROVE  /\ f.chunks[k].start \in Nat /\ f.chunks[k].length \in Nat
             /\ f.chunks[k].start = After(f, k - 1)
             /\ f.chunks[k].type \in {"iTXt", "IEND", "other"}
             /\ Sequence(f.chunks[k].payload)
  <2> DEFINE c == f.chunks[k]
  <2>1. /\ c.start \in Nat
        /\ c.start = IF k = 1 THEN SignatureLength ELSE End(f.chunks[k - 1])
        /\ c.type \in {"iTXt", "IEND", "other"} /\ c.length \in 0..MaxLength
        /\ Sequence(c.payload)
    BY <1>2, FilesAssumption
  <2>2. c.start = After(f, k - 1)
    BY <1>2, <2>1 DEF After
  <2>3. c.length \in Nat
    BY <2>1, LengthAssumption
  <2> QED  BY <2>1, <2>2, <2>3
<1> QED
  BY <1>1, <1>2, <1>3

\* Chunks do not overlap, by induction on the later one.
LEMMA ChunksInOrder ==
  ASSUME NEW f \in Files, NEW k \in 1..Len(f.chunks), NEW j \in 1..(k - 1)
  PROVE  f.chunks[j].start < f.chunks[k].start
<1> DEFINE start(i) == f.chunks[i].start
           bad == {i \in 1..Len(f.chunks) : \E h \in 1..(i - 1) : start(h) >= start(i)}
<1>1. /\ Len(f.chunks) \in Nat
      /\ \A i \in 1..Len(f.chunks) : start(i) \in Nat
  BY ChunkFacts
<1>2. ASSUME NEW i \in 2..Len(f.chunks) PROVE start(i - 1) < start(i)
  <2>1. /\ start(i) = After(f, i - 1) /\ start(i - 1) \in Nat
        /\ f.chunks[i - 1].length \in Nat
    BY <1>1, ChunkFacts
  <2>2. start(i) = start(i - 1) + HeaderLength + f.chunks[i - 1].length + CrcLength
    BY <2>1 DEF After, End
  <2>3. HeaderLength \in Nat \ {0} /\ CrcLength \in Nat
    BY LengthAssumption
  <2>4. start(i - 1) \in Nat /\ f.chunks[i - 1].length \in Nat
    BY <2>1
  <2> HIDE DEF start
  <2> QED  BY <2>2, <2>3, <2>4
<1>3. ASSUME bad # {} PROVE FALSE
  <2>1. bad \subseteq Nat
    BY <1>1
  <2>2. PICK i \in bad : \A x \in bad : i <= x
    BY <1>3, <2>1, LeastNumber
  <2>3. i \in 1..Len(f.chunks) /\ i - 1 \notin bad
    BY <1>1, <2>1, <2>2
  <2>4. PICK h \in 1..(i - 1) : start(h) >= start(i)
    BY <2>2
  <2> HIDE DEF bad
  <2>5. i \in 2..Len(f.chunks) /\ i - 1 \in 1..Len(f.chunks) /\ h \in 1..Len(f.chunks)
    BY <1>1, <2>3, <2>4
  <2>6. CASE h = i - 1
    BY <1>1, <1>2, <2>4, <2>5, <2>6
  <2>7. CASE h # i - 1
    <3>1. h \in 1..(i - 1 - 1)
      BY <2>3, <2>4, <2>5, <2>7
    <3>2. start(h) < start(i - 1)
      <4>1. ~(start(h) >= start(i - 1))
        BY <2>3, <2>5, <3>1, Zenon DEF bad
      <4>2. start(h) \in Nat /\ start(i - 1) \in Nat
        BY <1>1, <2>5
      <4> HIDE DEF start
      <4> QED  BY <4>1, <4>2
    <3>3. start(i - 1) < start(i)
      BY <1>2, <2>5
    <3> HIDE DEF start
    <3> QED  BY <1>1, <2>3, <2>4, <2>5, <3>2, <3>3
  <2> QED  BY <2>6, <2>7
<1> QED
  BY <1>1, <1>3

\* Past the end of its chunks a file has nothing but what follows IEND.
LEMMA NothingAfter ==
  ASSUME NEW f \in Files, Passed(f, Len(f.chunks))
  PROVE  f.size <= After(f, Len(f.chunks))
<1>1. Sequence(f.chunks) /\ Len(f.chunks) \in Nat
  BY FilesAssumption, SequenceDomain
<1>2. IF f.chunks = <<>> THEN f.size <= SignatureLength
      ELSE f.size <= End(Last(f.chunks)) \/ Last(f.chunks).type = "IEND"
  BY FilesAssumption
<1>3. CASE f.chunks = <<>>
  BY <1>2, <1>3 DEF After
<1>4. CASE f.chunks # <<>>
  <2>1. Len(f.chunks) # 0
    BY <1>1, <1>4 DEF Sequence
  <2>2. Last(f.chunks).type # "IEND"
    BY <1>1, <2>1 DEF Passed, Stops, Last
  <2> QED  BY <1>2, <1>4, <2>1, <2>2 DEF After, Last
<1> QED
  BY <1>3, <1>4

\* What stands where a chunk starts is the chunk.
LEMMA ChunkFound ==
  ASSUME file \in Files, NEW k \in 1..Len(file.chunks)
  PROVE  ChunkAt(file.chunks[k].start) = file.chunks[k]
<1>1. /\ Len(file.chunks) \in Nat /\ DOMAIN file.chunks = 1..Len(file.chunks)
      /\ \A j \in 1..Len(file.chunks) : file.chunks[j].start \in Nat
  BY ChunkFacts
<1>2. ASSUME NEW j \in 1..Len(file.chunks), file.chunks[j].start = file.chunks[k].start
      PROVE  j = k
  <2>1. CASE j < k
    <3>1. j \in 1..(k - 1)
      BY <1>1, <2>1
    <3> QED  BY <1>1, <1>2, <3>1, ChunksInOrder
  <2>2. CASE k < j
    <3>1. k \in 1..(j - 1)
      BY <1>1, <2>2
    <3> QED  BY <1>1, <1>2, <3>1, ChunksInOrder
  <2> QED  BY <1>1, <2>1, <2>2
<1>3. {j \in DOMAIN file.chunks : file.chunks[j].start = file.chunks[k].start} = {k}
  BY <1>1, <1>2
<1> QED
  BY <1>3 DEF ChunkAt

\* How many iTXt chunks there are among the first n is a number, and one more chunk
\* makes it one more, or not.
LEMMA TextsCounted ==
  ASSUME NEW f, NEW n \in Nat
  PROVE  /\ Cardinality(TextsUpTo(f, n)) \in Nat
         /\ TextsUpTo(f, 0) = {} /\ Cardinality(TextsUpTo(f, 0)) = 0
         /\ TextsUpTo(f, n + 1) =
              TextsUpTo(f, n) \cup (IF f.chunks[n + 1].type = "iTXt" THEN {n + 1} ELSE {})
         /\ Cardinality(TextsUpTo(f, n + 1)) =
              Cardinality(TextsUpTo(f, n)) + (IF f.chunks[n + 1].type = "iTXt" THEN 1 ELSE 0)
<1>1. IsFiniteSet(1..n)
  BY FS_Interval
<1>2. TextsUpTo(f, n) \in SUBSET (1..n)
  BY DEF TextsUpTo
<1>3. IsFiniteSet(TextsUpTo(f, n)) /\ Cardinality(TextsUpTo(f, n)) \in Nat
  BY <1>1, <1>2, FS_Subset, FS_CardinalityType
<1>4. TextsUpTo(f, n + 1) =
        TextsUpTo(f, n) \cup (IF f.chunks[n + 1].type = "iTXt" THEN {n + 1} ELSE {})
  BY DEF TextsUpTo
<1>5. n + 1 \notin TextsUpTo(f, n)
  BY DEF TextsUpTo
<1>6. Cardinality(TextsUpTo(f, n) \cup {n + 1}) = Cardinality(TextsUpTo(f, n)) + 1
  BY <1>3, <1>5, FS_AddElement
<1>7. TextsUpTo(f, 0) = {}
  BY DEF TextsUpTo
<1> QED
  BY <1>3, <1>4, <1>6, <1>7, FS_EmptySet

-----------------------------------------------------------------------------
(* The scan. *)

ReaderType ==
  /\ file \in Files
  /\ pc \in {"idle", "signature", "header", "data", "done", "cached"}
  /\ need \in Nat /\ length \in Nat /\ at \in Nat /\ buffered \in Nat /\ seq \in Nat
  /\ buffered <= at
  /\ pc \notin {"signature", "header", "data"} => need = 0

\* Of whole bytes some may be needed still.  Only what is in the file can have been
\* read or buffered; a skip alone can pass the file's end.
Needs(whole) ==
  /\ need <= whole
  /\ buffered > 0 \/ need < whole => at <= file.size

\* The records are those of the iTXt chunks among the first n.
AnyRecord == {ParseRecord(file.chunks[k].payload, i) : k \in DOMAIN file.chunks, i \in Nat}
Collected(n) ==
  /\ records \in Seq(AnyRecord)
  /\ Len(records) = seq /\ seq = Cardinality(TextsUpTo(file, n))
  /\ \A i \in 1..seq : \E k \in TextsUpTo(file, n) : Number(file, k) = i - 1
  /\ \A k \in TextsUpTo(file, n) :
       LET i == Number(file, k) + 1 IN
       i \in 1..seq /\ records[i] = ParseRecord(file.chunks[k].payload, i - 1)

\* The scan got past the first n.
Reached(n) == n \in 0..Len(file.chunks) /\ IsPng(file) /\ Passed(file, n) /\ Collected(n)

\* All that had to be read has been.
Complete ==
  /\ result = ScanResult(file)
  /\ \E n \in 0..Len(file.chunks) : Collected(n) /\ Texts(file) = TextsUpTo(file, n)

CutOff == Collected(0) \/ \E n \in 0..Len(file.chunks) : Reached(n)

\* Where the scan is.
ReadingSignature ==
  /\ Collected(0)
  /\ Position + need = SignatureLength /\ Needs(SignatureLength)
ReadingHeader(n) ==
  /\ Reached(n)
  /\ Position + need = After(file, n) + HeaderLength /\ Needs(HeaderLength)
ReadingData(k) ==
  LET c == file.chunks[k]  body == c.start + HeaderLength IN
  /\ Reached(k - 1)
  /\ c.type = "iTXt" /\ ~TooLarge(c)
  /\ length = c.length /\ body <= file.size
  /\ Position + need = body + length /\ Needs(length)

Reading ==
  /\ pc = "signature" => ReadingSignature
  /\ pc = "header" => \E n \in 0..Len(file.chunks) : ReadingHeader(n)
  /\ pc = "data" => \E k \in 1..Len(file.chunks) : ReadingData(k)
  /\ pc = "done" => IF result = "IOError" THEN CutOff ELSE Complete

\* What LengthAssumption says of the constants.
LEMMA Lengths ==
  /\ SignatureLength \in Nat \ {0} /\ HeaderLength \in Nat \ {0} /\ CrcLength \in Nat \ {0}
  /\ BufferSize \in Nat \ {0} /\ MaxChunkLength \in Nat
BY LengthAssumption

\* A step that leaves the records alone leaves them as they were collected.
LEMMA StaysCollected ==
  ASSUME NEW n, Collected(n), UNCHANGED <<file, seq, records>>
  PROVE  Collected(n)'
BY DEF Collected, AnyRecord, Number

\* Nor does it then lose how far the scan got.
LEMMA StaysReached ==
  ASSUME NEW n, Reached(n), UNCHANGED <<file, seq, records>>
  PROVE  Reached(n)'
BY StaysCollected DEF Reached

\* At first there is none.
LEMMA NoneCollected ==
  ASSUME seq' = 0, records' = <<>>
  PROVE  Collected(0)'
<1>1. TextsUpTo(file', 0) = {} /\ Cardinality(TextsUpTo(file', 0)) = 0
  BY TextsCounted
<1> HIDE DEF TextsUpTo
<1>2. records' \in Seq(AnyRecord') /\ Len(records') = 0
  OBVIOUS
<1> QED
  BY <1>1, <1>2 DEF Collected

\* A chunk that is no iTXt chunk adds nothing.
LEMMA CollectedPast ==
  ASSUME NEW n \in Nat, Collected(n), UNCHANGED <<file, seq, records>>,
         file.chunks[n + 1].type # "iTXt"
  PROVE  Collected(n + 1)'
<1>0. TextsUpTo(file, n + 1) =
        TextsUpTo(file, n) \cup (IF file.chunks[n + 1].type = "iTXt" THEN {n + 1} ELSE {})
  BY TextsCounted, Zenon
<1>1. TextsUpTo(file, n + 1) = TextsUpTo(file, n)
  BY <1>0
<1> QED
  BY <1>1, StaysCollected DEF Collected

\* An iTXt chunk adds its record, numbered by those before it.
LEMMA CollectedNext ==
  ASSUME NEW n \in Nat, Collected(n), n + 1 \in DOMAIN file.chunks, UNCHANGED file,
         file.chunks[n + 1].type = "iTXt", seq' = seq + 1,
         records' = Append(records, ParseRecord(file.chunks[n + 1].payload, seq))
  PROVE  Collected(n + 1)'
<1> DEFINE r == ParseRecord(file.chunks[n + 1].payload, seq)
<1>1. /\ TextsUpTo(file, n + 1) = TextsUpTo(file, n) \cup {n + 1}
      /\ Cardinality(TextsUpTo(file, n + 1)) = Cardinality(TextsUpTo(file, n)) + 1
      /\ Cardinality(TextsUpTo(file, n)) \in Nat
  BY TextsCounted
<1>2. Number(file, n + 1) = seq /\ seq \in Nat
  <2>1. n + 1 - 1 = n
    OBVIOUS
  <2> QED  BY <1>1, <2>1 DEF Number, Collected
<1>3. r \in AnyRecord
  BY <1>2 DEF AnyRecord
<1>4. records \in Seq(AnyRecord) /\ Len(records) = seq
  BY DEF Collected
<1> HIDE DEF r
<1>5. /\ records' = Append(records, r)
      /\ records' \in Seq(AnyRecord) /\ Len(records') = seq + 1
      /\ \A i \in 1..seq : records'[i] = records[i]
      /\ records'[seq + 1] = r
  <2>1. records' = Append(records, r)
    BY DEF r
  <2> QED  BY <1>2, <1>3, <1>4, <2>1
<1>6. AnyRecord' = AnyRecord
  BY DEF AnyRecord
<1>7. ASSUME NEW i \in 1..(seq + 1)
      PROVE  \E k \in TextsUpTo(file, n + 1) : Number(file, k) = i - 1
  <2>1. CASE i = seq + 1
    BY <1>1, <1>2, <2>1
  <2>2. CASE i \in 1..seq
    BY <1>1, <2>2 DEF Collected
  <2> QED  BY <1>2, <2>1, <2>2
<1>8. ASSUME NEW k \in TextsUpTo(file, n + 1)
      PROVE  LET i == Number(file, k) + 1 IN
             i \in 1..(seq + 1) /\ records'[i] = ParseRecord(file.chunks[k].payload, i - 1)
  <2>1. CASE k = n + 1
    <3> DEFINE i == Number(file, k) + 1
    <3>1. i = seq + 1 /\ i - 1 = seq
      BY <1>2, <2>1
    <3>2. records'[seq + 1] = ParseRecord(file.chunks[k].payload, seq)
      BY <1>5, <2>1 DEF r
    <3> HIDE DEF i
    <3>3. i \in 1..(seq + 1) /\ records'[i] = ParseRecord(file.chunks[k].payload, i - 1)
      BY <1>2, <3>1, <3>2
    <3> QED  BY <3>3 DEF i
  <2>2. CASE k \in TextsUpTo(file, n)
    <3> DEFINE i == Number(file, k) + 1
    <3>1. i \in 1..seq /\ records[i] = ParseRecord(file.chunks[k].payload, i - 1)
      BY <2>2 DEF Collected
    <3> HIDE DEF i
    <3>2. i \in 1..(seq + 1) /\ records'[i] = ParseRecord(file.chunks[k].payload, i - 1)
      BY <1>2, <1>5, <3>1
    <3> QED  BY <3>2 DEF i
  <2> QED  BY <1>1, <2>1, <2>2
<1>9. Len(records') = seq' /\ seq' = Cardinality(TextsUpTo(file, n + 1))
  BY <1>1, <1>5 DEF Collected
<1> HIDE DEF TextsUpTo
<1> QED
  BY <1>5, <1>6, <1>7, <1>8, <1>9 DEF Collected, Number

-----------------------------------------------------------------------------
(* Where the scan ends. *)

\* At a chunk that stops it.
LEMMA EndsThere ==
  ASSUME file \in Files, NEW k \in 1..Len(file.chunks), IsPng(file), Passed(file, k - 1),
         Stops(file, k)
  PROVE  /\ Texts(file) = TextsUpTo(file, k - 1)
         /\ ScanResult(file) =
              IF TooLarge(file.chunks[k]) /\ file.chunks[k].start + HeaderLength <= file.size
              THEN "ErrChunkTooLarge" ELSE "read"
<1>1. Len(file.chunks) \in Nat /\ DOMAIN file.chunks = 1..Len(file.chunks)
  BY ChunkFacts
<1>2. ASSUME NEW j \in 1..Len(file.chunks) PROVE Passed(file, j) <=> j <= k - 1
  BY <1>1 DEF Passed
<1>3. Texts(file) = TextsUpTo(file, k - 1)
  <2>1. Texts(file) = {j \in 1..Len(file.chunks) : file.chunks[j].type = "iTXt" /\ Passed(file, j)}
    BY DEF Texts, TextsUpTo
  <2>2. TextsUpTo(file, k - 1) = {j \in 1..Len(file.chunks) : file.chunks[j].type = "iTXt" /\ j <= k - 1}
    BY <1>1 DEF TextsUpTo
  <2> QED  BY <1>2, <2>1, <2>2
<1>4. ASSUME NEW j \in DOMAIN file.chunks, Passed(file, j - 1), TooLarge(file.chunks[j])
      PROVE  j = k
  <2>1. Stops(file, j)
    BY <1>4 DEF Stops
  <2> QED  BY <1>1, <1>4, <2>1 DEF Passed
<1> QED
  BY <1>1, <1>3, <1>4 DEF ScanResult

\* After all chunks.
LEMMA EndsAfterAll ==
  ASSUME file \in Files, IsPng(file), Passed(file, Len(file.chunks))
  PROVE  /\ Texts(file) = TextsUpTo(file, Len(file.chunks))
         /\ ScanResult(file) = "read"
<1>1. Len(file.chunks) \in Nat /\ DOMAIN file.chunks = 1..Len(file.chunks)
  BY ChunkFacts
<1>2. \A j \in 1..Len(file.chunks) : Passed(file, j)
  BY <1>1 DEF Passed
<1>3. \A j \in DOMAIN file.chunks : ~TooLarge(file.chunks[j])
  BY <1>1 DEF Passed, Stops
<1> QED
  BY <1>2, <1>3 DEF Texts, TextsUpTo, ScanResult

\* Before the first: what is no PNG has no texts.
LEMMA EndsAtOnce ==
  ASSUME file \in Files, ~IsPng(file)
  PROVE  Texts(file) = TextsUpTo(file, 0) /\ ScanResult(file) = "ErrNotPNG"
BY DEF Texts, TextsUpTo, ScanResult

-----------------------------------------------------------------------------
(* Steps of the scan. *)

\* What was complete, or cut off, stays so while nothing more is read.
LEMMA StaysDone ==
  ASSUME UNCHANGED <<file, seq, records, result>>
  PROVE  (Complete => Complete') /\ (CutOff => CutOff')
BY StaysCollected, StaysReached DEF Complete, CutOff

\* Reading takes from the file, or the buffer, as much as is needed less.
LEMMA MoreRead ==
  ASSUME ReaderType, Fill \/ ReadDirect \/ Copy
  PROVE  /\ ReaderType'
         /\ Position' + need' = Position + need
         /\ \A whole \in Nat : Needs(whole) => Needs(whole)'
         /\ UNCHANGED <<file, pc, length, seq, records, result>>
<1>0. file.size \in Nat /\ file \in Files
  BY ChunkFacts DEF ReaderType
<1>1. CASE Fill
  BY <1>0, <1>1, Lengths DEF Fill, ReaderType, Position, Needs, Min2
<1>2. CASE ReadDirect
  BY <1>0, <1>2, Lengths DEF ReadDirect, ReaderType, Position, Needs, Min2
<1>3. CASE Copy
  BY <1>0, <1>3, Lengths DEF Copy, ReaderType, Position, Needs, Min2
<1> QED
  BY <1>1, <1>2, <1>3

\* And the scan stays where it is.
LEMMA StaysReading ==
  ASSUME ReaderType, Reading, Position' + need' = Position + need,
         \A whole \in Nat : Needs(whole) => Needs(whole)',
         UNCHANGED <<file, pc, length, seq, records, result>>
  PROVE  Reading'
<1>1. /\ Position' + need' = Position + need
      /\ \A whole \in Nat : Needs(whole) => Needs(whole)'
      /\ UNCHANGED <<file, pc, length, seq, records, result>>
  OBVIOUS
<1>2. CASE pc = "signature"
  <2>1. ReadingSignature
    BY <1>2 DEF Reading
  <2>2. ReadingSignature'
    BY <1>1, <2>1, StaysCollected, Lengths DEF ReadingSignature
  <2> QED  BY <1>1, <1>2, <2>2 DEF Reading
<1>3. CASE pc = "header"
  <2>1. PICK n \in 0..Len(file.chunks) : ReadingHeader(n)
    BY <1>3 DEF Reading
  <2>2. ReadingHeader(n)'
    BY <1>1, <2>1, StaysReached, Lengths DEF ReadingHeader
  <2> QED  BY <1>1, <1>3, <2>2 DEF Reading
<1>4. CASE pc = "data"
  <2>1. PICK k \in 1..Len(file.chunks) : ReadingData(k)
    BY <1>4 DEF Reading
  <2>2. length \in Nat
    BY DEF ReaderType
  <2>3. ReadingData(k)'
    BY <1>1, <2>1, <2>2, StaysReached DEF ReadingData
  <2> QED  BY <1>1, <1>4, <2>3 DEF Reading
<1>5. CASE pc \notin {"signature", "header", "data"}
  BY <1>1, <1>5, StaysDone DEF Reading
<1> QED
  BY <1>1, <1>2, <1>3, <1>4, <1>5

\* The file ends where a chunk is not all there.
LEMMA FileEnds ==
  ASSUME ReaderType, Reading, EndOfFile
  PROVE  ReaderType' /\ Reading'
<1>0. /\ file \in Files /\ file.size \in Nat /\ Len(file.chunks) \in Nat
      /\ need \in Nat /\ need > 0 /\ buffered = 0 /\ at \in Nat /\ at >= file.size
      /\ pc' = "done" /\ need' = 0 /\ UNCHANGED <<file, length, at, buffered, seq, records>>
      /\ pc = "signature" => result' = "ErrNotPNG"
      /\ pc # "signature" => result' = "read"
  BY ChunkFacts DEF ReaderType, EndOfFile, Done
<1>1. ReaderType'
  BY <1>0 DEF ReaderType
<1>2. Position = at
  BY <1>0 DEF Position
<1>3. CASE pc = "signature"
  <2>1. Collected(0) /\ at + need = SignatureLength
    BY <1>2, <1>3 DEF Reading, ReadingSignature
  <2>2. ~IsPng(file)
    BY <1>0, <2>1, Lengths DEF IsPng
  <2>3. Texts(file) = TextsUpTo(file, 0) /\ ScanResult(file) = "ErrNotPNG"
    BY <1>0, <2>2, EndsAtOnce
  <2>4. Collected(0)' /\ 0 \in 0..Len(file.chunks)
    BY <1>0, <2>1, StaysCollected
  <2>5. Complete'
    BY <1>0, <1>3, <2>3, <2>4 DEF Complete
  <2> QED  BY <1>0, <1>1, <2>5 DEF Reading
<1>4. CASE pc = "header"
  <2>1. PICK n \in 0..Len(file.chunks) : ReadingHeader(n)
    BY <1>4 DEF Reading
  <2>2. at + need = After(file, n) + HeaderLength /\ Reached(n)
    BY <1>2, <2>1 DEF ReadingHeader
  <2>3. Texts(file) = TextsUpTo(file, n) /\ ScanResult(file) = "read"
    <3>1. CASE n = Len(file.chunks)
      BY <1>0, <2>2, <3>1, EndsAfterAll DEF Reached
    <3>2. CASE n # Len(file.chunks)
      <4> DEFINE k == n + 1
      <4>1. k \in 1..Len(file.chunks) /\ k - 1 = n
        BY <1>0, <3>2
      <4>2. file.chunks[k].start = After(file, n) /\ file.chunks[k].start \in Nat
        BY <1>0, <4>1, ChunkFacts
      <4> HIDE DEF k
      <4>3. file.size < file.chunks[k].start + HeaderLength
        BY <1>0, <2>2, <4>2, Lengths
      <4>4. Stops(file, k)
        BY <4>3 DEF Stops
      <4>5. ~(file.chunks[k].start + HeaderLength <= file.size)
        BY <1>0, <4>2, <4>3, Lengths
      <4>6. IsPng(file) /\ Passed(file, k - 1)
        BY <2>2, <4>1 DEF Reached
      <4> QED  BY <1>0, <4>1, <4>4, <4>5, <4>6, EndsThere
    <3> QED  BY <3>1, <3>2
  <2>4. Collected(n)'
    BY <1>0, <2>2, StaysCollected DEF Reached
  <2>5. Complete'
    BY <1>0, <1>4, <2>3, <2>4 DEF Complete
  <2> QED  BY <1>0, <1>1, <2>5 DEF Reading
<1>5. CASE pc = "data"
  <2>1. PICK k \in 1..Len(file.chunks) : ReadingData(k)
    BY <1>5 DEF Reading
  <2> DEFINE c == file.chunks[k]
  <2>2. /\ at + need = c.start + HeaderLength + c.length /\ Reached(k - 1)
        /\ c.type = "iTXt" /\ ~TooLarge(c)
    BY <1>2, <2>1 DEF ReadingData
  <2>3. c.start \in Nat /\ c.length \in Nat
    BY <1>0, ChunkFacts
  <2>4. file.size < c.start + HeaderLength + c.length
    BY <1>0, <2>2, <2>3, Lengths
  <2>5. Stops(file, k)
    BY <2>2, <2>4 DEF Stops
  <2>6. Texts(file) = TextsUpTo(file, k - 1) /\ ScanResult(file) = "read"
    BY <1>0, <2>2, <2>5, EndsThere DEF Reached
  <2>7. Collected(k - 1)' /\ k - 1 \in 0..Len(file.chunks)
    BY <1>0, <2>2, StaysCollected DEF Reached
  <2>8. Complete'
    BY <1>0, <1>5, <2>6, <2>7 DEF Complete
  <2> QED  BY <1>0, <1>1, <2>8 DEF Reading
<1> QED
  BY <1>0, <1>3, <1>4, <1>5 DEF ReaderType

\* Cut off anywhere, the scan has what it had collected.
LEMMA ScanCutOff ==
  ASSUME ReaderType, Reading, pc \in {"signature", "header", "data"}
  PROVE  CutOff
<1>1. CASE pc = "signature"
  BY <1>1 DEF Reading, ReadingSignature, CutOff
<1>2. CASE pc = "header"
  BY <1>2 DEF Reading, ReadingHeader, CutOff
<1>3. CASE pc = "data"
  <2>1. PICK k \in 1..Len(file.chunks) : Reached(k - 1)
    BY <1>3 DEF Reading, ReadingData
  <2>2. k - 1 \in 0..Len(file.chunks)
    BY <2>1 DEF Reached
  <2> QED  BY <2>1, <2>2 DEF CutOff
<1> QED
  BY <1>1, <1>2, <1>3

\* A read that fails cuts the scan off wherever it was (ReadError).
LEMMA ReadFails ==
  ASSUME ReaderType, Reading, ReadError
  PROVE  ReaderType' /\ Reading'
<1>1. pc \in {"signature", "header", "data"}
  BY DEF ReaderType, ReadError
<1>2. CutOff
  BY <1>1, ScanCutOff
<1>3. /\ pc' = "done" /\ need' = 0 /\ result' = "IOError"
      /\ UNCHANGED <<file, length, at, buffered, seq, records>>
  BY DEF ReadError, Done
<1>4. CutOff'
  BY <1>2, <1>3, StaysCollected, StaysReached DEF CutOff
<1>5. ReaderType'
  BY <1>3 DEF ReaderType
<1> QED
  BY <1>3, <1>4, <1>5 DEF Reading

\* A skip moves by what it is to skip, and buffers nothing from beyond the end.
LEMMA Skipped ==
  ASSUME ReaderType, NEW n \in Nat, Skip(n), buffered > 0 => at <= file.size
  PROVE  /\ at' \in Nat /\ buffered' \in Nat /\ buffered' <= at'
         /\ Position' = Position + n
         /\ buffered' > 0 => at' <= file.size
<1>1. CASE n <= buffered
  BY <1>1 DEF Skip, ReaderType, Position
<1>2. CASE ~(n <= buffered)
  BY <1>2 DEF Skip, ReaderType, Position
<1> QED
  BY <1>1, <1>2

\* After it, the next header is to be read.
LEMMA AtNextHeader ==
  ASSUME ReaderType, NEW n \in Nat, NextHeader, seq' \in Nat,
         at' \in Nat, buffered' \in Nat, buffered' <= at', buffered' > 0 => at' <= file.size,
         n \in 0..Len(file.chunks), Reached(n)', Position' = After(file, n)
  PROVE  ReaderType' /\ Reading'
<1>1. pc' = "header" /\ need' = HeaderLength /\ length' = 0 /\ UNCHANGED file
  BY DEF NextHeader
<1>2. ReaderType'
  BY <1>1, Lengths DEF ReaderType
<1>3. Needs(HeaderLength)'
  BY <1>1, Lengths DEF Needs
<1>4. ReadingHeader(n)'
  BY <1>1, <1>3 DEF ReadingHeader
<1> QED
  BY <1>1, <1>2, <1>4 DEF Reading

\* The share going with the skip cuts the scan off.
LEMMA SkipCutOff ==
  ASSUME ReaderType, Reading, pc \in {"signature", "header", "data"}, NEW n \in Nat,
         SkipFails(n), Done("IOError"), UNCHANGED <<seq, records>>
  PROVE  ReaderType' /\ Reading'
<1>1. CutOff
  BY ScanCutOff
<1>2. CutOff'
  BY <1>1, StaysCollected, StaysReached DEF CutOff, Done
<1>3. ReaderType'
  BY DEF ReaderType, Done, SkipFails
<1> QED
  BY <1>2, <1>3 DEF Reading, Done

\* The scan ending at the chunk in hand, with the result due to it.
LEMMA ScanEnds ==
  ASSUME ReaderType, NEW k \in 1..Len(file.chunks), Reached(k - 1), Stops(file, k),
         NEW outcome, Done(outcome), outcome # "IOError",
         outcome = ScanResult(file), UNCHANGED <<at, buffered, seq, records>>
  PROVE  ReaderType' /\ Reading'
<1>1. file \in Files
  BY DEF ReaderType
<1>2. Texts(file) = TextsUpTo(file, k - 1)
  BY <1>1, EndsThere DEF Reached
<1>3. UNCHANGED file /\ result' = outcome
  BY DEF Done
<1>4. Collected(k - 1)' /\ k - 1 \in 0..Len(file.chunks)
  BY <1>3, StaysCollected DEF Reached
<1>5. Complete'
  BY <1>2, <1>3, <1>4 DEF Complete
<1>6. ReaderType'
  BY DEF ReaderType, Done
<1> QED
  BY <1>3, <1>5, <1>6 DEF Reading, Done

\* Behind a signature comes the first header; without one it is no PNG.
LEMMA SignatureSeen ==
  ASSUME ReaderType, Reading, SignatureRead
  PROVE  ReaderType' /\ Reading'
<1>0. /\ file \in Files /\ file.size \in Nat /\ Len(file.chunks) \in Nat
      /\ at \in Nat /\ buffered \in Nat /\ buffered <= at
      /\ need = 0 /\ UNCHANGED <<file, at, buffered, seq, records>>
  BY ChunkFacts DEF ReaderType, SignatureRead, NextHeader, Done
<1>1. Collected(0) /\ Position = SignatureLength /\ at <= file.size
  <2>1. Collected(0) /\ Position + 0 = SignatureLength /\ Needs(SignatureLength)
    BY <1>0 DEF SignatureRead, Reading, ReadingSignature
  <2>2. at <= file.size
    BY <1>0, <2>1, Lengths DEF Needs
  <2>3. Position \in Int
    BY <1>0 DEF Position
  <2> QED  BY <2>1, <2>2, <2>3
<1>2. CASE file.signed
  <2>1. IsPng(file)
    BY <1>0, <1>1, <1>2, Lengths DEF IsPng, Position
  <2>2. NextHeader
    BY <1>2 DEF SignatureRead
  <2>3. Collected(0)' /\ 0 \in 0..Len(file.chunks) /\ Passed(file, 0)
    BY <1>0, <1>1, StaysCollected DEF Passed
  <2>4. Reached(0)'
    BY <1>0, <2>1, <2>3 DEF Reached
  <2>5. Position' = After(file, 0)
    BY <1>0, <1>1 DEF After, Position
  <2>6. seq' \in Nat
    BY <1>0 DEF ReaderType
  <2> QED  BY <1>0, <1>1, <2>2, <2>3, <2>4, <2>5, <2>6, AtNextHeader
<1>3. CASE ~file.signed
  <2>1. Done("ErrNotPNG")
    BY <1>3 DEF SignatureRead
  <2>2. Texts(file) = TextsUpTo(file, 0) /\ ScanResult(file) = "ErrNotPNG"
    BY <1>0, <1>3, EndsAtOnce DEF IsPng
  <2>3. Collected(0)' /\ 0 \in 0..Len(file.chunks)
    BY <1>0, <1>1, StaysCollected
  <2>4. Complete'
    BY <1>0, <2>1, <2>2, <2>3 DEF Complete, Done
  <2>5. ReaderType'
    BY <1>0, <2>1 DEF ReaderType, Done
  <2> QED  BY <2>1, <2>4, <2>5 DEF Reading, Done
<1> QED
  BY <1>2, <1>3

\* A header sends the scan past its chunk, to its payload, or to the end.
LEMMA HeaderSeen ==
  ASSUME ReaderType, Reading, HeaderRead
  PROVE  ReaderType' /\ Reading'
<1>0. /\ file \in Files /\ file.size \in Nat /\ Len(file.chunks) \in Nat
      /\ at \in Nat /\ buffered \in Nat /\ buffered <= at
      /\ pc = "header" /\ need = 0 /\ seq \in Nat /\ UNCHANGED <<seq, records>>
  BY ChunkFacts DEF ReaderType, HeaderRead
<1>1. PICK n \in 0..Len(file.chunks) : ReadingHeader(n)
  BY <1>0 DEF Reading
<1>2. /\ Reached(n) /\ IsPng(file) /\ Passed(file, n)
      /\ Position = After(file, n) + HeaderLength /\ at <= file.size
  <2>1. Reached(n) /\ Position + 0 = After(file, n) + HeaderLength /\ Needs(HeaderLength)
    BY <1>0, <1>1 DEF ReadingHeader
  <2>2. at <= file.size
    BY <1>0, <2>1, Lengths DEF Needs
  <2>3. Position \in Int
    BY <1>0 DEF Position
  <2> QED  BY <2>1, <2>2, <2>3 DEF Reached
<1>3. After(file, n) \in Nat
  <2>1. CASE n = 0
    BY <2>1, Lengths DEF After
  <2>2. CASE n # 0
    <3>1. n \in 1..Len(file.chunks)
      BY <2>2
    <3> QED  BY <1>0, <2>2, <3>1, ChunkFacts, Lengths DEF After, End
  <2> QED  BY <2>1, <2>2
<1>4. After(file, n) + HeaderLength <= file.size
  BY <1>0, <1>2, <1>3, Lengths DEF Position
<1>5. n # Len(file.chunks)
  <2>1. CASE n = Len(file.chunks)
    BY <1>0, <1>2, <1>3, <1>4, <2>1, NothingAfter, Lengths
  <2> QED  BY <2>1
<1> DEFINE k == n + 1
           c == file.chunks[k]
<1>6. k \in 1..Len(file.chunks) /\ k - 1 = n /\ k \in DOMAIN file.chunks
  BY <1>0, <1>5, ChunkFacts
<1>7. /\ c.start = After(file, n) /\ c.start \in Nat /\ c.length \in Nat
      /\ c.type \in {"iTXt", "IEND", "other"}
  BY <1>0, <1>6, ChunkFacts
<1>8. ChunkAt(Position - HeaderLength) = c
  <2>1. Position - HeaderLength = c.start
    BY <1>2, <1>3, <1>7, Lengths
  <2> QED  BY <1>0, <1>6, <2>1, ChunkFound
<1>9. c.start + HeaderLength <= file.size /\ ~(file.size < c.start + HeaderLength)
  BY <1>0, <1>3, <1>4, <1>7, Lengths
<1> HIDE DEF c, k
<1>10. CASE c.type = "IEND" /\ Done("read") /\ UNCHANGED <<at, buffered>>
  <2>1. Stops(file, k)
    BY <1>10 DEF Stops, c
  <2>2. ScanResult(file) = "read"
    BY <1>0, <1>2, <1>6, <1>10, <2>1, EndsThere DEF TooLarge, c
  <2> QED  BY <1>0, <1>2, <1>6, <1>10, <2>1, <2>2, ScanEnds
<1>11. CASE c.type = "iTXt" /\ c.length > MaxChunkLength
            /\ Done("ErrChunkTooLarge") /\ UNCHANGED <<at, buffered>>
  <2>1. TooLarge(c)
    BY <1>11 DEF TooLarge
  <2>2. Stops(file, k)
    BY <2>1 DEF Stops, c
  <2>3. ScanResult(file) = "ErrChunkTooLarge"
    BY <1>0, <1>2, <1>6, <1>9, <2>1, <2>2, EndsThere DEF c
  <2> QED  BY <1>0, <1>2, <1>6, <1>11, <2>2, <2>3, ScanEnds
<1>12. CASE c.type = "other" /\ SkipToNext(c.length + CrcLength)
  <2>1. c.length + CrcLength \in Nat
    BY <1>7, Lengths
  <2>2. CASE Skip(c.length + CrcLength) /\ NextHeader
    <3>1. UNCHANGED file
      BY <2>2 DEF NextHeader
    <3>2. ~Stops(file, k)
      BY <1>9, <1>12 DEF Stops, TooLarge, c
    <3>3. Passed(file, k)
      BY <1>2, <1>6, <3>2 DEF Passed
    <3>4. Collected(k)'
      BY <1>0, <1>2, <1>12, <3>1, CollectedPast DEF Reached, c, k
    <3>5. Reached(k)'
      BY <1>2, <1>6, <3>1, <3>3, <3>4 DEF Reached
    <3>6. /\ at' \in Nat /\ buffered' \in Nat /\ buffered' <= at'
          /\ Position' = Position + (c.length + CrcLength)
          /\ buffered' > 0 => at' <= file.size
      BY <1>2, <2>1, <2>2, Skipped
    <3>7. Position' = After(file, k)
      <4>1. After(file, k) = c.start + HeaderLength + c.length + CrcLength
        BY <1>6 DEF After, End, c
      <4> QED  BY <1>2, <1>3, <1>7, <3>6, <4>1, Lengths
    <3> QED
      BY <1>0, <1>6, <2>2, <3>5, <3>6, <3>7, AtNextHeader
  <2>3. CASE SkipFails(c.length + CrcLength) /\ Done("IOError")
    BY <1>0, <2>1, <2>3, SkipCutOff
  <2> QED  BY <1>12, <2>2, <2>3 DEF SkipToNext
<1>13. CASE /\ c.type = "iTXt" /\ c.length <= MaxChunkLength
            /\ pc' = "data" /\ need' = c.length /\ length' = c.length
            /\ UNCHANGED <<file, at, buffered, result>>
  <2>1. ReaderType'
    BY <1>0, <1>7, <1>13 DEF ReaderType
  <2>2. Reached(k - 1)'
    BY <1>0, <1>2, <1>6, <1>13, StaysReached
  <2>3. ~TooLarge(c)
    BY <1>7, <1>13, Lengths DEF TooLarge
  <2>4. Position' + need' = c.start + HeaderLength + c.length
    <3>1. Position' = Position
      BY <1>13 DEF Position
    <3> QED  BY <1>2, <1>3, <1>7, <1>13, <3>1, Lengths
  <2>5. Needs(length)'
    BY <1>0, <1>2, <1>7, <1>13 DEF Needs
  <2>6. ReadingData(k)'
    BY <1>9, <1>13, <2>2, <2>3, <2>4, <2>5 DEF ReadingData, c
  <2> QED  BY <1>6, <1>13, <2>1, <2>6 DEF Reading
<1> QED
  BY <1>8, <1>10, <1>11, <1>12, <1>13 DEF HeaderRead

\* A payload read is one more text collected, and the scan past its chunk.
LEMMA DataSeen ==
  ASSUME ReaderType, Reading, DataRead
  PROVE  ReaderType' /\ Reading'
<1>0. /\ file \in Files /\ file.size \in Nat /\ Len(file.chunks) \in Nat
      /\ at \in Nat /\ buffered \in Nat /\ buffered <= at
      /\ pc = "data" /\ need = 0 /\ seq \in Nat /\ SkipToNext(CrcLength)
  BY ChunkFacts DEF ReaderType, DataRead
<1>1. PICK k \in 1..Len(file.chunks) : ReadingData(k)
  BY <1>0 DEF Reading
<1> DEFINE c == file.chunks[k]
<1>2. /\ c.start \in Nat /\ c.length \in Nat /\ k \in DOMAIN file.chunks
      /\ k - 1 \in Nat /\ k - 1 + 1 = k
  BY <1>0, ChunkFacts
<1>3. /\ Reached(k - 1) /\ c.type = "iTXt" /\ ~TooLarge(c) /\ length = c.length
      /\ c.start + HeaderLength <= file.size
      /\ Position + 0 = c.start + HeaderLength + length /\ Needs(length)
  BY <1>0, <1>1 DEF ReadingData
<1> HIDE DEF c
<1>4. Position = c.start + HeaderLength + c.length /\ (buffered > 0 => at <= file.size)
  <2>1. Position \in Int
    BY <1>0 DEF Position
  <2> QED  BY <1>3, <2>1 DEF Needs
<1>5. c.start + HeaderLength + c.length <= file.size
  <2>1. CASE c.length = 0
    BY <1>2, <1>3, <2>1, Lengths
  <2>2. CASE c.length # 0
    <3>1. at <= file.size
      BY <1>0, <1>2, <1>3, <2>2 DEF Needs
    <3> QED  BY <1>0, <1>2, <1>4, <3>1, Lengths DEF Position
  <2> QED  BY <2>1, <2>2
<1>6. CASE Skip(CrcLength) /\ NextHeader
  <2>1. UNCHANGED file /\ pc' # "done"
    BY <1>6 DEF NextHeader
  <2>2. ChunkAt(Position - length - HeaderLength) = c
    <3>1. Position - length - HeaderLength = c.start
      BY <1>2, <1>3, <1>4, Lengths
    <3> QED  BY <1>0, <3>1, ChunkFound DEF c
  <2>3. seq' = seq + 1 /\ records' = Append(records, ParseRecord(c.payload, seq))
    BY <2>1, <2>2 DEF DataRead
  <2>4. ~Stops(file, k)
    <3>1. ~(file.size < c.start + HeaderLength) /\ ~(file.size < c.start + HeaderLength + c.length)
      BY <1>0, <1>2, <1>3, <1>5, Lengths
    <3> QED  BY <1>3, <3>1 DEF Stops, c
  <2>5. Passed(file, k)
    BY <1>3, <2>4 DEF Reached, Passed
  <2>6. Collected(k)'
    <3>1. Collected(k - 1 + 1)'
      <4> DEFINE m == k - 1
      <4>1. m \in Nat /\ m + 1 = k /\ Collected(m)
        BY <1>2, <1>3 DEF Reached
      <4> HIDE DEF m
      <4>2. Collected(m + 1)'
        BY <1>2, <1>3, <2>1, <2>3, <4>1, CollectedNext DEF c
      <4> QED  BY <1>2, <4>1, <4>2
    <3> QED  BY <1>2, <3>1
  <2>7. Reached(k)'
    BY <1>3, <2>1, <2>5, <2>6 DEF Reached
  <2>8. /\ at' \in Nat /\ buffered' \in Nat /\ buffered' <= at'
        /\ Position' = Position + CrcLength
        /\ buffered' > 0 => at' <= file.size
    BY <1>4, <1>6, Skipped, Lengths
  <2>9. Position' = After(file, k)
    <3>1. After(file, k) = c.start + HeaderLength + c.length + CrcLength
      BY <1>0 DEF After, End, c
    <3> QED  BY <1>4, <2>8, <3>1
  <2> QED
    BY <1>0, <1>6, <2>3, <2>7, <2>8, <2>9, AtNextHeader
<1>7. CASE SkipFails(CrcLength) /\ Done("IOError")
  <2>1. UNCHANGED <<seq, records>>
    BY <1>7 DEF DataRead, Done
  <2> QED  BY <1>0, <1>7, <2>1, SkipCutOff, Lengths
<1> QED
  BY <1>0, <1>6, <1>7 DEF SkipToNext

\* Every step of the reader.
LEMMA ReadingGoesOn ==
  ASSUME ReaderType, Reading, ReadNext
  PROVE  ReaderType' /\ Reading'
BY MoreRead, StaysReading, FileEnds, ReadFails, SignatureSeen, HeaderSeen, DataSeen DEF ReadNext

-----------------------------------------------------------------------------
(* The tagger. *)

\* What CacheIsTheFile says the cache should hold.
RowsFor(k) ==
  {LET text == SanitizeITXt(layout.text) IN
   [seq |-> Number(file, k), keyword |-> layout.keyword, text |-> text,
    type |-> DetectContentType(text, layout.keyword)]
   : layout \in Layouts(file.chunks[k].payload)}
FileRows == UNION {RowsFor(k) : k \in Texts(file)}

Cached == pc = "cached" \/ extracted = "now" => chunks = FileRows

\* What the records of a complete scan come to.
LEMMA RowsOfAll ==
  ASSUME ReaderType, Complete
  PROVE  Rows(records) = FileRows
<1>1. PICK n \in 0..Len(file.chunks) : Collected(n) /\ Texts(file) = TextsUpTo(file, n)
  BY DEF Complete
<1>2. /\ file \in Files /\ Len(file.chunks) \in Nat
      /\ \A k \in 1..Len(file.chunks) : Sequence(file.chunks[k].payload)
  BY ChunkFacts DEF ReaderType
<1>3. /\ DOMAIN records = 1..seq
      /\ \A i \in 1..seq : \E k \in Texts(file) : Number(file, k) = i - 1
      /\ \A k \in Texts(file) :
           LET i == Number(file, k) + 1 IN
           i \in 1..seq /\ records[i] = ParseRecord(file.chunks[k].payload, i - 1)
  BY <1>1 DEF Collected
<1>4. \A k \in Texts(file) : k \in 1..Len(file.chunks) /\ Number(file, k) \in Nat
  <2>1. ASSUME NEW k \in Texts(file) PROVE k \in 1..Len(file.chunks) /\ Number(file, k) \in Nat
    <3>1. k \in 1..Len(file.chunks) /\ k - 1 \in Nat
      BY <1>2 DEF Texts, TextsUpTo
    <3> QED  BY <3>1, TextsCounted DEF Number
  <2> QED  BY <2>1
\* The rows that one of the texts comes to.
<1> DEFINE RowOf(i) == IF records[i].parseable THEN {Row(records[i])} ELSE {}
<1>5. ASSUME NEW k \in Texts(file) PROVE RowsFor(k) = RowOf(Number(file, k) + 1)
  <2> DEFINE m == Number(file, k)
             payload == file.chunks[k].payload
             r == ParseRecord(payload, m)
  <2>1. m \in Nat /\ Sequence(payload)
    BY <1>2, <1>4
  <2>2. records[m + 1] = r
    <3>1. records[m + 1] = ParseRecord(payload, m + 1 - 1) /\ m + 1 - 1 = m
      BY <1>3, <2>1
    <3> QED  BY <3>1
  <2>3. r.seq = m /\ IsRecordOf(r, payload)
    BY <2>1, ParsedRight
  <2> HIDE DEF m, payload, r
  <2>4. RowsFor(k) = {LET text == SanitizeITXt(layout.text) IN
                       [seq |-> m, keyword |-> layout.keyword, text |-> text,
                        type |-> DetectContentType(text, layout.keyword)]
                       : layout \in Layouts(payload)}
    BY DEF RowsFor, m, payload
  <2>5. CASE r.parseable
    <3>1. Layouts(payload) = {[keyword |-> r.keyword, text |-> r.text]}
      BY <2>3, <2>5 DEF IsRecordOf
    <3> DEFINE RowFor(layout) == LET text == SanitizeITXt(layout.text) IN
                 [seq |-> m, keyword |-> layout.keyword, text |-> text,
                  type |-> DetectContentType(text, layout.keyword)]
               layout == [keyword |-> r.keyword, text |-> r.text]
    <3>2. RowFor(layout) = Row(r)
      BY <2>3 DEF Row
    <3>3. RowsFor(k) = {RowFor(l) : l \in {layout}}
      BY <2>4, <3>1
    <3> HIDE DEF RowFor, layout
    <3>4. RowsFor(k) = {Row(r)}
      BY <3>2, <3>3
    <3> QED  BY <2>2, <2>5, <3>4 DEF m
  <2>6. CASE ~r.parseable
    <3>1. Layouts(payload) = {}
      BY <2>3, <2>6 DEF IsRecordOf
    <3>2. RowsFor(k) = {}
      BY <2>4, <3>1
    <3> QED  BY <2>2, <2>6, <3>2 DEF m
  <2> QED  BY <2>5, <2>6
<1>6. Rows(records) = UNION {RowOf(i) : i \in 1..seq}
  BY <1>3 DEF Rows
<1> HIDE DEF RowOf
<1>7. UNION {RowOf(i) : i \in 1..seq} = FileRows
  <2>1. ASSUME NEW i \in 1..seq PROVE \E k \in Texts(file) : RowOf(i) = RowsFor(k)
    <3>1. PICK k \in Texts(file) : Number(file, k) = i - 1
      BY <1>3
    <3>2. Number(file, k) + 1 = i
      BY <1>4, <3>1
    <3> QED  BY <1>5, <3>2
  <2>2. ASSUME NEW k \in Texts(file) PROVE \E i \in 1..seq : RowOf(i) = RowsFor(k)
    BY <1>3, <1>5
  <2> QED  BY <2>1, <2>2 DEF FileRows
<1> QED
  BY <1>6, <1>7

TaggerInv == ReaderType /\ Reading /\ Cached

\* At first no reader is open, and this program has recorded nothing.
LEMMA InitTagger == Init => TaggerInv
<1> SUFFICES ASSUME Init PROVE TaggerInv
  OBVIOUS
<1>1. ReaderType /\ pc = "idle"
  BY DEF Init, ReaderType
<1>2. extracted # "now"
  BY NoneAssumption DEF Init
<1> QED
  BY <1>1, <1>2 DEF TaggerInv, Reading, Cached

\* Closing the reader leaves nothing to keep of the scan.
LEMMA ClosedReads ==
  ASSUME ReaderType, Closed
  PROVE  ReaderType' /\ Reading'
BY DEF ReaderType, Closed, Reading

\* Every step, whoever takes it.
LEMMA NextTagger == TaggerInv /\ [Next]_vars => TaggerInv'
<1> SUFFICES ASSUME TaggerInv, [Next]_vars PROVE TaggerInv'
  OBVIOUS
<1>0. ReaderType /\ Reading /\ Cached
  BY DEF TaggerInv
<1>1. CASE Extract
  <2>1. /\ pc' = "signature" /\ need' = SignatureLength /\ length' = 0
        /\ at' = 0 /\ buffered' = 0 /\ seq' = 0 /\ records' = <<>>
        /\ UNCHANGED <<file, chunks, extracted>> /\ pc = "idle"
    BY <1>1 DEF Extract, Opened
  <2>2. ReaderType'
    BY <1>0, <2>1, Lengths DEF ReaderType
  <2>3. ReadingSignature'
    BY <2>1, NoneCollected, Lengths DEF ReadingSignature, Position, Needs
  <2>4. Cached'
    BY <1>0, <2>1 DEF Cached, FileRows, RowsFor
  <2> QED  BY <2>1, <2>2, <2>3, <2>4 DEF TaggerInv, Reading
<1>2. CASE Read
  <2>1. ReadNext /\ UNCHANGED <<chunks, extracted>>
    BY <1>2 DEF Read
  <2>2. ReaderType' /\ Reading'
    BY <1>0, <2>1, ReadingGoesOn
  <2>3. UNCHANGED file
    BY <2>1 DEF ReadNext, Fill, ReadDirect, Copy, EndOfFile, ReadError, SignatureRead,
       HeaderRead, DataRead, SkipToNext, NextHeader, Done
  <2>4. pc' = "cached" => pc = "cached"
    BY <2>1 DEF ReadNext, Fill, ReadDirect, Copy, EndOfFile, ReadError, SignatureRead,
       HeaderRead, DataRead, SkipToNext, NextHeader, Done
  <2>5. Cached'
    BY <1>0, <2>1, <2>3, <2>4 DEF Cached, FileRows, RowsFor
  <2> QED  BY <2>2, <2>5 DEF TaggerInv
<1>3. CASE ReplaceChunks
  <2>1. /\ pc = "done" /\ result # "IOError" /\ chunks' = Rows(records) /\ pc' = "cached"
        /\ UNCHANGED <<file, length, need, at, buffered, seq, records, result>>
    BY <1>3 DEF ReplaceChunks
  <2>2. Rows(records) = FileRows
    BY <1>0, <2>1, RowsOfAll DEF Reading
  <2>3. ReaderType' /\ Reading'
    BY <1>0, <2>1 DEF ReaderType, Reading
  <2>4. Cached'
    BY <2>1, <2>2 DEF Cached, FileRows, RowsFor
  <2> QED  BY <2>3, <2>4 DEF TaggerInv
<1>4. CASE SaveVersion
  <2>1. chunks = FileRows /\ Closed /\ UNCHANGED <<file, chunks>>
    BY <1>0, <1>4 DEF SaveVersion, Cached, Closed
  <2>2. Cached'
    BY <2>1 DEF Cached, FileRows, RowsFor
  <2> QED  BY <1>0, <2>1, <2>2, ClosedReads DEF TaggerInv
<1>5. CASE ExtractFails \/ ReplaceFails \/ Crash
  <2>1. Closed /\ pc' = "idle" /\ UNCHANGED <<file, chunks, extracted>>
    BY <1>5 DEF ExtractFails, ReplaceFails, Crash, Closed
  <2>2. Cached'
    BY <1>0, <2>1 DEF Cached, FileRows, RowsFor
  <2> QED  BY <1>0, <2>1, <2>2, ClosedReads DEF TaggerInv
<1>6. CASE Derive \/ UNCHANGED vars
  <2>1. UNCHANGED <<pngVars, chunks, extracted>>
    BY <1>6 DEF Derive, vars
  <2>2. ReaderType' /\ pc' = pc
    BY <1>0, <2>1 DEF ReaderType, pngVars
  <2>3. Position' = Position /\ \A whole \in Nat : Needs(whole) => Needs(whole)'
    BY <2>1 DEF pngVars, Position, Needs
  <2>4. Reading'
    BY <1>0, <2>1, <2>3, StaysReading DEF pngVars
  <2>5. Cached'
    BY <1>0, <2>1 DEF Cached, FileRows, RowsFor, pngVars
  <2> QED  BY <2>2, <2>4, <2>5 DEF TaggerInv
<1> QED
  BY <1>1, <1>2, <1>3, <1>4, <1>5, <1>6 DEF Next

\* There are finitely many texts in a file.
LEMMA TextsFinite ==
  ASSUME NEW f \in Files
  PROVE  IsFiniteSet(Texts(f)) /\ Cardinality(Texts(f)) \in Nat
<1>1. Len(f.chunks) \in Nat
  BY ChunkFacts
<1>2. IsFiniteSet(1..Len(f.chunks))
  BY <1>1, FS_Interval
<1>3. Texts(f) \in SUBSET (1..Len(f.chunks))
  BY DEF Texts, TextsUpTo
<1> QED
  BY <1>2, <1>3, FS_Subset, FS_CardinalityType

\* The invariant holds throughout.
LEMMA TaggerInvariance == Spec => []TaggerInv
BY InitTagger, NextTagger, PTL DEF Spec

\* The numbers of the texts of a file are those of its records, so that what has been
\* collected is no more than the file's texts.
LEMMA NoMoreThanThereIs ==
  ASSUME ReaderType, NEW n \in 0..Len(file.chunks), Reached(n)
  PROVE  TextsUpTo(file, n) \subseteq Texts(file) /\ seq <= Cardinality(Texts(file))
<1>1. Len(file.chunks) \in Nat
  BY ChunkFacts DEF ReaderType
<1>2. TextsUpTo(file, n) \subseteq Texts(file)
  BY <1>1 DEF Reached, Passed, Texts, TextsUpTo
<1>3. IsFiniteSet(Texts(file))
  BY TextsFinite DEF ReaderType
<1>4. Cardinality(TextsUpTo(file, n)) <= Cardinality(Texts(file))
  BY <1>2, <1>3, FS_Subset
<1> QED
  BY <1>2, <1>4 DEF Reached, Collected

\* Collected records are those of texts.
LEMMA CollectedRight ==
  ASSUME ReaderType, NEW n \in 0..Len(file.chunks), Collected(n),
         NEW T, TextsUpTo(file, n) \subseteq T
  PROVE  /\ Len(records) = seq
         /\ \A i \in DOMAIN records : \E k \in T :
              /\ records[i].seq = i - 1 /\ Number(file, k) = i - 1
              /\ IsRecordOf(records[i], file.chunks[k].payload)
<1>1. /\ DOMAIN records = 1..seq /\ Len(records) = seq /\ seq \in Nat
      /\ file \in Files /\ Len(file.chunks) \in Nat
  BY ChunkFacts DEF Collected, ReaderType
<1>2. ASSUME NEW i \in 1..seq
      PROVE  \E k \in TextsUpTo(file, n) :
               /\ records[i].seq = i - 1 /\ Number(file, k) = i - 1
               /\ IsRecordOf(records[i], file.chunks[k].payload)
  <2>1. PICK k \in TextsUpTo(file, n) : Number(file, k) = i - 1
    BY DEF Collected
  <2>2. \A j \in TextsUpTo(file, n) :
          LET m == Number(file, j) + 1
          IN  m \in 1..seq /\ records[m] = ParseRecord(file.chunks[j].payload, m - 1)
    BY DEF Collected
  <2>3. i - 1 + 1 = i /\ i - 1 \in Nat
    BY <1>1
  <2>4. records[i] = ParseRecord(file.chunks[k].payload, i - 1)
    BY <2>1, <2>2, <2>3
  <2>5. k \in 1..Len(file.chunks)
    BY <1>1 DEF TextsUpTo
  <2>6. Sequence(file.chunks[k].payload)
    BY <1>1, <2>5, ChunkFacts
  <2> QED  BY <2>1, <2>3, <2>4, <2>6, ParsedRight
<1> QED
  BY <1>1, <1>2

\* Whatever the reads return and wherever the file is cut off, a scan that the share
\* did not cut off has the records of all iTXt chunks before its end, each what the
\* layout of its payload says, in order, and the verdict due to the file; and one cut
\* off has the first of them (read, readExactly, skip and ParseRecord).
THEOREM AllThereIsIsRead == Spec => []ReadsAllThereIs
<1>1. TaggerInv => ReadsAllThereIs
  <2> SUFFICES ASSUME TaggerInv, pc = "done" PROVE ReadsAllThereIs
    BY DEF ReadsAllThereIs
  <2>0. ReaderType /\ Reading
    BY DEF TaggerInv
  <2>1. CASE result = "IOError"
    <3>1. CASE Collected(0)
      <4>1. TextsUpTo(file, 0) = {} /\ Cardinality(TextsUpTo(file, 0)) = 0
        BY TextsCounted
      <4>2. 0 \in 0..Len(file.chunks)
        BY <2>0, ChunkFacts DEF ReaderType
      <4>3. seq = 0 /\ TextsUpTo(file, 0) \subseteq Texts(file)
        BY <3>1, <4>1 DEF Collected
      <4>4. Cardinality(Texts(file)) \in Nat
        BY <2>0, TextsFinite DEF ReaderType
      <4> QED  BY <2>0, <2>1, <3>1, <4>2, <4>3, <4>4, CollectedRight DEF ReadsAllThereIs
    <3>2. CASE \E n \in 0..Len(file.chunks) : Reached(n)
      <4>1. PICK n \in 0..Len(file.chunks) : Reached(n)
        BY <3>2
      <4>2. TextsUpTo(file, n) \subseteq Texts(file) /\ seq <= Cardinality(Texts(file))
        BY <2>0, <4>1, NoMoreThanThereIs
      <4>3. Collected(n)
        BY <4>1 DEF Reached
      <4> QED  BY <2>0, <2>1, <4>2, <4>3, CollectedRight DEF ReadsAllThereIs
    <3> QED  BY <2>0, <2>1, <3>1, <3>2 DEF Reading, CutOff
  <2>2. CASE result # "IOError"
    <3>1. Complete
      BY <2>0, <2>2 DEF Reading
    <3>2. PICK n \in 0..Len(file.chunks) : Collected(n) /\ Texts(file) = TextsUpTo(file, n)
      BY <3>1 DEF Complete
    <3>3. seq = Cardinality(Texts(file)) /\ result = ScanResult(file)
      BY <3>1, <3>2 DEF Collected, Complete
    <3> QED  BY <2>0, <2>2, <3>2, <3>3, CollectedRight DEF ReadsAllThereIs
  <2> QED  BY <2>1, <2>2
<1> QED
  BY <1>1, TaggerInvariance, PTL

\* Once the version says so the cache is what the file holds, whatever the legacy
\* pipeline left and however often reading, saving or the program failed in between
\* (Extract, ReplaceChunks and the host's save of the version).
THEOREM TheCacheIsTheFile == Spec => []CacheIsTheFile
<1>1. TaggerInv => CacheIsTheFile
  BY DEF TaggerInv, Cached, CacheIsTheFile, FileRows, RowsFor
<1> QED
  BY <1>1, TaggerInvariance, PTL

=============================================================================
