------------------------------ MODULE PngReader ------------------------------
(***************************************************************************)
(* Reading the iTXt chunks of a PNG: read, ParseRecord and fileReader of   *)
(* internal/png/itxt.go.  Small reads go through a buffer, skips seek past *)
(* what the buffer holds, reads come back as short as they like, and the   *)
(* file may be cut off, or its share vanish, anywhere.                     *)
(***************************************************************************)
EXTENDS Integers, SequencesExt

CONSTANTS
  SignatureLength, HeaderLength, CrcLength, \* in bytes: 8, 8 and 4
  BufferSize,      \* bufio's, 32 KiB
  MaxChunkLength,  \* longest iTXt payload taken
  MaxLength,       \* greatest value of a length field, 2^32 - 1
  NUL,             \* the byte 0
  Files            \* files on the share

ASSUME LengthAssumption ==
  /\ {SignatureLength, HeaderLength, CrcLength, BufferSize} \subseteq Nat \ {0}
  /\ MaxChunkLength \in Nat /\ MaxLength \in Nat

\* Where the chunk after c starts, going by c's length field.
End(c) == c.start + HeaderLength + c.length + CrcLength

Sequence(s) == s \in Seq(ToSet(s))

\* A file: its chunks one after the other, as their length fields tell them, and its
\* real size, which may end anywhere among them, or after IEND.
ASSUME FilesAssumption ==
  \A f \in Files :
    /\ f.size \in Nat /\ f.signed \in BOOLEAN
    /\ Sequence(f.chunks)
    /\ \A k \in DOMAIN f.chunks :
         LET c == f.chunks[k] IN
         /\ c.start \in Nat
         /\ c.start = IF k = 1 THEN SignatureLength ELSE End(f.chunks[k - 1])
         /\ c.type \in {"iTXt", "IEND", "other"} /\ c.length \in 0..MaxLength
         /\ Sequence(c.payload)
         /\ c.type = "iTXt" /\ c.length <= MaxChunkLength => c.length = Len(c.payload)
    /\ IF f.chunks = <<>> THEN f.size <= SignatureLength
       ELSE LET c == Last(f.chunks) IN f.size <= End(c) \/ c.type = "IEND"

VARIABLES
  file,     \* the file being read
  pc,       \* what read() is about to have read
  length,   \* of the iTXt payload being read
  need,     \* bytes of it still to come
  at,       \* the file's position
  buffered, \* bytes the buffer holds, all from before that position
  seq,      \* number of iTXt chunks seen
  records,  \* what they were parsed into
  result    \* Result, without the records

pngVars == <<file, pc, length, need, at, buffered, seq, records, result>>

-----------------------------------------------------------------------------
\* ParseRecord.

\* Where the first NUL at or after position i is; beyond the end if there is none.
FirstNul(data, i) ==
  LET nuls == {j \in i..Len(data) : data[j] = NUL} IN
  IF nuls = {} THEN Len(data) + 1 ELSE Min(nuls)

Unparseable(n) == [seq |-> n, parseable |-> FALSE]

\* Keyword, NUL, two flags, language, NUL, translated keyword, NUL, text; of which
\* keyword and text matter here.  (Decoding repairs what is not UTF-8; these are.)
ParseRecord(data, n) ==
  LET nul    == FirstNul(data, 1)
      first  == FirstNul(data, nul + 3)
      second == FirstNul(data, first + 1)
  IN IF nul + 2 > Len(data) \/ first > Len(data) \/ second > Len(data)
     THEN Unparseable(n)
     ELSE [seq |-> n, parseable |-> TRUE, keyword |-> SubSeq(data, 1, nul - 1),
           text |-> SubSeq(data, second + 1, Len(data))]

-----------------------------------------------------------------------------
NoChunk == [start |-> 0, type |-> "other", length |-> 0, payload |-> <<>>]

\* What stands at a position: a chunk, or bytes that are none.
ChunkAt(pos) ==
  LET here == {k \in DOMAIN file.chunks : file.chunks[k].start = pos} IN
  IF here = {} THEN NoChunk ELSE file.chunks[CHOOSE k \in here : TRUE]

\* The position up to which bytes were consumed.
Position == at - buffered

Min2(a, b) == IF a < b THEN a ELSE b

\* ReadFile: the file opened and a buffer made.
Opened ==
  /\ pc' = "signature" /\ need' = SignatureLength
  /\ length' = 0
  /\ at' = 0 /\ buffered' = 0
  /\ seq' = 0 /\ records' = <<>> /\ result' = "none"

-----------------------------------------------------------------------------
\* io.ReadFull over bufio.Reader over os.File.

\* Short of bytes for less than a buffer: one read fills what it may.
Fill ==
  /\ need > 0 /\ need < BufferSize /\ buffered = 0 /\ at < file.size
  /\ \E n \in 1..Min2(BufferSize, file.size - at) : at' = at + n /\ buffered' = n
  /\ UNCHANGED <<file, pc, length, need, seq, records, result>>

\* For more, the buffer is passed by.
ReadDirect ==
  /\ need >= BufferSize /\ buffered = 0 /\ at < file.size
  /\ \E n \in 1..Min2(need, file.size - at) : at' = at + n /\ need' = need - n
  /\ UNCHANGED <<file, pc, length, buffered, seq, records, result>>

Copy ==
  /\ need > 0 /\ buffered > 0
  /\ LET n == Min2(need, buffered) IN need' = need - n /\ buffered' = buffered - n
  /\ UNCHANGED <<file, pc, length, at, seq, records, result>>

Done(outcome) ==
  /\ result' = outcome
  /\ pc' = "done" /\ need' = 0
  /\ UNCHANGED <<file, length>>

\* The file ends first: no PNG without a signature, and otherwise a PNG cut short.
EndOfFile ==
  /\ need > 0 /\ buffered = 0 /\ at >= file.size
  /\ Done(IF pc = "signature" THEN "ErrNotPNG" ELSE "read")
  /\ UNCHANGED <<at, buffered, seq, records>>

ReadError ==
  /\ need > 0 /\ buffered = 0
  /\ Done("IOError")
  /\ UNCHANGED <<at, buffered, seq, records>>

-----------------------------------------------------------------------------
\* fileReader.skip.

\* Mutant: what the buffer holds taken for bytes still to be passed.
SkipFromPosition(n) ==
  IF n <= buffered THEN buffered' = buffered - n /\ UNCHANGED at
                   ELSE at' = at + n /\ buffered' = 0

\* Within the buffer, or past it, perhaps past the end, with the buffer emptied.
Skip(n) ==
  IF n <= buffered THEN buffered' = buffered - n /\ UNCHANGED at
                   ELSE at' = at + (n - buffered) /\ buffered' = 0

\* A seek, too, is an operation of the share.
SkipFails(n) == n > buffered /\ buffered' = 0 /\ UNCHANGED at

\* Read on: the header of the next chunk.
NextHeader ==
  /\ pc' = "header" /\ need' = HeaderLength /\ length' = 0
  /\ UNCHANGED <<file, result>>

\* What is left of the chunk, and perhaps the share with it.
SkipToNext(n) ==
  \/ Skip(n) /\ NextHeader
  \/ SkipFails(n) /\ Done("IOError")

-----------------------------------------------------------------------------
\* read().

SignatureRead ==
  /\ pc = "signature" /\ need = 0
  /\ IF file.signed THEN NextHeader ELSE Done("ErrNotPNG")
  /\ UNCHANGED <<at, buffered, seq, records>>

HeaderRead ==
  /\ pc = "header" /\ need = 0
  /\ LET c == ChunkAt(Position - HeaderLength) IN
     \/ /\ c.type = "IEND"
        /\ Done("read") /\ UNCHANGED <<at, buffered>>
     \/ /\ c.type = "other"
        /\ SkipToNext(c.length + CrcLength)
     \/ /\ c.type = "iTXt" /\ c.length > MaxChunkLength
        /\ Done("ErrChunkTooLarge") /\ UNCHANGED <<at, buffered>>
     \/ /\ c.type = "iTXt" /\ c.length <= MaxChunkLength
        /\ pc' = "data" /\ need' = c.length
        /\ length' = c.length
        /\ UNCHANGED <<file, at, buffered, result>>
  /\ UNCHANGED <<seq, records>>

\* Parsed once its checksum is skipped.
DataRead ==
  /\ pc = "data" /\ need = 0
  /\ SkipToNext(CrcLength)
  /\ IF pc' = "done" THEN UNCHANGED <<seq, records>>
     ELSE /\ LET c == ChunkAt(Position - length - HeaderLength) IN
               records' = Append(records, ParseRecord(c.payload, seq))
          /\ seq' = seq + 1

ReadNext ==
  \/ Fill \/ ReadDirect \/ Copy \/ EndOfFile \/ ReadError
  \/ SignatureRead \/ HeaderRead \/ DataRead

-----------------------------------------------------------------------------
(* What should come of it, from the file as a whole. *)

\* The scan ends at a chunk: IEND, one too large, or one not all there.
TooLarge(c) == c.type = "iTXt" /\ c.length > MaxChunkLength
Stops(f, k) ==
  LET c == f.chunks[k]  body == c.start + HeaderLength IN
  \/ f.size < body
  \/ c.type = "IEND" \/ TooLarge(c)
  \/ c.type = "iTXt" /\ f.size < body + c.length
Passed(f, n) == \A k \in 1..n : ~Stops(f, k)

IsPng(f) == f.signed /\ f.size >= SignatureLength

\* The iTXt chunks before it, each with its number among them.
TextsUpTo(f, n) == {k \in 1..n : f.chunks[k].type = "iTXt"}
Texts(f) == {k \in TextsUpTo(f, Len(f.chunks)) : IsPng(f) /\ Passed(f, k)}
Number(f, k) == Cardinality(TextsUpTo(f, k - 1))

ScanResult(f) ==
  IF ~IsPng(f) THEN "ErrNotPNG"
  ELSE IF \E k \in DOMAIN f.chunks :
            /\ Passed(f, k - 1)
            /\ TooLarge(f.chunks[k]) /\ f.chunks[k].start + HeaderLength <= f.size
       THEN "ErrChunkTooLarge" ELSE "read"

\* keyword NUL flag flag language NUL translated-keyword NUL text, where only the
\* flags and the text may hold a NUL.
Layouts(data) ==
  LET nuls == {n \in DOMAIN data : data[n] = NUL} IN
  {[keyword |-> SubSeq(data, 1, ijk[1] - 1), text |-> SubSeq(data, ijk[3] + 1, Len(data))] :
     ijk \in {t \in nuls \X nuls \X nuls :
               /\ t[1] + 2 < t[2] /\ t[2] < t[3]
               /\ (nuls \cap (1..t[3])) \ {t[1] + 1, t[1] + 2} = {t[1], t[2], t[3]}}}

IsRecordOf(record, data) ==
  Layouts(data) = IF record.parseable THEN {[keyword |-> record.keyword, text |-> record.text]}
                                      ELSE {}

\* However the file came in through the buffer, a scan that was not cut off by the
\* share has the records of every iTXt chunk before its end, numbered in order,
\* and the verdict due to the file; one cut off has the first of them.
ReadsAllThereIs ==
  pc = "done" =>
    /\ IF result = "IOError" THEN Len(records) <= Cardinality(Texts(file))
       ELSE Len(records) = Cardinality(Texts(file)) /\ result = ScanResult(file)
    /\ \A i \in DOMAIN records : \E k \in Texts(file) :
         /\ records[i].seq = i - 1 /\ Number(file, k) = i - 1
         /\ IsRecordOf(records[i], file.chunks[k].payload)

=============================================================================
