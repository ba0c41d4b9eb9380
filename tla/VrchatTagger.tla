----------------------------- MODULE VrchatTagger -----------------------------
(***************************************************************************)
(* Extract and Derive of internal/vrchat/tagger.go for one file: its iTXt  *)
(* chunks read (PngReader), cached by store/chunks.go, and turned into     *)
(* tags (ChunkLoader), with the share failing and the process dying at any *)
(* point, over a cache that may hold what the legacy pipeline left.        *)
(***************************************************************************)
EXTENDS ChunkLoader

CONSTANT LegacyOf(_)  \* what an adopted database may hold for a file: sets of rows

ASSUME LegacyAssumption ==
  \A f \in Files : \A rows \in LegacyOf(f) : \A a, b \in rows : a.seq = b.seq => a = b
ASSUME NoneAssumption == None # "now"

VARIABLES
  chunks,     \* itxt_chunks
  extracted,  \* who recorded the extract version: nobody, the legacy pipeline, us
  derived     \* {what Derive last made of the chunks, and its tags}, {} before

vars == <<pngVars, chunks, extracted, derived>>

Types == {"json", "xml", "line", "text"}

TypeOK ==
  /\ pc \in {"idle", "signature", "header", "data", "done", "cached"}
  /\ need \in Nat /\ length \in 0..MaxChunkLength
  /\ at \in Nat /\ buffered \in 0..Min2(at, BufferSize)
  /\ seq = Len(records)
  /\ result \in {"none", "read", "ErrNotPNG", "ErrChunkTooLarge", "IOError"}
  /\ \A a, b \in chunks : a.seq = b.seq => a = b
  /\ \A row \in chunks : row.type \in Types \cup {""}
  /\ extracted \in {None, "legacy", "now"}

\* Between two calls there is no reader.
Closed ==
  /\ pc' = "idle" /\ need' = 0 /\ length' = 0 /\ at' = 0 /\ buffered' = 0
  /\ seq' = 0 /\ records' = <<>> /\ result' = "none"
  /\ UNCHANGED file

Init ==
  /\ file \in Files
  /\ pc = "idle" /\ need = 0 /\ length = 0 /\ at = 0 /\ buffered = 0
  /\ seq = 0 /\ records = <<>> /\ result = "none"
  /\ \/ extracted = None /\ chunks = {}
     \/ extracted = "legacy" /\ chunks \in LegacyOf(file)
  /\ derived = {}

-----------------------------------------------------------------------------
\* The host calls when the recorded extract version is not the tagger's.
Extract ==
  /\ pc = "idle"
  /\ Opened
  /\ UNCHANGED <<file, chunks, extracted, derived>>

Read == ReadNext /\ UNCHANGED <<chunks, extracted, derived>>

\* No directory, no file, a share that is gone: an error, and nothing recorded.
ExtractFails ==
  /\ pc = "done" /\ result = "IOError"
  /\ Closed
  /\ UNCHANGED <<chunks, extracted, derived>>

\* The rows of a file: what could be parsed, under the numbers it has in the file.
Row(record) ==
  LET text == SanitizeITXt(record.text) IN
  [seq |-> record.seq, keyword |-> record.keyword, text |-> text,
   type |-> DetectContentType(text, record.keyword)]

Rows(recs) == {Row(recs[i]) : i \in {j \in DOMAIN recs : recs[j].parseable}}

\* Mutants: rows left from before; a read cut short taken for a malformed file.
ReplaceChunksWithoutDelete ==
  /\ pc = "done" /\ result # "IOError"
  /\ chunks' = chunks \cup Rows(records)
  /\ pc' = "cached"
  /\ UNCHANGED <<file, length, need, at, buffered, seq, records, result, extracted, derived>>
ReplaceChunksOfCutRead ==
  /\ pc = "done"
  /\ chunks' = Rows(records)
  /\ pc' = "cached"
  /\ UNCHANGED <<file, length, need, at, buffered, seq, records, result, extracted, derived>>

\* A malformed file is recorded with what was read of it, and so is one without
\* chunks; all in one transaction.
ReplaceChunks ==
  /\ pc = "done" /\ result # "IOError"
  /\ chunks' = Rows(records)
  /\ pc' = "cached"
  /\ UNCHANGED <<file, length, need, at, buffered, seq, records, result, extracted, derived>>

ReplaceFails ==
  /\ pc = "done" /\ result # "IOError"
  /\ Closed
  /\ UNCHANGED <<chunks, extracted, derived>>

\* Extract returned nil, and the host's save of the version is a call of its own.
SaveVersion ==
  /\ pc = "cached"
  /\ extracted' = "now"
  /\ Closed
  /\ UNCHANGED <<chunks, derived>>

\* ORDER BY seq.
InOrder(rows) == SetToSortSeq(rows, LAMBDA a, b : a.seq < b.seq)

\* Derive, with FileTags; also after a failed Extract, of what is cached.
Derive ==
  /\ pc = "idle"
  /\ derived' = {[best |-> best, tags |-> FileTags(best)] : best \in {Load(InOrder(chunks))}}
  /\ UNCHANGED <<pngVars, chunks, extracted>>

Crash ==
  /\ pc # "idle"
  /\ Closed
  /\ UNCHANGED <<chunks, extracted, derived>>

Next ==
  \/ Extract \/ Read \/ ExtractFails
  \/ ReplaceChunks \/ ReplaceFails \/ SaveVersion
  \/ Derive \/ Crash

Spec == Init /\ [][Next]_vars

-----------------------------------------------------------------------------
(* Properties. *)

\* Once the version says that this program read the file, the cache holds each
\* iTXt chunk of the file that has the layout of one, under its number and with
\* the type of its text, and nothing else, however often reading failed before.
CacheIsTheFile ==
  LET RowsFor(k) ==
        {LET text == SanitizeITXt(layout.text) IN
         [seq |-> Number(file, k), keyword |-> layout.keyword, text |-> text,
          type |-> DetectContentType(text, layout.keyword)]
         : layout \in Layouts(file.chunks[k].payload)}
  IN extracted = "now" => chunks = UNION {RowsFor(k) : k \in Texts(file)}

\* The best of what was parsed, a set of what each chunk was found to be and its seq.
\* Software is mentioned at a place: the seq of its chunk, and where in it.
Places(parsed, s) ==
  UNION {{<<p.seq, i>> : i \in {k \in DOMAIN p.found.software : p.found.software[k] = s}}
         : p \in parsed}
Before(m, o) == m[1] < o[1] \/ (m[1] = o[1] /\ m[2] < o[2])
Bare(found) == [found EXCEPT !.software = <<>>]
IsBest(best, parsed) ==
  /\ \E p \in parsed :
       /\ Bare(best) = Bare(p.found)
       /\ \A other \in parsed :
            \/ priority(other.found.effective) < priority(best.effective)
            \/ /\ priority(other.found.effective) = priority(best.effective)
               /\ p.seq <= other.seq
  /\ ToSet(best.software) = UNION {ToSet(p.found.software) : p \in parsed}
  /\ IsInjective(best.software)
  /\ \A k, m \in DOMAIN best.software : k < m =>
       \E first \in Places(parsed, best.software[k]) :
         \A other \in Places(parsed, best.software[m]) : Before(first, other)
DerivedRight(best, parsed) == IF best = None THEN parsed = {} ELSE IsBest(best, parsed)

\* Of the rows that parse the richest is taken, the first of equals, whatever
\* order they come in; there is metadata if there is any such row, and the
\* software is that of all of them, each once and in order of first mention,
\* whichever of them is taken.
BestIsDerived ==
  [][\A made \in derived' \ derived :
       DerivedRight(made.best,
                    {p \in {[seq |-> row.seq, found |-> LoadChunk(row)] : row \in chunks} :
                       p.found # None})
    ]_vars

-----------------------------------------------------------------------------
(* A screenshot (who took it where and when, and who else was there), and  *)
(* the documents that other programs write of it.  Each says of which it   *)
(* is, for the properties to know; this program does not.                  *)

Obj(f) == [shape |-> "object", at |-> f]
Str(text) == [shape |-> "string", text |-> text]
Array(items) == [shape |-> "array", items |-> items]
Falsy == [shape |-> "scalar", truthy |-> FALSE]

\* VRCX names an instance together with its world; its older payloads have "name".
User(u, key) ==
  Obj([k \in {"id", key} |-> IF k = "id" THEN Str(u.id) ELSE Str(u.name)])
Vrcx(s, key) ==
  Obj([author |-> User(s.author, key),
       world |-> Obj([id |-> Str(s.world.id), name |-> Str(s.world.name),
                      instanceId |-> Str(s.world.id \o <<":">> \o s.world.instance)]),
       players |-> Array([i \in DOMAIN s.players |-> User(s.players[i], key)])])
WrittenByVRCX(s) ==
  {[by |-> "VRCX", of |-> s, json |-> Vrcx(s, key)] : key \in {"displayName", "name"}}

\* Adobe's programs keep that within a packet of their own, which another program's
\* JSON may be in as well, and in which some name themselves in an attribute.
Entry(kind, name, text) == [name |-> name, kind |-> kind, text |-> text, json |-> Null]
Packet(entries) == [root |-> "xmpmeta", rdfs |-> 1, entries |-> entries]
Resaved(s) ==
  {[by |-> "Adobe", of |-> s,
    xml |-> Packet(<<Entry(kind, "xmp:CreatorTool", s.tool),
                     Entry("field", "dc:description", <<>>),
                     [Entry("inside", "rdf:li", <<>>) EXCEPT !.json = json],
                     [Entry("inside", "rdf:li", <<>>) EXCEPT !.json = Vrcx(s, "displayName")]>>)]
   : kind \in {"field", "attribute"}, json \in {Null, Obj([note |-> Str(s.author.name)]), Obj([world |-> Falsy])}}

\* VRChat's packets: in the normal form, and in the compact one with less in it.
WrittenByVRChat(s) ==
  [by |-> "VRChat", of |-> s,
   xml |-> Packet(<<Entry("field", "xmp:CreatorTool", s.tool),
                    Entry("field", "xmp:Author", s.author.name),
                    Entry("field", "vrc:WorldID", s.world.id),
                    Entry("field", "vrc:WorldDisplayName", s.world.name),
                    Entry("field", "vrc:AuthorID", s.author.id),
                    Entry("field", "xmp:CreateDate", s.day)>>)]
WrittenCompactly(s) ==
  [by |-> "VRChat, compactly", of |-> s,
   xml |-> Packet(<<Entry("field", "xmp:Author", s.author.id),
                    Entry("field", "vrc:World", s.world.id)>>)]

\* A line, its world bare or under a key, and a segment that is none, or players that
\* are none, anywhere after the index.
Joined(parts, sep) == Tail(FlattenSeq([i \in DOMAIN parts |-> <<sep>> \o parts[i]]))
WorldField(s) == Joined(<<s.world.id, s.world.instance, s.world.name>>, ",")
PlayerField(u) == Joined(<<u.id, <<"0">>, <<"0">>, <<"0">>, u.name>>, ",")
Segments(s, world) ==
  << <<"lfs">>, <<"0">>, <<"author", ":">> \o s.author.id \o <<",">> \o s.author.name, world >>
  \o (IF s.players = <<>> THEN <<>>
      ELSE << <<"players", ":">>
              \o Joined([i \in DOMAIN s.players |-> PlayerField(s.players[i])], ";") >>)
Malformed ==
  {<<>>, <<"rq">>, <<"pos", ":", "x">>, <<"author", ":", "x">>, <<"world", ":", "x", ",", "y">>}
  \cup {<<w>> : w \in WorldLike}
NoPlayers == {<<"players", ":">>, <<"players", ":", "x">>}
WithOneOf(segments, others) ==
  {Joined(InsertAt(segments, i, m), "|") : m \in others, i \in 3..(Len(segments) + 1)}
WrittenAsLine(s) ==
  UNION {LET segments == Segments(s, world) IN
         {[by |-> "line", of |-> s, line |-> l]
          : l \in {Joined(segments, "|")} \cup WithOneOf(segments, Malformed)}
         \cup {[by |-> "line with no players", of |-> s, line |-> l]
               : l \in WithOneOf(segments, NoPlayers)}
         : world \in {WorldField(s), <<"world", ":">> \o WorldField(s)}}

\* The tags of a screenshot as a reader of the documentation would write them down.
SceneTags(s) ==
  {<<"vrchat", <<>>>>, <<"vrchat-author-id:", s.author.id>>, <<"vrchat-world-id:", s.world.id>>}
NameTags(s) ==
  Add("vrchat-author-name:", s.author.name) \cup Add("vrchat-world-name:", s.world.name)
InstanceTags(s) ==
  {<<"vrchat-world-instanceId:", s.world.id \o <<":">> \o s.world.instance>>}
PlayerTags(s) ==
  UNION {Add("vrchat-user-id:", u.id) \cup Add("vrchat-user-name:", u.name)
         : u \in ToSet(s.players)}

\* Whichever program wrote a screenshot's metadata, and whichever saved it since, the
\* tags are the same as far as the format goes: names with commas in a line, segments
\* that are malformed ("deliberately lenient", ParseMetaLine), and Adobe's packets
\* ("recovers the payload for the standard JSON path", ExtractEmbeddedVRCXJSON) lose
\* nothing and add nothing but the editor.  A segment that should give players and
\* gives none can cost those of another one, and nothing else.
SceneIsTagged ==
  [][\A made \in derived' \ derived : made.best # None =>
       LET document == made.best.text[1]
           s        == document.of
           tags     == {t \in made.tags : t[1] # "editor:"}
           place    == SceneTags(s) \cup NameTags(s) \cup InstanceTags(s)
       IN /\ document.by \in {"VRCX", "line", "Adobe"} => tags = place \cup PlayerTags(s)
          /\ document.by = "line with no players" => tags \in {place, place \cup PlayerTags(s)}
          /\ document.by = "Adobe" =>
               ("adobe" \in ToSet(s.tool) => <<"editor:", <<"adobe">>>> \in made.tags)
          /\ document.by = "VRChat" =>
               tags = SceneTags(s) \cup NameTags(s) \cup Add("creator_tool:", s.tool)
                        \cup {<<"vrchat-date:", s.day>>}
          /\ document.by = "VRChat, compactly" => tags = SceneTags(s)
    ]_vars

\* What is taken from a packet of VRChat's under the name of an id is one, the author
\* is given once, as an id or as a name, in the compact form and as the explicit id
\* says if there is one, and is never lost ("Author is only ever interpreted as an id
\* when the compact form is detected", ParseXMP).
IdentityIsRight ==
  [][\A made \in derived' \ derived : made.best # None /\ made.best.effective = "xml" =>
       LET entries    == ToSet(made.best.text[1].xml.entries)
           Given(n)   == {TrimSpace(e.text) : e \in {f \in entries : f.name = n}} \ {<<>>}
           Tagged(ns) == {t[2] : t \in {u \in made.tags : u[1] = ns}}
           explicit == {t \in Given("vrc:AuthorID") : Matches(t, UserIds)}
       IN /\ \A t \in Tagged("vrchat-author-id:") : Matches(t, UserIds)
          /\ \A t \in Tagged("vrchat-world-id:") : Matches(t, WorldIds)
          /\ explicit # {} => Tagged("vrchat-author-id:") = explicit
          /\ IF \E e \in entries : e.name = "vrc:World"
             THEN /\ \A t \in Tagged("vrchat-author-name:") : ~Matches(t, UserIds)
                  /\ explicit = {} => Given("xmp:Author") =
                       Tagged("vrchat-author-name:") \cup Tagged("vrchat-author-id:")
             ELSE /\ Tagged("vrchat-author-name:") = Given("xmp:Author")
                  /\ Tagged("vrchat-author-id:") \subseteq explicit
    ]_vars

=============================================================================
