----------------------------- MODULE ChunkLoader -----------------------------
(***************************************************************************)
(* From the cached iTXt chunks of a file to its metadata: contenttype.go,  *)
(* loader.go and sanitize.go of internal/vrchat.                           *)
(***************************************************************************)
EXTENDS PngReader, VrchatTags

CONSTANTS
  BOM,                     \* with NUL and Space, what a text may be wrapped in
  Symbols,                 \* what a text is made of but for documents
  Description, AdobeXMP    \* the keywords that matter

\* A text that is wholly a document is the one symbol for it, a record of what the
\* parser for it sees under "json", "xml" or "line".
DocsIn(text, kind) ==
  IF Len(text) = 1 /\ text[1] \notin Symbols /\ kind \in DOMAIN text[1] THEN {text[1][kind]} ELSE {}

IsJSON(text) == DocsIn(text, "json") # {}
IsXMPXML(text) == \E packet \in DocsIn(text, "xml") : packet.root \in {"xmpmeta", "RDF"}

\* The metadata, if any, that the parsers find in a text.
JsonIn(text) == {NormalizeJSON(v) : v \in DocsIn(text, "json")}
XmpIn(text) == {ParseXMP(packet) : packet \in DocsIn(text, "xml")} \ {None}
EmbeddedIn(text) ==
  {NormalizeJSON(v) : v \in {ExtractEmbedded(packet) : packet \in DocsIn(text, "xml")} \ {Null}}
LineIn(text) == {ParseMetaLine(line) : line \in DocsIn(text, "line")} \ {None}

SanitizeITXt(text) ==
  TrimRight(TrimLeft(TrimLeft(TrimLeft(text, NUL), BOM), Space), Space)

\* The type a chunk is stored with; "text" if nothing recognizes it.
DetectContentType(text, keyword) ==
  CASE keyword = <<AdobeXMP>> -> "xml"
    [] keyword # <<AdobeXMP>> /\ IsJSON(text)      -> "json"
    [] keyword # <<AdobeXMP>> /\ IsXMPXML(text)    -> "xml"
    [] keyword # <<AdobeXMP>> /\ LineIn(text) # {} -> "line"
    [] OTHER -> "text"

\* The parser a stored type calls for.
StoredContentType(stored, text) ==
  CASE stored \in {"json", "xml"}     -> stored
    [] stored = "" /\ IsXMPXML(text) -> "xml"
    [] OTHER                         -> "line"

AnyOf(found, otherwise) == IF found = {} THEN otherwise ELSE CHOOSE x \in found : TRUE
Or(found, next) == IF found # {} THEN found ELSE next

\* The metadata with the type that the document turns out to have.  An XMP packet
\* without identifiers may hold VRCX JSON; else it is read as a line.
As(effective, metas) == {[effective |-> effective, meta |-> meta] : meta \in metas}
Parse(text, contentType) ==
  CASE contentType = "json" -> As("json", JsonIn(text))
    [] contentType = "xml"  -> Or(As("xml", XmpIn(text)),
                                  Or(As("json", EmbeddedIn(text)), As("line", LineIn(text))))
    [] OTHER -> As("line", LineIn(text))

\* What is stored as XML but is no XML document names no software.
SoftwareIn(text, contentType) ==
  IF contentType = "xml"
  THEN AnyOf({ExtractEditorSoftware(packet) : packet \in DocsIn(text, "xml")}, <<>>) ELSE <<>>

\* A document's metadata and the software it names; None if it is nothing.
ParseChunk(text, contentType) ==
  AnyOf({[text |-> text, effective |-> found.effective, meta |-> found.meta,
          software |-> SoftwareIn(text, contentType)] : found \in Parse(text, contentType)},
        None)

\* What a chunk turns out to be; None if it is not for this tagger or broken.
LoadText(text, stored) == ParseChunk(text, StoredContentType(stored, text))
LoadChunk(chunk) ==
  IF chunk.keyword \in {<<Description>>, <<AdobeXMP>>}
  THEN LoadText(SanitizeITXt(chunk.text), chunk.type) ELSE None

priority(contentType) == CASE contentType = "json" -> 3 [] contentType = "xml" -> 2 [] OTHER -> 1

\* Mutant: the software taken only from a chunk that is best so far.
KeepOneBest(so, meta) ==
  IF meta = None \/ (so.best # None /\ priority(meta.effective) <= priority(so.best.effective))
  THEN so
  ELSE [best |-> meta, software |-> AddSoftware(so.software, meta.software)]

\* One turn of Load's loop: the best so far, and the software of all so far.
Keep(so, meta) ==
  IF meta = None THEN so
  ELSE [best     |-> IF so.best # None /\ priority(meta.effective) <= priority(so.best.effective)
                     THEN so.best ELSE meta,
        software |-> AddSoftware(so.software, meta.software)]

\* Chunks in the order of the file.
Loaded(all) == IF all.best = None THEN None ELSE [all.best EXCEPT !.software = all.software]
Load(chunks) ==
  Loaded(FoldLeft(LAMBDA so, chunk : Keep(so, LoadChunk(chunk)),
                  [best |-> None, software |-> <<>>], chunks))

\* FileTags: no tags without metadata.
FileTags(best) == IF best = None THEN {} ELSE BuildFileTags(best.meta, best.software)

=============================================================================
