------------------------------ MODULE VrchatTags ------------------------------
(***************************************************************************)
(* From a document in an iTXt chunk to the tags of its file: xmp.go,       *)
(* lineparser.go, normalizer.go and tagbuilder.go of internal/vrchat.  A   *)
(* text is a sequence of words and separators.  What the parsers are given *)
(* is, as they see it:                                                     *)
(*   - JSON: [shape |-> "object", at |-> keys to values], [shape |->       *)
(*     "array", items |-> values], [shape |-> "string", text |-> text] or  *)
(*     [shape |-> "scalar", truthy |-> a Boolean], a number or a truth;    *)
(*   - XML: its root, how many rdf:RDF are below it, and in document order *)
(*     the entries that matter, each a "field" of an rdf:Description, an   *)
(*     element "inside" one or an "attribute", with its text and what that *)
(*     is as JSON;                                                         *)
(*   - a line: a text.                                                     *)
(***************************************************************************)
EXTENDS Naturals, SequencesExt

CONSTANTS
  Space,                     \* white space, which TrimSpace removes
  UserIds, WorldIds,         \* the words userIDPattern and worldIDPattern accept
  WorldLike,                 \* the words that begin like a world's id
  Numbers,                   \* the words that parse as numbers
  Days,                      \* the words that parse as timestamps, each a day
  Versions, Parentheticals,  \* the words normalizeAppName drops at the end
  None

ASSUME WorldLikeAssumption == WorldIds \subseteq WorldLike

\* strings.TrimLeft and TrimRight, of one symbol.
TrimLeft(text, c) ==
  LET kept == {i \in DOMAIN text : text[i] # c} IN
  IF kept = {} THEN <<>> ELSE SubSeq(text, Min(kept), Len(text))
TrimRight(text, c) ==
  LET kept == {i \in DOMAIN text : text[i] # c} IN
  IF kept = {} THEN <<>> ELSE SubSeq(text, 1, Max(kept))
TrimSpace(text) == TrimRight(TrimLeft(text, Space), Space)

\* strings.SplitN, and Split, which has no limit but the length.
SplitN(text, sep, n) ==
  FoldLeft(LAMBDA parts, c : IF c = sep /\ Len(parts) < n THEN Append(parts, <<>>)
                             ELSE [parts EXCEPT ![Len(parts)] = Append(@, c)],
           << <<>> >>, text)
Split(text, sep) == SplitN(text, sep, Len(text) + 1)

Matches(text, words) == Len(text) = 1 /\ text[1] \in words

\* Metadata, as far as tags are made of it.
NoMetadata ==
  [author |-> [id |-> <<>>, name |-> <<>>],
   world |-> [id |-> <<>>, instanceId |-> <<>>, name |-> <<>>],
   players |-> <<>>, tool |-> <<>>, created |-> <<>>]

-----------------------------------------------------------------------------
(* VRCX JSON. *)

Null == [shape |-> "null"]
Get(v, key) == IF v.shape = "object" /\ key \in DOMAIN v.at THEN v.at[key] ELSE Null
StringAt(v, key) == LET s == Get(v, key) IN IF s.shape = "string" THEN s.text ELSE <<>>
Items(v) == IF v.shape = "array" THEN v.items ELSE <<>>

Truthy(v) == CASE v.shape = "object" -> DOMAIN v.at # {}
               [] v.shape = "array"  -> v.items # <<>>
               [] v.shape = "string" -> v.text # <<>>
               [] v.shape = "scalar" -> v.truthy
               [] OTHER              -> FALSE

\* Mutant: only the older key is looked at.
NamedByName(v) == [id |-> StringAt(v, "id"), name |-> StringAt(v, "name")]

\* A user, under the name VRCX gives or the one older payloads gave.
Named(v) ==
  [id |-> StringAt(v, "id"),
   name |-> IF StringAt(v, "displayName") # <<>> THEN StringAt(v, "displayName")
                                                 ELSE StringAt(v, "name")]

NormalizeJSON(root) ==
  LET world   == Get(root, "world")
      players == SelectSeq(Items(Get(root, "players")), LAMBDA v : v.shape = "object")
  IN [author |-> Named(Get(root, "author")),
      world |-> [id |-> StringAt(world, "id"), instanceId |-> StringAt(world, "instanceId"),
                 name |-> StringAt(world, "name")],
      players |-> [i \in DOMAIN players |-> Named(players[i])],
      tool |-> StringAt(root, "creator_tool"), created |-> <<>>]

-----------------------------------------------------------------------------
(* The line of screenshotmanager and lfs.  A malformed field is skipped. *)

\* Mutant: the instance without its world.
ParseWorldPlainly(meta, val) ==
  LET f == SplitN(val, ",", 3) IN
  IF Len(f) # 3 THEN meta
  ELSE [meta EXCEPT !.world = [id |-> f[1], instanceId |-> f[2], name |-> f[3]]]

ParseWorld(meta, val) ==
  LET f == SplitN(val, ",", 3) IN
  IF Len(f) # 3 THEN meta
  ELSE [meta EXCEPT !.world = [id |-> f[1], instanceId |-> f[1] \o <<":">> \o f[2],
                               name |-> f[3]]]

ParseAuthor(meta, val) ==
  LET f == SplitN(val, ",", 2) IN
  IF Len(f) # 2 THEN meta ELSE [meta EXCEPT !.author = [id |-> f[1], name |-> f[2]]]

SoundPlayers(meta, fields) ==
  LET sound == SelectSeq(fields, LAMBDA f :
                 Len(f) >= 5 /\ \A i \in 2..4 : Matches(f[i], Numbers))
  IN [meta EXCEPT !.players = [i \in DOMAIN sound |-> [id |-> sound[i][1], name |-> sound[i][5]]]]

\* Mutant: a name ends at its first comma.
ParsePlayersSplit(meta, val) ==
  LET entries == Split(val, ";") IN
  SoundPlayers(meta, [i \in DOMAIN entries |-> Split(entries[i], ",")])

\* The players, but for those without five fields or with a position that is none.
ParsePlayers(meta, val) ==
  LET entries == Split(val, ";") IN
  SoundPlayers(meta, [i \in DOMAIN entries |-> SplitN(entries[i], ",", 5)])

\* One segment: a bare world, told by how it begins, or a key and its value.
\* Position and quality give no tags.
ParseSegment(meta, seg) ==
  LET f == SplitN(seg, ":", 2) IN
  CASE seg # <<>> /\ seg[1] \in WorldLike    -> ParseWorld(meta, seg)
    [] Len(f) = 2 /\ f[1] = <<"author">>   -> ParseAuthor(meta, f[2])
    [] Len(f) = 2 /\ f[1] = <<"world">>    -> ParseWorld(meta, f[2])
    [] Len(f) = 2 /\ f[1] = <<"players">>  -> ParsePlayers(meta, f[2])
    [] OTHER -> meta

\* Without a known type and a whole number for the index it is no such line.
ParseMetaLine(line) ==
  LET raw   == Split(line, "|")
      parts == [i \in DOMAIN raw |-> TrimSpace(raw[i])]
  IN IF \/ Len(parts) < 2 \/ ~Matches(parts[1], {"screenshotmanager", "lfs"})
        \/ ~Matches(parts[2], Numbers)
     THEN None
     ELSE FoldLeft(ParseSegment, NoMetadata, SubSeq(parts, 3, Len(parts)))

-----------------------------------------------------------------------------
(* XMP packets. *)

Fields(packet) == {i \in DOMAIN packet.entries : packet.entries[i].kind = "field"}
Has(packet, name) == \E i \in Fields(packet) : packet.entries[i].name = name
TextOf(packet, name) ==
  IF Has(packet, name)
  THEN TrimSpace(packet.entries[CHOOSE i \in Fields(packet) : packet.entries[i].name = name].text)
  ELSE <<>>

\* parseXMPOuter: one rdf:RDF right below xmpmeta, and each field once.
WellFormed(packet) ==
  /\ packet.root = "xmpmeta" /\ packet.rdfs = 1
  /\ \A i, j \in Fields(packet) : packet.entries[i].name = packet.entries[j].name => i = j

\* Mutant: an empty vrc:World does not mark the compact form.
CompactIfNonEmpty(packet) == TextOf(packet, "vrc:World") # <<>>

\* The form in which xmp:Author may be an id; an empty vrc:World marks it too.
Compact(packet) == Has(packet, "vrc:World")

AuthorIsId(packet) == Compact(packet) /\ Matches(TextOf(packet, "xmp:Author"), UserIds)

\* Mutant: what xmp:Author implies wins over vrc:AuthorID.
AuthorIdInferred(packet) ==
  IF AuthorIsId(packet) THEN TextOf(packet, "xmp:Author")
  ELSE IF Matches(TextOf(packet, "vrc:AuthorID"), UserIds) THEN TextOf(packet, "vrc:AuthorID")
  ELSE <<>>

\* An explicit id wins over an inferred one.
AuthorId(packet) ==
  CASE Matches(TextOf(packet, "vrc:AuthorID"), UserIds) -> TextOf(packet, "vrc:AuthorID")
    [] ~Matches(TextOf(packet, "vrc:AuthorID"), UserIds) /\ AuthorIsId(packet)
         -> TextOf(packet, "xmp:Author")
    [] OTHER -> <<>>

WorldId(packet) ==
  CASE Matches(TextOf(packet, "vrc:World"), WorldIds) -> TextOf(packet, "vrc:World")
    [] /\ ~Matches(TextOf(packet, "vrc:World"), WorldIds)
       /\ Matches(TextOf(packet, "vrc:WorldID"), WorldIds) -> TextOf(packet, "vrc:WorldID")
    [] OTHER -> <<>>

\* The metadata of a packet of VRChat's; None without an identifier.
ParseXMP(packet) ==
  IF ~WellFormed(packet) \/ (AuthorId(packet) = <<>> /\ WorldId(packet) = <<>>) THEN None
  ELSE [author |-> [id |-> AuthorId(packet),
                    name |-> IF AuthorIsId(packet) THEN <<>> ELSE TextOf(packet, "xmp:Author")],
        world |-> [id |-> WorldId(packet), instanceId |-> <<>>,
                   name |-> TextOf(packet, "vrc:WorldDisplayName")],
        players |-> <<>>, tool |-> TextOf(packet, "xmp:CreatorTool"),
        created |-> LET t == TextOf(packet, "xmp:CreateDate") IN
                    IF Matches(t, Days) THEN t ELSE <<>>]

\* Mutant: of what is embedded the first object is taken, whatever it is.
HoldsAnyObject(entry) == entry.kind # "attribute" /\ entry.json.shape = "object"

\* The text of the element is VRCX JSON.
HoldsVRCX(entry) ==
  /\ entry.kind # "attribute" /\ entry.json.shape = "object"
  /\ Truthy(Get(entry.json, "world")) \/ Truthy(Get(entry.json, "author"))

\* The first of them, which Adobe's programs leave in dc:description; Null if there is none.
ExtractEmbedded(packet) ==
  LET found == SelectSeq(packet.entries, HoldsVRCX) IN
  IF found = <<>> THEN Null ELSE Head(found).json

\* Each of the given software that is not there yet.
AddSoftware(there, given) == there \o SelectSeq(given, LAMBDA s : s \notin ToSet(there))

\* The software an XML document names, in order, each once.
ExtractEditorSoftware(packet) ==
  FoldLeft(LAMBDA found, e :
             IF e.name \in {"xmp:CreatorTool", "stEvt:softwareAgent"} /\ TrimSpace(e.text) # <<>>
             THEN AddSoftware(found, <<TrimSpace(e.text)>>) ELSE found,
           <<>>, packet.entries)

-----------------------------------------------------------------------------
(* Tags: pairs of a namespace and a text. *)

\* In the order they are tried; a needle is a word here.
editorBrands ==
  << <<"adobe", "adobe">>, <<"photoshop", "adobe">>, <<"lightroom", "adobe">>,
     <<"gimp", "gimp">>, <<"affinity", "affinity">>, <<"serif", "affinity">>,
     <<"corel", "corel">>, <<"paintshop", "corel">>, <<"paint.net", "paint.net">>,
     <<"pixlr", "pixlr">>, <<"picsart", "picsart">>, <<"snapseed", "snapseed">>,
     <<"photoroom", "photoroom">>, <<"windows photo", "microsoft">>, <<"microsoft", "microsoft">> >>

normalizeAppName(raw) ==
  LET s == TrimSpace(raw)
      t == IF s # <<>> /\ Last(s) \in Parentheticals THEN Front(s) ELSE s
  IN IF Len(t) > 1 /\ Last(t) \in Versions THEN Front(t) ELSE t

\* VRChat itself is no editor.
BuildEditorTags(software) ==
  UNION {LET app    == normalizeAppName(raw)
             brands == SelectSeq(editorBrands, LAMBDA b : b[1] \in ToSet(raw))
         IN {<<"editor:", t>> : t \in ({app} \ {<<>>})
                                      \cup (IF brands = <<>> THEN {} ELSE {<<brands[1][2]>>})}
         : raw \in {s \in ToSet(software) : s # <<>> /\ "vrchat" \notin ToSet(s)}}

\* A blank value gives no tag.
Add(prefix, value) == IF TrimSpace(value) = <<>> THEN {} ELSE {<<prefix, TrimSpace(value)>>}

BuildFileTags(meta, software) ==
  {<<"vrchat", <<>>>>}
  \cup Add("vrchat-author-id:", meta.author.id) \cup Add("vrchat-author-name:", meta.author.name)
  \cup Add("vrchat-world-id:", meta.world.id) \cup Add("vrchat-world-name:", meta.world.name)
  \cup Add("vrchat-world-instanceId:", meta.world.instanceId)
  \cup UNION {Add("vrchat-user-id:", p.id) \cup Add("vrchat-user-name:", p.name)
              : p \in ToSet(meta.players)}
  \cup Add("creator_tool:", meta.tool)
  \cup BuildEditorTags(<<TrimSpace(meta.tool)>> \o software)
  \cup Add("vrchat-date:", meta.created)

=============================================================================
