---------------------------- MODULE MCVrchatTagger ----------------------------
\* VrchatTagger over small files: every cut of a few layouts, every payload of up
\* to six bytes, and every cache of up to three rows that the contest tells apart.
EXTENDS VrchatTagger

CONSTANTS Byte, Comment

\* Names: none, blank, plain, and with a comma in it.
Names == {<<>>, <<Space>>, <<"ann">>, <<"ann", ",", "bob">>}
usr1 == [id |-> <<"usr_1">>, name |-> <<"ann">>]
Worlds == {[id |-> <<"wrld_1">>, instance |-> <<"123">>, name |-> n] : n \in Names}
Photoshop == <<"adobe", "photoshop", "(android)">>
VRChat == <<"vrchat", "2025">>

Scene(author, world, players, tool) ==
  [author |-> author, world |-> world, players |-> players, tool |-> tool, day |-> <<"2025-08-30">>]
usr2(name) == [id |-> <<"usr_2">>, name |-> name]
Scenes ==
  UNION {{Scene([usr1 EXCEPT !.name = n], w, players, IF n = w.name THEN VRChat ELSE Photoshop) :
            players \in {<<>>, <<usr2(n)>>, <<usr1, usr2(w.name)>>}}
         : n \in Names, w \in Worlds}

\* Packets of VRChat's, as they should and should not be: a field missing, empty, a
\* proper value or another; and fields repeated.
Field(name, texts) == {<<>>} \cup {<<Entry("field", name, t)>> : t \in texts}
Mixed ==
  {Packet(w \o v \o i \o a) :
     w \in Field("vrc:World", {<<>>, <<"wrld_1">>, <<"bad">>}),
     v \in Field("vrc:WorldID", {<<"wrld_2">>, <<"bad">>}),
     i \in Field("vrc:AuthorID", {<<"usr_1">>, <<"bad">>}),
     a \in Field("xmp:Author", {<<>>, <<"usr_2">>, <<Space, "ann">>})}
  \cup {Packet(<<Entry("field", "vrc:WorldID", <<"wrld_1">>),
                 Entry("field", "vrc:WorldID", <<"wrld_2">>)>>)}

\* One of each kind, for the contest between them.
scene == Scene(usr1, [id |-> <<"wrld_1">>, instance |-> <<"123">>, name |-> <<"ann">>], <<>>, Photoshop)
jsonDoc == [by |-> "VRCX", of |-> scene, json |-> Vrcx(scene, "displayName")]
nativeDoc ==
  [WrittenByVRChat(scene) EXCEPT
     !.xml.entries = Append(@, Entry("inside", "stEvt:softwareAgent", <<"gimp", "2.10">>))]
embeddingDoc ==
  [by |-> "Adobe", of |-> scene,
   xml |-> Packet(<<[Entry("inside", "rdf:li", <<>>) EXCEPT !.json = Vrcx(scene, "name")],
                    Entry("inside", "stEvt:softwareAgent", <<"gimp", "2.10">>),
                    Entry("inside", "stEvt:softwareAgent", Photoshop)>>)]
plainDoc ==
  [by |-> "other", of |-> scene,
   xml |-> [Packet(<<Entry("attribute", "xmp:CreatorTool", <<"pixlr">>)>>) EXCEPT !.root = "RDF"]]
lineDoc == [by |-> "line", of |-> scene, line |-> Joined(Segments(scene, WorldField(scene)), "|")]

Other(kind, contents) == {[by |-> "other", of |-> scene] @@ (kind :> c) : c \in contents}
Jsons == UNION {WrittenByVRCX(s) : s \in Scenes}
         \cup Other("json", {Null, Str(<<"x">>), Array(<<Null>>), Obj([k \in {} |-> Null])})
Packets == UNION {Resaved(s) \cup {WrittenByVRChat(s), WrittenCompactly(s)} : s \in Scenes}
           \cup Other("xml", Mixed)
           \cup {[by |-> "other", of |-> s, xml |-> Packet(<<[Entry("inside", "rdf:li", <<>>)
                    EXCEPT !.json = Obj([world |-> [Falsy EXCEPT !.truthy = TRUE]])]>>)]
                 : s \in {scene}}
Lines == UNION {WrittenAsLine(s) : s \in Scenes} \cup Other("line", {<<>>, <<"lfs", "|", "x">>})

Payload(keyword, text) == <<keyword, NUL, Byte, Byte, NUL, NUL>> \o text
Text(payload) == [type |-> "iTXt", length |-> Len(payload), payload |-> payload]
Chunk(size) == [type |-> "other", length |-> size, payload |-> <<>>]
TooLong == [type |-> "iTXt", length |-> MaxChunkLength + 1, payload |-> <<>>]
IEND == [type |-> "IEND", length |-> 0, payload |-> <<>>]

Scanned ==
  {<<Chunk(3), Text(Payload(Description, <<jsonDoc>>)), Chunk(0), Text(<<Description, NUL>>),
     Text(Payload(AdobeXMP, <<embeddingDoc>>)), IEND>>,
   <<Text(<<>>), Text(Payload(AdobeXMP, <<nativeDoc>>)), TooLong,
     Text(Payload(Description, <<jsonDoc>>)), IEND>>,
   <<Text(Payload(Comment, <<jsonDoc>>)), Text(Payload(Description, <<NUL, lineDoc>>)), Chunk(7), IEND,
     Text(Payload(Description, <<jsonDoc>>))>>,
   <<Chunk(MaxLength), Text(Payload(Description, <<Space, NUL, lineDoc>>))>>}

\* Chunks laid out one after the other.
Total(cs) ==
  FoldLeft(LAMBDA pos, c : pos + HeaderLength + c.length + CrcLength, SignatureLength, cs)
Placed(cs) == [k \in DOMAIN cs |-> cs[k] @@ [start |-> Total(SubSeq(cs, 1, k - 1))]]
FileOf(cs, size) == [chunks |-> Placed(cs), size |-> size, signed |-> TRUE]

EmptyFile == FileOf(<<>>, SignatureLength)

MCFiles ==
  UNION {{FileOf(cs, size) : size \in 0..Total(cs)} : cs \in Scanned}
  \cup {FileOf(<<Text(payload), IEND>>, Total(<<Text(payload), IEND>>)) :
          payload \in BoundedSeq({NUL, Byte}, 6)}
  \cup {EmptyFile, [EmptyFile EXCEPT !.signed = FALSE]}

\* Contents as the legacy pipeline may have stored them.
Stored(ks, ds, ts) ==
  {[keyword |-> <<k>>, text |-> <<d>>, type |-> t] : k \in ks, d \in ds, t \in ts}
AnyStored ==
  Stored({Description}, {jsonDoc}, {"json", "text"})
  \cup Stored({Description}, {lineDoc}, {"line", ""})
  \cup Stored({Description}, {nativeDoc, embeddingDoc, plainDoc}, {"xml", ""})
  \cup Stored({AdobeXMP}, {jsonDoc, lineDoc, nativeDoc, embeddingDoc}, {"xml"})
  \cup Stored({Comment}, {jsonDoc}, {"json"})

Numbered(contents) ==
  {[seq |-> i, keyword |-> contents[i + 1].keyword, text |-> contents[i + 1].text,
    type |-> contents[i + 1].type] : i \in 0..(Len(contents) - 1)}

MCLegacyOf(f) ==
  IF f = EmptyFile
  THEN {Numbered(c) : c \in BoundedSeq(AnyStored, 3)}
       \cup {Numbered(<<c>>) : c \in Stored({Description}, Jsons, {"json"})
                                   \cup Stored({Description}, Packets, {"xml"})
                                   \cup Stored({Description}, Lines, {"line"})}
  ELSE {Numbered(<<[keyword |-> <<Description>>, text |-> <<BOM, lineDoc>>, type |-> "line"]>>)}

=============================================================================
