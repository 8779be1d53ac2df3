------------------------------ MODULE Passages -------------------------------
(***************************************************************************)
(* What an ingest makes of a document and of a corpus before it writes     *)
(* them: the body is cleaned and cut into passages                         *)
(* (packages/content/src/ingest/chunking.ts), the nodes of the manifest    *)
(* are validated, put in an order that meets every parent first, and       *)
(* written and read as JSON (packages/content/src/ingest/manifest.ts).     *)
(*                                                                         *)
(* A line is a record: what it is, its level and title when it is a        *)
(* heading, its mark and run when it fences code, and its size.  A text is *)
(* a sequence of lines; a passage's content is a sequence of code points,  *)
(* each the number of the line it is of.                                   *)
(***************************************************************************)
EXTENDS Integers, SequencesExt

CONSTANTS
    Bodies,    \* documents as they are in the tree
    MaxChars, HardMax,  \* the budget of a piece and the ceiling, at least it
    MinContent,         \* words of a passage that says something
    Corpora    \* sequences of manifest nodes

\* The kinds of lines: what opens or closes a style block, a layout tag or code
\* (marked by its run of ticks or tildes), and what passages are told apart by.
LineKinds ==
    {"heading", "prose", "blank", "link", "assessment", "embed", "fence", "style", "unstyle",
     "open", "close"}
Marks == {"tick", "tilde", "none"}
TextLines ==
    [is : LineKinds, level : Int, title : STRING, mark : Marks, run : Nat, info : BOOLEAN,
     size : Nat \ {0}]

\* A list that a document does not have; it may have one without elements.
NoList == {"none"}
Lists == (SUBSET STRING) \cup {NoList}
ManifestNodes ==
    [id : STRING, slug : STRING, parent : STRING, position : Int, audience : Lists,
     sources : Lists, verified : Lists, keywords : SUBSET STRING]

ASSUME PassagesAssumption ==
    /\ MaxChars \in Nat \ {0} /\ HardMax \in Nat /\ MaxChars <= HardMax
    /\ \A text \in Bodies : text \in Seq(TextLines)
    /\ \A nodes \in Corpora : nodes \in Seq(ManifestNodes)

VARIABLES
    body, corpus,  \* what is ingested
    passages,      \* chunkText of the cleaned body; <<>> until it ran
    inserted       \* the nodes in the order they are written, or why not

passagesVars == <<body, corpus, passages, inserted>>

-----------------------------------------------------------------------------
(* Fences: a run of one mark opens, a run of it no shorter and bare closes.   *)
NoFence == [mark |-> "none", run |-> 0]

FenceStep(line, fence) ==
    IF line.is # "fence" THEN fence
    ELSE IF fence = NoFence THEN [mark |-> line.mark, run |-> line.run]
    ELSE IF line.mark = fence.mark /\ line.run >= fence.run /\ ~line.info THEN NoFence
    ELSE fence

\* The fence that is open after each of some lines, from one that is open before.
FenceOver(text, lines, fence) ==
    LET open[k \in 0..Len(lines)] ==
            IF k = 0 THEN fence ELSE FenceStep(text[lines[k]], open[k - 1])
    IN  open

\* A text's lines, and the fence that is open after each: before the next.
AllLines(text) == [i \in 1..Len(text) |-> i]
Fences(text) == FenceOver(text, AllLines(text), NoFence)

-----------------------------------------------------------------------------
(* Cleaning: style blocks, then layout tags that say nothing of content.      *)
\* A style line opens a block unless it ends it too; a block ends at its
\* closing tag, whatever is in between.
StyleStep(kept, line) ==
    IF kept.dropping THEN [kept EXCEPT !.dropping = line.is # "unstyle"]
    ELSE IF line.is = "style" /\ kept.fence = NoFence THEN [kept EXCEPT !.dropping = TRUE]
    ELSE [kept EXCEPT !.out = Append(kept.out, line), !.fence = FenceStep(line, kept.fence)]

\* Only a document that begins with a style block is looked through for them.
StripStyleBlocks(text) ==
    LET Begins == \E i \in DOMAIN text :
                      text[i].is = "style" /\ \A j \in 1..i - 1 : text[j].is = "blank"
        kept[i \in 0..Len(text)] ==
            IF i = 0 THEN [out |-> <<>>, dropping |-> FALSE, fence |-> NoFence]
            ELSE StyleStep(kept[i - 1], text[i])
    IN  IF Begins THEN kept[Len(text)].out ELSE text

\* An opening tag without attributes goes, and the closing one that matches it.
TagStep(stripped, line) ==
    LET Goes == [stripped EXCEPT !.out = Append(stripped.out, [line EXCEPT !.is = "blank"])]
        Stays == [stripped EXCEPT !.out = Append(stripped.out, line)]
        stack == stripped.stack
    IN  IF line.is = "open"
        THEN [(IF line.info THEN Stays ELSE Goes) EXCEPT !.stack = Append(stack, ~line.info)]
        ELSE IF line.is = "close" /\ stack # <<>>
        THEN [(IF Last(stack) THEN Goes ELSE Stays) EXCEPT !.stack = Front(stack)]
        ELSE Stays

StripPresentationJsx(text) ==
    LET Outside(i) == Fences(text)[i - 1] = NoFence /\ text[i].is # "fence"
        stripped[i \in 0..Len(text)] ==
            IF i = 0 THEN [out |-> <<>>, stack |-> <<>>]
            ELSE IF Outside(i) THEN TagStep(stripped[i - 1], text[i])
            ELSE [stripped[i - 1] EXCEPT !.out = Append(@, text[i])]
    IN  stripped[Len(text)].out

CleanBody(text) == StripPresentationJsx(StripStyleBlocks(text))

-----------------------------------------------------------------------------
(* Sections: a heading outside code opens one; levels 2 to 4 are its path.    *)
IsHeading(text, i) == text[i].is = "heading" /\ Fences(text)[i - 1] = NoFence

\* The titles in force after a heading: its own, and those above it.
Titles(titles, heading) ==
    [l \in 1..4 |->
        IF l = heading.level THEN heading.title ELSE IF l > heading.level THEN "" ELSE titles[l]]
HeadingPath(titles) == SelectSeq(<<titles[2], titles[3], titles[4]>>, LAMBDA t : t # "")

\* segmentText: runs of line numbers, each with the path of the heading it opens with.
Flush(acc) ==
    IF acc.buf = <<>> THEN acc.segs
    ELSE Append(acc.segs, [path |-> HeadingPath(acc.titles), lines |-> acc.buf])
SegmentStep(text, acc, i) ==
    IF IsHeading(text, i)
    THEN [segs |-> Flush(acc), titles |-> Titles(acc.titles, text[i]), buf |-> <<i>>]
    ELSE [acc EXCEPT !.buf = Append(acc.buf, i)]

SegmentText(text) ==
    LET read[i \in 0..Len(text)] ==
            IF i = 0 THEN [segs |-> <<>>, titles |-> [l \in 1..4 |-> ""], buf |-> <<>>]
            ELSE SegmentStep(text, read[i - 1], i)
    IN  Flush(read[Len(text)])

-----------------------------------------------------------------------------
(* Sizes and kinds.                                                           *)
\* Lines as code points.
Points(text, lines) ==
    FlattenSeq([k \in 1..Len(lines) |-> [n \in 1..text[lines[k]].size |-> lines[k]]])

LinesOf(content) ==
    LET Step(acc, n) == IF acc # <<>> /\ Last(acc) = n THEN acc ELSE Append(acc, n)
    IN  FoldLeft(Step, <<>>, content)

\* isNavShaped: nothing but headings, mostly links, or hardly a word besides.
IsNavShaped(text, content) ==
    LET taught == SelectSeq(LinesOf(content), LAMBDA n : text[n].is \notin {"heading", "blank"})
        links == SelectSeq(taught, LAMBDA n : text[n].is = "link")
        prose == SelectSeq(content, LAMBDA n : text[n].is \notin {"heading", "blank", "link"})
    IN  Len(links) * 2 > Len(taught) \/ Len(prose) < MinContent

\* dominantWidget: the first widget that nothing but navigation stands before.
DominantWidget(text, content) ==
    LET First(w) == SelectInSeq(content, LAMBDA n : text[n].is = w)
        Leads(w) == First(w) > 0 /\ IsNavShaped(text, SubSeq(content, 1, First(w) - 1))
    IN  IF Leads("assessment") THEN "assessment" ELSE IF Leads("embed") THEN "embed" ELSE "none"

Classify(text, content) ==
    IF DominantWidget(text, content) # "none" THEN DominantWidget(text, content)
    ELSE IF IsNavShaped(text, content) THEN "nav"
    ELSE "prose"

-----------------------------------------------------------------------------
(* Cutting a section that is too long: at runs of blank lines outside code,   *)
(* and anywhere when a piece is still past the ceiling.                       *)
IsGap(text, n) == text[n].is = "blank"

\* The runs of blank lines and the runs between them, in order.
PartStep(text, parts, n) ==
    IF parts # <<>> /\ IsGap(text, Last(Last(parts))) = IsGap(text, n)
    THEN [parts EXCEPT ![Len(parts)] = Append(Last(parts), n)]
    ELSE Append(parts, <<n>>)
Parts(text, lines) ==
    LET cut[k \in 0..Len(lines)] ==
            IF k = 0 THEN <<>> ELSE PartStep(text, cut[k - 1], lines[k])
    IN  cut[Len(lines)]

\* The greedy packing of a section's parts.
PackStep(text, acc, part) ==
    LET Room == Len(Points(text, acc.buf)) + Len(Points(text, part)) <= MaxChars
        Flushes == acc.buf # <<>> /\ acc.fence = NoFence /\ ~Room
    IN  [pieces |-> IF Flushes THEN Append(acc.pieces, acc.buf) ELSE acc.pieces,
         buf |-> IF Flushes THEN part ELSE acc.buf \o part,
         fence |-> FenceOver(text, part, acc.fence)[Len(part)]]
Packed(text, lines) ==
    LET parts == Parts(text, lines)
        packed[k \in 0..Len(parts)] ==
            IF k = 0 THEN [pieces |-> <<>>, buf |-> <<>>, fence |-> NoFence]
            ELSE PackStep(text, packed[k - 1], parts[k])
        end == packed[Len(parts)]
    IN  Append(end.pieces, end.buf)

EnforceCeiling(points) ==
    LET Cuts == (Len(points) + HardMax - 1) \div HardMax
        End(k) == IF k * HardMax < Len(points) THEN k * HardMax ELSE Len(points)
    IN  IF Len(points) <= HardMax THEN <<points>>
        ELSE [k \in 1..Cuts |-> SubSeq(points, (k - 1) * HardMax + 1, End(k))]

Subsplit(text, lines) ==
    LET points == Points(text, lines)
        packed == Packed(text, lines)
    IN  IF Len(points) <= MaxChars THEN <<points>>
        ELSE FlattenSeq([k \in 1..Len(packed) |-> EnforceCeiling(Points(text, packed[k]))])

\* A section's widget names all of it; a piece of links in a section that is
\* not navigation is content.
SourceType(text, seg, piece) ==
    LET whole == Points(text, seg.lines)
        marker == DominantWidget(text, whole)
        kind == Classify(text, piece)
    IN  IF marker # "none" THEN marker
        ELSE IF kind = "nav" /\ ~IsNavShaped(text, whole) THEN "prose"
        ELSE kind

\* chunkText: blank lines before the first section go with its first piece.
IsEmpty(text, seg) == \A k \in 1..Len(seg.lines) : IsGap(text, seg.lines[k])
Emit(text, prefix, seg) ==
    LET pieces == Subsplit(text, seg.lines)
    IN  [k \in 1..Len(pieces) |->
            [content |-> IF k = 1 THEN prefix \o pieces[k] ELSE pieces[k], path |-> seg.path,
             kind |-> SourceType(text, seg, pieces[k])]]
ChunkStep(text, acc, seg) ==
    IF ~IsEmpty(text, seg)
    THEN [out |-> acc.out \o Emit(text, acc.prefix, seg), prefix |-> <<>>]
    ELSE IF acc.out = <<>>
    THEN [acc EXCEPT !.prefix = acc.prefix \o Points(text, seg.lines)]
    ELSE [acc EXCEPT !.out[Len(acc.out)].content =
             acc.out[Len(acc.out)].content \o Points(text, seg.lines)]
ChunkText(text) ==
    LET segs == SegmentText(text)
        cut[k \in 0..Len(segs)] ==
            IF k = 0 THEN [out |-> <<>>, prefix |-> <<>>]
            ELSE ChunkStep(text, cut[k - 1], segs[k])
        done == cut[Len(segs)]
    IN  IF done.prefix = <<>> THEN done.out
        ELSE Append(done.out, [content |-> done.prefix, path |-> <<>>, kind |-> "nav"])

-----------------------------------------------------------------------------
(* The manifest.  A node names its parent by id ("none": a root).             *)
Ids(nodes) == {nodes[i].id : i \in DOMAIN nodes}
Places(nodes, id) == {i \in DOMAIN nodes : nodes[i].id = id}
NodeOf(nodes, id) == nodes[CHOOSE i \in Places(nodes, id) : TRUE]

\* validate.
Validate(nodes) ==
    IF \E i, j \in DOMAIN nodes : i # j /\ nodes[i].id = nodes[j].id THEN "duplicate"
    ELSE IF \E i \in DOMAIN nodes : nodes[i].parent \notin Ids(nodes) \cup {"none"}
    THEN "unknown-parent"
    ELSE IF \E i, j \in DOMAIN nodes :
                i # j /\ nodes[i].parent = nodes[j].parent /\ nodes[i].slug = nodes[j].slug
    THEN "sibling-slugs"
    ELSE "ok"

\* The node so many steps above another; above the topmost is the topmost.
Above(nodes, node) ==
    LET up[k \in 0..Len(nodes)] ==
            IF k = 0 THEN node
            ELSE IF up[k - 1].parent = "none" THEN up[k - 1]
            ELSE NodeOf(nodes, up[k - 1].parent)
    IN  up

\* Variant: a node is written when it is met.
WhenMet(nodes, out, node) == Append(out, node)

\* visit: a node after what it stands under, topmost first, each once; no node
\* of those that have no topmost.
Visit(nodes, out, node) ==
    LET last == Len(nodes)
        up == Above(nodes, node)
        visited[k \in 0..last + 1] ==
            IF k = 0 THEN out
            ELSE IF up[last + 1 - k] \in Range(visited[k - 1]) THEN visited[k - 1]
            ELSE Append(visited[k - 1], up[last + 1 - k])
    IN  IF up[last].parent = "none" THEN visited[last + 1] ELSE out

\* topological: each node after those it stands under, else as listed.
Topological(nodes) ==
    LET out[i \in 0..Len(nodes)] == IF i = 0 THEN <<>> ELSE Visit(nodes, out[i - 1], nodes[i])
    IN  out[Len(nodes)]

\* manifestNode: an empty list is no list for what a document cites and who
\* verified it, and stays one for its audience.
OrNullIfEmpty(list) == IF list = {} THEN NoList ELSE list
Normal(node) == [node EXCEPT !.sources = OrNullIfEmpty(@), !.verified = OrNullIfEmpty(@)]

\* What a field is read as when it is not there.
Absent(f) == IF f = "parent" THEN "none" ELSE IF f = "keywords" THEN {} ELSE NoList
Optional == {"parent", "audience", "sources", "verified", "keywords"}

\* nodeToJson and governanceToJson: the fields that say something, and three always.
ToJson(node) ==
    [f \in {"id", "slug", "position"} \cup {o \in Optional : node[o] # Absent(o)} |-> node[f]]

\* parseManifest.
FromJson(json) ==
    Normal([f \in {"id", "slug", "position"} \cup Optional |->
               IF f \in DOMAIN json THEN json[f] ELSE Absent(f)])

-----------------------------------------------------------------------------
Unwritten == [verdict |-> "none", order |-> <<>>]

PassagesInit ==
    /\ \/ body \in Bodies /\ corpus = <<>>
       \/ body = <<>> /\ corpus \in Corpora
    /\ passages = <<>> /\ inserted = Unwritten

\* A file's body, cleaned and cut (buildStructure).
Chunk ==
    /\ body # <<>> /\ passages = <<>>
    /\ passages' = ChunkText(CleanBody(body))
    /\ UNCHANGED <<body, corpus, inserted>>

Ordered(nodes) ==
    LET order == Topological(nodes)
        verdict == IF Validate(nodes) = "ok" /\ Len(order) < Len(nodes) THEN "cycle"
                   ELSE Validate(nodes)
    IN  [verdict |-> verdict, order |-> IF verdict = "ok" THEN order ELSE <<>>]

\* A manifest that went through JSON, validated and put in order.
Order ==
    /\ corpus # <<>> /\ inserted = Unwritten
    /\ inserted' = Ordered([i \in 1..Len(corpus) |-> FromJson(ToJson(Normal(corpus[i])))])
    /\ UNCHANGED <<body, corpus, passages>>

PassagesNext == Chunk \/ Order

PassagesSpec == PassagesInit /\ [][PassagesNext]_passagesVars

-----------------------------------------------------------------------------
Contents == FlattenSeq([k \in 1..Len(passages) |-> passages[k].content])

\* The headings a line stands under, read off the text: of each level the last
\* one before it, unless a heading above its level came in between.
TitlesAt(text, n) ==
    LET headings == {i \in 1..n : IsHeading(text, i)}
        In(l) == {i \in headings : text[i].level = l /\ \A j \in headings : j > i => text[j].level > l}
    IN  [l \in 1..4 |-> IF In(l) = {} THEN "" ELSE text[CHOOSE i \in In(l) : TRUE].title]
PathAt(text, n) == HeadingPath(TitlesAt(text, n))

\* The lines of a text that are inside code.
InCode(text, n) == Fences(text)[n - 1] # NoFence
Code(text) == {<<n, text[n]>> : n \in {i \in 1..Len(text) : InCode(text, i)}}

\* The places of a passage without the blank lines that the first one begins
\* with, and the lines they are of.
Own(text, k) ==
    {p \in DOMAIN passages[k].content :
        k > 1 \/ \E m \in 1..passages[k].content[p] : ~IsGap(text, m)}
OwnLines(text, k) == {passages[k].content[p] : p \in Own(text, k)}

\* A passage stands under the headings its lines stand under.
Headed(text, k) == \A n \in OwnLines(text, k) : IsGap(text, n) \/ passages[k].path = PathAt(text, n)

\* It begins inside code only where a piece was past the ceiling.
BeginsWhole(text, k) ==
    InCode(text, passages[k].content[1]) => k > 1 /\ Len(passages[k - 1].content) >= HardMax

\* It is longer than the budget only for a paragraph, or for code with a gap in it.
Fits(text, k) ==
    Cardinality(Own(text, k)) > MaxChars =>
        \/ \E n \in OwnLines(text, k) : IsGap(text, n) /\ InCode(text, n)
        \/ \A n, m \in OwnLines(text, k) : IsGap(text, n) = IsGap(text, m)

\* The passages of a document are its cleaned text, every code point of it once
\* and in order, cut at headings and at gaps; and what was code is cleaned of
\* nothing (chunking.ts: concatenation is lossless, fences are never cut,
\* presentation is stripped of prose alone).
TextIsKept ==
    LET text == CleanBody(body)
    IN  passages # <<>> =>
          /\ Contents = Points(text, AllLines(text))
          /\ Code(text) = Code(StripStyleBlocks(body))
          /\ \A k \in DOMAIN passages : Headed(text, k) /\ BeginsWhole(text, k) /\ Fits(text, k)

\* What a manifest's nodes are written as: each as it was meant, once, after the
\* node it stands under; and nothing is written of a manifest with a cycle
\* (manifest.ts:topological, build.ts inserting a child by its parent's row).
RowsInOrder ==
    LET order == inserted.order
    IN  /\ inserted.verdict = "ok" =>
             /\ Len(order) = Len(corpus)
             /\ {order[i] : i \in DOMAIN order} = {Normal(corpus[i]) : i \in DOMAIN corpus}
             /\ \A i \in DOMAIN order :
                  order[i].parent # "none" => \E j \in 1..i - 1 : order[j].id = order[i].parent
        /\ inserted.verdict = "cycle" => \E S \in (SUBSET Ids(corpus)) \ {{}} :
             \A id \in S : NodeOf(corpus, id).parent \in S

\* What an ingest writes of a corpus is the corpus: every document's text in its
\* passages, and every node in its place.
CorpusIsWritten == TextIsKept /\ RowsInOrder
=============================================================================
