-------------------------- MODULE DocumentElements --------------------------
(***************************************************************************)
(* Extraction: the lines of a PDF page or the nodes of an EPUB, in reading *)
(* order, become elements with their headings and structural role.         *)
(*                                                                         *)
(* A text is what the rules see of it: its length and words, whether it    *)
(* ends a sentence, its shape (list item, table row, capitals, noise), the *)
(* structure it resembles (a line of a table of contents or of an index,   *)
(* citations, signals of a form) and whether it names a grape, a producer, *)
(* an appellation or a class.  `key` is the text with its digits masked.   *)
(* Placeholders of OCR are left out.  The layout of a page is given, and   *)
(* its lines are in the order of their position.                           *)
(***************************************************************************)
EXTENDS IndexSync, Sequences, SequencesExt

CONSTANTS Height, StripHeaders, StripFooters

Of(s, F(_)) == [i \in DOMAIN s |-> F(s[i])]
Total(s)    == FoldLeft(LAMBDA a, b : a + b, 0, s)
Joined(texts, gap) ==      \* characters of texts joined by a gap
  IF texts = <<>> THEN 0
  ELSE Total([i \in DOMAIN texts |-> texts[i].len]) + gap * (Len(texts) - 1)
LastOr(s, none) == IF s = <<>> THEN none ELSE Last(s)

-----------------------------------------------------------------------------
(* Structural roles.  A text is a sequence of written lines, each of which  *)
(* is a sequence of source texts.                                           *)
RejectedRoles == {"toc", "bibliography", "index", "worksheet"}
HeadingsOf ==
  [toc |-> {"table of contents", "contents"},
   bibliography |-> {"bibliography", "bibliographies", "references", "notes", "endnotes", "works cited"},
   index |-> {"general index", "subject index", "index"}]
Reach == 80         \* how far into a written line the patterns look

TocLine(w)   == Last(w).toc /\ Joined(Front(w), 1) <= Reach
IndexLine(w) == Last(w).index /\ Joined(w, 1) <= Reach + 5 /\ \A i \in DOMAIN w : ~w[i].stop
Lines(t, P(_)) == Cardinality({i \in DOMAIN t : P(t[i])})
Words(t) == Total(Of(FlattenSeq(t), LAMBDA x : x.words))

LooksLikeList(t) ==
  /\ Len(t) >= 5
  /\ 10 * Lines(t, LAMBDA w : Words(<<w>>) <= 12) >= 7 * Len(t)
  /\ 10 * Lines(t, LAMBDA w : Last(w).stop) < 3 * Len(t)
LooksLikeProse(t) ==
  \/ \E i \in DOMAIN t : Last(t[i]).stop
  \/ Total(Of(t, LAMBDA w : Joined(w, 1))) >= 60 * Len(t)

ClassifyStructuralRole(t, context, declared, audit, type) ==
  LET texts    == FlattenSeq(t)
      cites    == Total(Of(texts, LAMBDA x : x.cites))
      numbered == Lines(t, LAMBDA w : Head(w).numbered)
      Under(role) == \E c \in context : c # Null /\ c.say \in HeadingsOf[role]
  IN  IF declared \in RejectedRoles THEN declared
      ELSE IF audit THEN "unknown"
      ELSE IF Total(Of(texts, LAMBDA x : x.signals)) >= 2 THEN "worksheet"
      ELSE IF Under("toc") \/ 10 * Lines(t, TocLine) > 3 * Len(t) THEN "toc"
      ELSE IF \/ Under("bibliography")
              \/ cites > 0 /\ cites + numbered >= 3 /\ 10 * (cites + numbered) > Len(t)
           THEN "bibliography"
      ELSE IF Under("index") \/ 100 * Lines(t, IndexLine) > 45 * Len(t) THEN "index"
      ELSE IF declared # "unknown" THEN declared
      ELSE IF type = "table" THEN "table"
      ELSE IF type = "list_item" \/ LooksLikeList(t) THEN "wine_list"
      ELSE IF LooksLikeProse(t) THEN "prose"
      ELSE "unknown"

(* The written lines of an element: lines of a paragraph flow together. *)
Written(e) ==
  IF e.type \in {"list_item", "table", "unknown"} THEN [i \in DOMAIN e.texts |-> <<e.texts[i]>>]
  ELSE <<e.texts>>
WithRole(e) ==
  [e EXCEPT !.role = ClassifyStructuralRole(Written(e), {e.chapter, e.section}, "unknown", FALSE, e.type)]

-----------------------------------------------------------------------------
(* Reading order of a PDF page: between two full-width lines the left       *)
(* column, then the right one.  What overlaps a full-width line is dropped  *)
(* from the columns.                                                        *)
HasColumns(p) == p.mode \in {"two_column", "ambiguous_two_column"}
Audited(p)    == p.mode \in {"ambiguous_two_column", "invalid_geometry"}
Side(p, side) == SelectSeq(p.lines, LAMBDA l : l.side = side)
OverlapsAny(l, fulls) == \E i \in DOMAIN fulls : l.top < fulls[i].bottom /\ l.bottom > fulls[i].top

OrderColumnRegions(p) ==
  LET full == Side(p, "full")
      Column(side, from, to) ==     \* of a region; centers are doubled
        SelectSeq(Side(p, side), LAMBDA l : /\ ~OverlapsAny(l, full)
                                            /\ from <= l.top + l.bottom /\ l.top + l.bottom < to)
      Put(l, c) == [l EXCEPT !.column = c]
      Region(from, to) == Of(Column("left", from, to), LAMBDA l : Put(l, 0))
                          \o Of(Column("right", from, to), LAMBDA l : Put(l, 1))
      Through(acc, l) == [order |-> acc.order \o Region(acc.top, 2 * l.top) \o <<Put(l, 2)>>,
                          top |-> 2 * l.bottom]
      above == FoldLeft(Through, [order |-> <<>>, top |-> 0], full)
  IN  above.order \o Region(above.top, 2 * Height + 1)

StructuralPosition(l) ==
  IF 20 * l.top <= Height THEN "header"
  ELSE IF 20 * l.bottom >= 19 * Height THEN "footer" ELSE "body"

StartsNewBlock(a, b) ==
  \/ a.column # b.column \/ StructuralPosition(a) # StructuralPosition(b) \/ b.top < a.top
  \/ 4 * (b.top - a.bottom) > Max({24, 3 * a.font, 3 * b.font})
  \/ a.bold # b.bold
AssignBlockIds(lines) ==
  LET block[i \in DOMAIN lines] ==
        IF i = 1 THEN 0
        ELSE block[i - 1] + IF StartsNewBlock(lines[i - 1], lines[i]) THEN 1 ELSE 0
  IN  [i \in DOMAIN lines |-> [lines[i] EXCEPT !.block = block[i]]]

ExtractPageLines(p, number) ==
  LET placed == [p EXCEPT !.lines =
        [i \in DOMAIN p.lines |-> p.lines[i] @@ [at |-> <<number, i>>, page |-> number, block |-> 0,
                                                 column |-> 0, audit |-> Audited(p)]]]
  IN  AssignBlockIds(IF HasColumns(p) THEN OrderColumnRegions(placed) ELSE placed.lines)
PdfLines(book) == FlattenSeq([n \in DOMAIN book.pages |-> ExtractPageLines(book.pages[n], n)])

RepeatedMarginKeys(lines, position) ==
  LET pages == {lines[i].page : i \in DOMAIN lines}
      On(key) == {lines[i].page : i \in {j \in DOMAIN lines :
                    StructuralPosition(lines[j]) = position /\ lines[j].text.key = key}}
  IN  {key \in {lines[i].text.key : i \in DOMAIN lines} :
         Cardinality(On(key)) >= 2 /\ 2 * Cardinality(On(key)) >= Cardinality(pages)}
FilteredLines(lines) ==
  LET headers == IF StripHeaders THEN RepeatedMarginKeys(lines, "header") ELSE {}
      footers == IF StripFooters THEN RepeatedMarginKeys(lines, "footer") ELSE {}
  IN  SelectSeq(lines, LAMBDA l :
        /\ ~(StructuralPosition(l) = "header" /\ l.text.key \in headers)
        /\ ~(StructuralPosition(l) = "footer" /\ l.text.key \in footers))

(* Twice the median font of the body, every character counted. *)
BodyFontSize(lines) ==
  LET body == SelectSeq(lines, LAMBDA l : StructuralPosition(l) = "body")
      Chars(fonts) == Total(Of(SelectSeq(body, LAMBDA l : l.font \in fonts), LAMBDA l : l.text.len))
      fonts == {body[i].font : i \in DOMAIN body}
      all   == Chars(fonts)
      Ranked(k) == Min({f \in fonts : Chars({g \in fonts : g <= f}) >= k})
  IN  IF body = <<>> THEN 0 ELSE Ranked((all + 1) \div 2) + Ranked(all \div 2 + 1)

InferHeadingLevel(l, body) ==      \* 0: no heading
  LET x == l.text
      AtLeast(percent) == body > 0 /\ 200 * l.font >= percent * body
  IN  IF StructuralPosition(l) # "body" \/ x.words > 15 \/ x.len > 140 \/ x.stop \/ x.shape = "noise" THEN 0
      ELSE IF AtLeast(160) THEN 1
      ELSE IF AtLeast(130) THEN 2
      ELSE IF AtLeast(112) \/ l.bold \/ (x.words <= 10 /\ x.shape = "upper") THEN 3 ELSE 0

InferElementType(l, level) ==
  CASE StructuralPosition(l) = "footer" -> "footer"
    [] StructuralPosition(l) = "header" -> "unknown"
    [] level > 0                        -> "heading"
    [] OTHER -> CASE l.text.shape = "item"  -> "list_item" [] l.text.shape = "row" -> "table"
                  [] l.text.shape = "noise" -> "unknown"   [] OTHER -> "paragraph"

PdfHeading(context, x, level) ==
  CASE level = 1 -> IF context.title = Null THEN [context EXCEPT !.title = x]
                    ELSE IF x.key = context.title.key THEN context
                    ELSE [context EXCEPT !.chapter = x, !.section = Null]
    [] level = 2 -> [context EXCEPT !.chapter = x, !.section = Null]
    [] OTHER     -> [context EXCEPT !.section = x]

BuildDocumentElements(lines, title, body) ==
  LET Element(l, level, c) ==
        [texts |-> <<l.text>>, at |-> <<l.at>>, type |-> InferElementType(l, level), level |-> level,
         title |-> c.title, chapter |-> c.chapter, section |-> c.section, entry |-> Null,
         pages |-> {l.page}, column |-> l.column, audit |-> l.audit, boundary |-> FALSE, role |-> "unknown"]
      Step(acc, l) ==
        LET level == InferHeadingLevel(l, body)
            next  == IF level = 0 THEN acc.context ELSE PdfHeading(acc.context, l.text, level)
            key   == IF level > 0 THEN Null
                     ELSE <<l.page, l.block, l.column, InferElementType(l, level), next>>
        IN  [context |-> next, key |-> key, elements |->
               IF key # Null /\ key = acc.key
               THEN LET e == Last(acc.elements)
                    IN  Append(Front(acc.elements),
                               [e EXCEPT !.texts = Append(@, l.text), !.at = Append(@, l.at)])
               ELSE Append(acc.elements, Element(l, level, next))]
      start == [context |-> [title |-> title, chapter |-> Null, section |-> Null],
                key |-> Null, elements |-> <<>>]
  IN  Of(FoldLeft(Step, start, lines).elements, WithRole)

(* A page that is a form, a table of contents or an index is so throughout. *)
ApplyPageRoles(elements) ==
  LET Content(e) == e.type \notin {"heading", "footer"}
      On(n) == SelectSeq(elements, LAMBDA e : e.pages = {n} /\ Content(e))
      PageRole == [n \in UNION {elements[i].pages : i \in DOMAIN elements} |->
                     IF On(n) = <<>> THEN "unknown"
                     ELSE ClassifyStructuralRole(FlattenSeq(Of(On(n), Written)), {}, "unknown", FALSE, "")]
      Apply(e) == LET role == PageRole[CHOOSE n \in e.pages : TRUE]
                  IN  IF Content(e) /\ role \in {"worksheet", "toc", "index"} THEN [e EXCEPT !.role = role] ELSE e
  IN  Of(elements, Apply)

PdfElements(book) ==
  LET lines == PdfLines(book)
  IN  ApplyPageRoles(BuildDocumentElements(FilteredLines(lines), book.title, BodyFontSize(lines)))

-----------------------------------------------------------------------------
(* An EPUB: documents in the order of the spine, each a sequence of nodes;  *)
(* a paragraph is the texts it may be split into, anything else one text.   *)
Heading(n) == n.tag \in {"h1", "h2", "h3"}
Level(n)   == CASE n.tag = "h1" -> 1 [] n.tag = "h2" -> 2 [] n.tag = "h3" -> 3 [] OTHER -> 0

(* Runs of three capitalised headings of a level are entries of a lexicon. *)
PeerEntries(nodes) ==
  LET hs   == SelectSeq([i \in DOMAIN nodes |-> i], LAMBDA i : Heading(nodes[i]))
      Short(k) == nodes[hs[k]].texts[1].shape = "upper" /\ nodes[hs[k]].texts[1].words <= 4
  IN  {hs[k] : k \in {k \in DOMAIN hs : \E a, b \in DOMAIN hs :
         a <= k /\ k <= b /\ b - a >= 2
         /\ \A j \in a..b : Short(j) /\ nodes[hs[j]].tag = nodes[hs[a]].tag}}

(* What the navigation, the class or the neighbours say of a heading. *)
EntryBoundary(book, item, i) ==
  LET nodes == item.nodes
      first == \A j \in 1..(i - 1) : ~(Heading(nodes[j]) /\ ~nodes[j].nested)
  IN  \/ \E a \in nodes[i].anchors : <<item.name, a>> \in book.targets
      \/ first /\ <<item.name, Null>> \in book.targets
      \/ nodes[i].entryClass \/ i \in PeerEntries(nodes)

EpubHeading(c, x, level, boundary) ==
  CASE level = 1 /\ c.title = Null -> [c EXCEPT !.title = x]
    [] c.title # Null /\ c.title.say = x.say -> c
    [] OTHER ->
         CASE boundary -> [c EXCEPT !.chapter = x, !.section = Null, !.entry = x]
           [] ~boundary /\ level = 1 -> [c EXCEPT !.chapter = x, !.section = Null, !.entry = Null]
           [] ~boundary /\ level = 2 /\ c.entry = Null -> [c EXCEPT !.chapter = x, !.section = Null]
           [] OTHER -> [c EXCEPT !.section = x]

ElementTypeOf(tag) ==
  CASE tag = "li" -> "list_item" [] tag = "table" -> "table" [] tag = "p" -> "paragraph" [] OTHER -> "heading"

EpubElements(book) ==
  LET places == FlattenSeq([s \in DOMAIN book.items |->
                  [i \in DOMAIN book.items[s].nodes |-> <<s, i>>]])
      NodeAt(at) == book.items[at[1]].nodes[at[2]]
      Step(acc, at) ==
        LET n        == NodeAt(at)
            boundary == Heading(n) /\ EntryBoundary(book, book.items[at[1]], at[2])
            c == IF Heading(n) THEN EpubHeading(acc.context, n.texts[1], Level(n), boundary) ELSE acc.context
        IN  [context |-> c, elements |-> Append(acc.elements,
               [texts |-> n.texts, at |-> [k \in DOMAIN n.texts |-> at \o <<k>>],
                type |-> ElementTypeOf(n.tag), level |-> Level(n),
                title |-> c.title, chapter |-> c.chapter, section |-> c.section, entry |-> c.entry,
                pages |-> {}, column |-> Null, audit |-> FALSE, boundary |-> boundary, role |-> "unknown"])]
      start == [context |-> [title |-> book.title, chapter |-> Null, section |-> Null, entry |-> Null],
                elements |-> <<>>]
  IN  Of(FoldLeft(Step, start, SelectSeq(places, LAMBDA at : ~NodeAt(at).nested)).elements, WithRole)

(* A document without a title takes the name of its file. *)
Extracted(book) ==
  Of(IF book.kind = "pdf" THEN PdfElements(book) ELSE EpubElements(book),
     LAMBDA e : IF e.title = Null THEN [e EXCEPT !.title = book.file] ELSE e)
=============================================================================
