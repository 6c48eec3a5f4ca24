---------------------------- MODULE MCIndexSync ----------------------------
(* Small instances of IndexSync and DocumentChunks for TLC. *)
EXTENDS DocumentChunks

CONSTANTS f1, f2, v1, v2, l1, l2

(* Texts. *)
MCText(say, len, words, shape, stop) ==
  [say |-> say, key |-> say, len |-> len, words |-> words, shape |-> shape, stop |-> stop, numbered |-> FALSE,
   toc |-> FALSE, index |-> FALSE, cites |-> 0, signals |-> 0, wine |-> FALSE]
Named(say)  == MCText(say, 12, 2, "plain", FALSE)
Entry(say)  == MCText(say, 9, 1, "upper", FALSE)
Prose(say, len) == MCText(say, len, len \div 6, "plain", TRUE)
Masked(x, key)  == [x EXCEPT !.key = key]
Flowing == [Prose("flowing", 130) EXCEPT !.stop = FALSE]
Ending  == Prose("ending", 120)
Tasted  == [Prose("tasted", 60) EXCEPT !.wine = TRUE]
Guide   == Named("guide")
TocEntry   == [MCText("chapter 1 .... 3", 40, 4, "plain", FALSE) EXCEPT !.toc = TRUE]
IndexEntry == [MCText("barolo, 12", 10, 2, "plain", FALSE) EXCEPT !.index = TRUE]
Citing  == [Prose("citing", 240) EXCEPT !.cites = 3]
Form    == [MCText("comments:", 30, 4, "plain", FALSE) EXCEPT !.signals = 2]
Listed  == MCText("item", 70, 11, "item", FALSE)
Row     == MCText("row", 80, 12, "row", FALSE)
Scale   == MCText("0 5 10", 6, 3, "noise", FALSE)

(* Pages: lines of eight units, one below the other, on either side. *)
Put(side, top, font, bold, x) ==
  [side |-> side, top |-> top, bottom |-> top + 7, font |-> font, bold |-> bold, text |-> x]
Down8(side, top, xs) == [i \in DOMAIN xs |-> Put(side, top + 8 * (i - 1), 10, FALSE, xs[i])]
Page(mode, lines) == [mode |-> mode, lines |-> lines]
Numbered(n, lines) ==
  <<Put("left", 1, 10, FALSE, Named("running head"))>> \o lines
  \o <<Put("left", 90, 10, FALSE, Masked(Named(n), "page #"))>>
Chapter(n) == Put("left", 10, 20, TRUE, Masked(Named(n), "chapter #"))
MCPages == {
  Page("single_column", Numbered("page 1", <<Put("left", 10, 20, FALSE, Guide)>>
    \o Down8("left", 20, <<Flowing, Ending, Tasted>>))),
  Page("single_column", Numbered("page 2", <<Chapter("chapter 1")>>
    \o Down8("left", 20, <<Flowing, Flowing, Ending, Listed, Scale>>)
    \o <<Put("left", 60, 10, TRUE, Named("region"))>> \o Down8("left", 68, <<Ending, Ending>>))),
  Page("single_column", <<Chapter("chapter 2")>>
    \o Down8("left", 20, <<Flowing, Flowing, Flowing, Ending, Flowing, Flowing, Flowing, Flowing, Ending>>)),
  Page("two_column", <<Put("full", 8, 14, FALSE, Named("piedmont")), Put("left", 15, 10, FALSE, Tasted),
                       Put("left", 16, 10, FALSE, Flowing), Put("right", 16, 10, FALSE, Ending),
                       Put("left", 24, 10, FALSE, Ending), Put("right", 24, 10, FALSE, Row),
                       Put("full", 40, 10, FALSE, Ending), Put("left", 48, 10, FALSE, Ending),
                       Put("right", 50, 10, FALSE, Flowing), Put("right", 58, 10, FALSE, Ending)>>),
  Page("ambiguous_two_column", <<Put("left", 20, 10, FALSE, Flowing), Put("right", 20, 10, FALSE, Ending),
                                 Put("left", 28, 10, FALSE, Ending)>>),
  Page("single_column", <<Put("left", 10, 14, FALSE, Named("contents"))>>
    \o Down8("left", 20, <<TocEntry, TocEntry, Ending>>)),
  Page("single_column", Down8("left", 20, <<IndexEntry, IndexEntry>>) \o Down8("left", 50, <<Ending, Ending>>)),
  Page("single_column", <<Put("left", 10, 13, FALSE, Entry("NOTES"))>> \o Down8("left", 20, <<Citing, Ending, Form>>))}
Pdf(title, pages) ==
  [kind |-> "pdf", file |-> Named("file"), title |-> title, pages |-> pages, items |-> <<>>, targets |-> {}]
Pdfs == {Pdf(title, pages) : title \in {Null, Guide}, pages \in [1..2 -> MCPages]}
        \cup {Pdf(Null, pages) : pages \in [1..3 -> {p \in MCPages : Len(p.lines) > 5}]}

(* Books of one or two spine items. *)
Node(tag, texts) ==
  [tag |-> tag, texts |-> texts, anchors |-> {}, entryClass |-> FALSE, nested |-> FALSE]
Anchored(n, a) == [n EXCEPT !.anchors = {a}]
MCHeadings == {
  Node("h1", <<Guide>>), Node("h1", <<Named("part")>>), Anchored(Node("h1", <<Named("nebbiolo")>>), "n"),
  Node("h2", <<Named("styles")>>), Node("h3", <<Named("acid")>>), Node("h3", <<Entry("BARBERA")>>),
  [Node("h2", <<Entry("DOLCETTO")>>) EXCEPT !.entryClass = TRUE], Node("h2", <<Named("contents")>>)}
Epub(title, items, targets) ==
  [kind |-> "epub", file |-> Named("file"), title |-> title, pages |-> <<>>, items |-> items, targets |-> targets]
Item(name, nodes) == [name |-> name, nodes |-> nodes]
UnderEach(headings) ==
  FlattenSeq([i \in DOMAIN headings |-> <<headings[i], Node("p", <<Prose("under", 240 + i)>>)>>])
HeadedBooks ==
  {Epub(title, <<Item("a", UnderEach(headings)), Item("b", UnderEach(<<headings[1]>>))>>,
        {<<"a", "n">>, <<"b", Null>>}) : title \in {Null, Guide}, headings \in [1..3 -> MCHeadings]}
  \cup {Epub(Guide, <<Item("a", UnderEach(headings))>>, {}) : headings \in [1..2 -> MCHeadings]}
Blocks == {
  Node("p", <<Prose("short", 120)>>), Node("p", <<Prose("third", 250)>>), Node("p", <<Prose("half", 500)>>),
  Node("p", <<Prose("one", 700), [Prose("two", 600) EXCEPT !.stop = FALSE], Prose("three", 500)>>),
  Node("li", <<Listed>>), [Node("p", <<Listed>>) EXCEPT !.nested = TRUE], Node("table", <<Prose("wide", 900)>>),
  Node("h2", <<Named("styles")>>)}
PackedBooks == {Epub(Guide, <<Item("a", nodes)>>, {}) : nodes \in [1..3 -> Blocks]}
MCBooks == Pdfs \cup HeadedBooks \cup PackedBooks

(* Two documents share a text, and an edit drops one of two texts. *)
Lessons(xs) == Epub(Guide, <<Item("a", [i \in DOMAIN xs |-> Node("p", <<Prose(xs[i], 900)>>)])>>, {})
MCBook  == [f \in Files |-> [v \in Versions |->
             Lessons(IF f = f2 THEN <<"a">> ELSE IF v = v1 THEN <<"a", "b">> ELSE <<"b">>)]]
TextsIn == [f \in Files |-> [v \in Versions |->
             {c.units[1].texts[1].say : c \in ToSet(Indexed(Candidates(Extracted(MCBook[f][v]))))}]]
MCTexts(f, v) == TextsIn[f][v]

MCSymmetry == Permutations(Loaders)
=============================================================================
