--------------------------- MODULE DocumentChunks ---------------------------
(***************************************************************************)
(* From the elements of a document to the chunks that are indexed: grouped *)
(* by section, packed up to a size with whole blocks as overlap, kept or   *)
(* dropped by length, role and quality.  Each text `Texts` gives a         *)
(* document in IndexSync is one of these chunks.                           *)
(***************************************************************************)
EXTENDS DocumentElements

CONSTANTS
  ChunkSize, ChunkOverlap, MinChars,   \* characters, of `chroma.chunking`
  MinScore,                            \* tenths, of the quality filter
  Books                                \* documents to speak about

ASSUME ChunkingAssumption ==
  ChunkSize \in Nat \ {0} /\ ChunkOverlap \in 0..(ChunkSize - 1) /\ MinChars \in Nat

Content(e) == e.type \in {"paragraph", "list_item", "table", "unknown"}

\* Mutant: the section of an element does not count.
KeyWithoutSection(e) == <<e.title, e.chapter, e.entry, e.role, e.column>>

(* Rejected content ends a group, headings and footers do not. *)
GroupKey(e) == <<e.title, e.chapter, e.section, e.entry, e.role, e.column>>
GroupElements(elements) ==
  LET Step(acc, e) ==
        IF ~Content(e) THEN acc
        ELSE IF e.role \in RejectedRoles THEN [acc EXCEPT !.key = Null]
        ELSE [key |-> GroupKey(e), groups |->
                IF acc.key = GroupKey(e)
                THEN Append(Front(acc.groups), Append(Last(acc.groups), e))
                ELSE Append(acc.groups, <<e>>)]
  IN  FoldLeft(Step, [key |-> Null, groups |-> <<>>], elements).groups

(* A block is a unit unless it is too long: then its sentences are, and of  *)
(* a sentence that is too long as many of its texts as fit.                 *)
SplitAfter(e, Ends(_, _)) ==
  LET Step(acc, i) ==
        IF acc = <<>> \/ Ends(Last(acc), i) THEN Append(acc, <<i>>)
        ELSE Append(Front(acc), Append(Last(acc), i))
      Piece(is) == [e EXCEPT !.texts = Of(is, LAMBDA i : e.texts[i]), !.at = Of(is, LAMBDA i : e.at[i])]
  IN  Of(FoldLeft(Step, <<>>, [i \in DOMAIN e.texts |-> i]), Piece)
ElementUnits(e) ==
  LET Sentence(is, i) == e.texts[Last(is)].stop
      sentences == SplitAfter(e, Sentence)
      Fill(s) == SplitAfter(s, LAMBDA is, i :
                   Joined(Of(Append(is, i), LAMBDA j : s.texts[j]), 1) > ChunkSize)
  IN  IF Joined(e.texts, 1) <= ChunkSize THEN <<e>>
      ELSE FlattenSeq(Of(sentences, LAMBDA s : IF Joined(s.texts, 1) <= ChunkSize THEN <<s>> ELSE Fill(s)))

JoinedLength(units) == Joined(Of(units, LAMBDA u : [len |-> Joined(u.texts, 1)]), 2)

(* What a chunk takes over from the one before: the most trailing units     *)
(* that keep within the overlap and leave room for the next unit.           *)
TrailingCompleteUnits(units, next) ==
  LET Suffix(k) == SubSeq(units, Len(units) - k + 1, Len(units))
  IN  Suffix(Max({k \in 0..Len(units) :
        JoinedLength(Suffix(k)) <= ChunkOverlap /\ JoinedLength(Append(Suffix(k), next)) <= ChunkSize}
        \cup {0}))
PackGroupElements(group) ==
  LET Step(acc, u) ==
        IF acc = <<>> THEN <<<<u>>>>
        ELSE IF JoinedLength(Append(Last(acc), u)) <= ChunkSize
        THEN Append(Front(acc), Append(Last(acc), u))
        ELSE Append(acc, Append(TrailingCompleteUnits(Last(acc), u), u))
  IN  FoldLeft(Step, <<>>, FlattenSeq(Of(group, ElementUnits)))

ChunkText(c) == FlattenSeq(Of(c.units, Written))
HeadingPath(c) == {c.units[1].title, c.units[1].chapter, c.units[1].section, c.units[1].entry}
IsHighSignal(units) == \E i \in DOMAIN units : \E j \in DOMAIN units[i].texts : units[i].texts[j].wine

BuildCandidate(units) ==
  LET types == {units[i].type : i \in DOMAIN units}
      c == [units |-> units, role |-> units[1].role,
            pages |-> UNION {units[i].pages : i \in DOMAIN units},
            audit |-> \E i \in DOMAIN units : units[i].audit]
  IN  [c EXCEPT !.role = ClassifyStructuralRole(ChunkText(c), HeadingPath(c), c.role, FALSE,
                           IF Cardinality(types) = 1 THEN CHOOSE t \in types : TRUE ELSE "")]
Candidates(elements) ==
  LET packed == FlattenSeq(Of(GroupElements(elements), PackGroupElements))
  IN  Of(SelectSeq(packed, LAMBDA units : JoinedLength(units) >= MinChars \/ IsHighSignal(units)),
         BuildCandidate)

(* The quality filter, in tenths, and what it rejects whatever the score. *)
Rejects(c) ==
  LET t      == ChunkText(c)
      role   == ClassifyStructuralRole(t, HeadingPath(c), c.role, c.audit, "")
      words  == Words(t)
      brief  == CASE words < 10 -> 6 [] words \in 10..39 -> 3 [] words \in 40..79 -> 1 [] OTHER -> 0
      ragged == IF Len(t) >= 5 /\ Total(Of(t, LAMBDA w : Joined(w, 1))) < 20 * Len(t) THEN 2 ELSE 0
  IN  \/ role \in RejectedRoles \/ c.audit
      \/ role = "unknown" /\ words < 10
      \/ 10 < MinScore + brief + ragged
ValidChunk(c) == JoinedLength(c.units) >= 10 /\ Words(ChunkText(c)) >= 3

(* What is indexed of a document: a text that was kept before is skipped. *)
Indexed(candidates) ==
  FoldLeft(LAMBDA kept, c : IF \/ ~ValidChunk(c) \/ Rejects(c)
                               \/ \E i \in DOMAIN kept : ChunkText(kept[i]) = ChunkText(c)
                            THEN kept ELSE Append(kept, c),
           <<>>, candidates)

-----------------------------------------------------------------------------
(* Columns are read one after the other between two full-width lines and    *)
(* from top to bottom, no line is read twice, and the only lines not read   *)
(* are those whose box touches a full-width line.                           *)
ReadingOrderKept(p) ==
  LET read == ExtractPageLines(p, 1)
      Above(a, b) == a.bottom <= b.top
      SameColumn(a, b) == a.side = b.side \/ "full" \in {a.side, b.side}
  IN  /\ \A i, j \in DOMAIN read : i < j =>
           /\ read[i].at # read[j].at
           /\ ~(Above(read[j], read[i]) /\ (HasColumns(p) => SameColumn(read[i], read[j])))
           /\ HasColumns(p) /\ read[i].side = "right" /\ read[j].side = "left" =>
                \E k \in i..j : read[k].side = "full"
      /\ \A i \in DOMAIN p.lines :
           \/ \E k \in DOMAIN read : read[k].at = <<1, i>>
           \/ HasColumns(p) /\ \E j \in DOMAIN p.lines :
                p.lines[j].side = "full" /\ ~Above(p.lines[i], p.lines[j]) /\ ~Above(p.lines[j], p.lines[i])

(* Every line that is not a repeated margin is in exactly one element.      *)
LinesAccounted(book, elements) ==
  book.kind = "pdf" =>
    FlattenSeq(Of(elements, LAMBDA e : e.at)) = Of(FilteredLines(PdfLines(book)), LAMBDA l : l.at)

(* The chapter of an element is the last heading above it that opens one,   *)
(* its section the last heading, if that stands below the chapter's, and    *)
(* its entry the last one, unless a chapter of the first level followed.    *)
(* The title's own heading and its repetitions count for nothing.           *)
HeadingsTell(book, elements) ==
  LET n == Len(elements)
      IsHeading(i) == elements[i].level > 0
      First(i) == IsHeading(i) /\ elements[i].level = 1
      titled == IF book.title # Null \/ ~\E i \in 1..n : First(i) THEN 0 ELSE Min({i \in 1..n : First(i)})
      title  == IF book.title # Null THEN book.title ELSE IF titled = 0 THEN Null ELSE elements[titled].texts[1]
      Repeats(i) == title # Null /\ i >= titled /\ elements[i].texts[1].key = title.key
                    /\ (book.kind = "pdf" => First(i))
      Real(i) == IsHeading(i) /\ ~Repeats(i)
      Opens(i) == elements[i].boundary \/ First(i)
      InEntry(i) == \E k \in 1..(i - 1) : /\ Real(k) /\ elements[k].boundary
                                          /\ \A j \in (k + 1)..(i - 1) : Real(j) /\ Opens(j) => elements[j].boundary
      Chapter(i) == Real(i) /\ (Opens(i) \/ (elements[i].level = 2 /\ ~InEntry(i)))
      LastOf(is) == IF is = {} THEN Null ELSE elements[Max(is)].texts[1]
  IN  \A i \in 1..n :
        LET chapters == {k \in 1..i : Chapter(k)}
            entries  == {k \in 1..i : Real(k) /\ Opens(k)}
        IN  /\ elements[i].chapter = LastOf(chapters)
            /\ elements[i].section = LastOf({k \in 1..i : Real(k) /\ \A c \in chapters : c < k})
            /\ elements[i].entry = IF entries # {} /\ elements[Max(entries)].boundary
                                   THEN LastOf(entries) ELSE Null

Parts(c) == FlattenSeq(Of(c.units, LAMBDA u : u.at))

(* A chunk is within its size and its pages, and a run of the document: no  *)
(* heading that changes anything and no content is left out in between.     *)
ChunkIsARun(c, elements) ==
  LET Has(e) == ToSet(e.at) \cap ToSet(Parts(c)) # {}
      inside == {i \in DOMAIN elements : Has(elements[i])}
  IN  /\ JoinedLength(c.units) <= ChunkSize
      /\ \A i \in Min(inside)..Max(inside) :
           /\ Content(elements[i]) => i \in inside
           /\ GroupKey(c.units[1]) = [GroupKey(elements[i]) EXCEPT
                ![5] = c.units[1].role, ![6] = IF Content(elements[i]) THEN @ ELSE c.units[1].column]
      /\ \A i \in inside : elements[i].role \notin RejectedRoles /\ elements[i].pages \subseteq c.pages

(* Two chunks share text only where the earlier ends and the later begins,  *)
(* and no more of it than the overlap.                                      *)
OverlapIsBounded(a, b) ==
  LET shared == {i \in DOMAIN b.units : b.units[i] \in ToSet(a.units)}
  IN  shared # {} =>
        /\ shared = 1..Max(shared)
        /\ IsSuffix(SubSeq(b.units, 1, Max(shared)), a.units)
        /\ JoinedLength(SubSeq(b.units, 1, Max(shared))) <= ChunkOverlap

Structural(x) == x # Null /\ \E role \in DOMAIN HeadingsOf : x.say \in HeadingsOf[role]
NoiseStaysOut(c) ==
  /\ ~c.audit /\ c.role \notin RejectedRoles
  /\ \A x \in HeadingPath(c) : ~Structural(x)

(* In a document of plain text every block that is neither too short nor    *)
(* too long for a chunk is indexed whole.                                   *)
PlainText(elements) ==
  \A i \in DOMAIN elements : LET e == elements[i] IN
    /\ ~e.audit /\ \A x \in {e.title, e.chapter, e.section} : ~Structural(x)
    /\ \A j \in DOMAIN e.texts : LET x == e.texts[j] IN ~x.toc /\ ~x.index /\ x.cites = 0 /\ x.signals = 0
PlainTextIsKept(elements, indexed) ==
  PlainText(elements) => \A i \in DOMAIN elements :
    Content(elements[i]) /\ Joined(elements[i].texts, 1) \in MinChars..ChunkSize =>
      \E k \in DOMAIN indexed : \E u \in ToSet(indexed[k].units) : u.texts = elements[i].texts

(* What becomes of a document on its way into the index. *)
Processed(book) ==
  LET elements   == Extracted(book)
      candidates == Candidates(elements)
  IN  [book |-> book, elements |-> elements, candidates |-> candidates, indexed |-> Indexed(candidates)]
BookHolds(p) ==
  /\ p.book.kind = "pdf" => \A n \in DOMAIN p.book.pages : ReadingOrderKept(p.book.pages[n])
  /\ LinesAccounted(p.book, p.elements) /\ HeadingsTell(p.book, p.elements)
  /\ \A i \in DOMAIN p.candidates : ChunkIsARun(p.candidates[i], p.elements)
  /\ \A i, j \in DOMAIN p.candidates : i < j => OverlapIsBounded(p.candidates[i], p.candidates[j])
  /\ \A i \in DOMAIN p.indexed : NoiseStaysOut(p.indexed[i])
  /\ PlainTextIsKept(p.elements, p.indexed)
BooksHold == \A p \in {Processed(book) : book \in Books} : BookHolds(p)

(* While a document is processed: reading order, headings, chunks and what   *)
(* is kept of every document are as stated above.                            *)
ChunksTellTheBook == (\E l \in Loaders : run[l].file # Null) => BooksHold
=============================================================================
