------------------------- MODULE ContextCompression -------------------------
(***************************************************************************)
(* What compression leaves of a context that is longer than its limit:     *)
(* sentences that repeat an earlier one go first, then those of the least  *)
(* weight, then what does not fit (query_compression.py).                  *)
(*                                                                         *)
(* A text is its sentences, [words, chars], and the characters between     *)
(* two of them.  Weights are those of TF-IDF, any function of the          *)
(* sentences left; a text that is changed is joined with one space.        *)
(***************************************************************************)
EXTENDS Integers, Sequences, FiniteSets, SequencesExt, FiniteSetsExt

CONSTANTS
  Texts,      \* [sentences, gap]
  Weights,    \* possible weights of a sentence
  Limits,     \* compression_max_chars
  MinLength   \* characters of a sentence that may be kept for its weight

-----------------------------------------------------------------------------
LengthOf(text) ==
  IF text.sentences = <<>> THEN 0
  ELSE FoldLeft(LAMBDA n, s : n + s.chars, 0, text.sentences)
       + text.gap * (Len(text.sentences) - 1)
Joined(sentences) == [sentences |-> sentences, gap |-> 1]

(* Jaccard similarity of at least 0.8 with an earlier sentence that is kept. *)
Repeats(a, b) ==
  /\ a.words # {} /\ b.words # {}
  /\ 10 * Cardinality(a.words \cap b.words) >= 8 * Cardinality(a.words \cup b.words)

RemoveRedundantSentences(text) ==
  LET s == text.sentences
      kept[n \in 0..Len(s)] ==
        IF n = 0 THEN <<>>
        ELSE IF \E t \in ToSet(kept[n - 1]) : Repeats(s[n], t) THEN kept[n - 1]
             ELSE Append(kept[n - 1], s[n])
  IN  IF Len(s) <= 1 THEN text ELSE Joined(kept[Len(s)])

(* The heaviest of the sentences that are not short, in their order; equal   *)
(* sentences stay or go together.                                           *)
ExtractByWeight(text, count, weight) ==                   \* a mutant of the next
  LET long == SelectSeq(text.sentences, LAMBDA s : s.chars >= MinLength)
      order == SetToSortSeq(DOMAIN long, LAMBDA i, j : \/ weight[long[i]] > weight[long[j]]
                                                       \/ weight[long[i]] = weight[long[j]] /\ i < j)
  IN  IF Len(long) <= count THEN text ELSE Joined([i \in 1..count |-> long[order[i]]])
ExtractiveCompress(text, count, weight) ==
  LET long == SelectSeq(text.sentences, LAMBDA s : s.chars >= MinLength)
      order == SetToSortSeq(DOMAIN long, LAMBDA i, j : \/ weight[long[i]] > weight[long[j]]
                                                       \/ weight[long[i]] = weight[long[j]] /\ i < j)
      top == {long[order[i]] : i \in 1..count}
  IN  IF Len(long) <= count THEN text
      ELSE Joined(SelectSeq(text.sentences, LAMBDA s : s \in top))

(* max_chars / (length / sentences) + 2: a few more than fit on average.     *)
Sentences(text, limit) ==
  (limit * Max({1, Len(text.sentences)})) \div LengthOf(text) + 2

TruncateToLimit(text, limit) ==
  LET fits(n) == FoldLeft(LAMBDA k, s : k + s.chars + 1, 0, SubSeq(text.sentences, 1, n)) <= limit
  IN  IF LengthOf(text) <= limit THEN text
      ELSE Joined(SubSeq(text.sentences, 1, Max({n \in 0..Len(text.sentences) : fits(n)})))

Compressed(text, limit, weight) ==
  IF LengthOf(text) <= limit THEN {text}
  ELSE UNION {{TruncateToLimit(extract, limit) :
                 extract \in {IF LengthOf(kept) > limit
                              THEN ExtractiveCompress(kept, Sentences(kept, limit), weight)
                              ELSE kept}} :
              kept \in {RemoveRedundantSentences(text)}}

-----------------------------------------------------------------------------
(* A compressed context fits its limit, reads in the order of the original,  *)
(* says nothing twice that it did not say twice before, and is the original  *)
(* when that fits.                                                           *)
InOrder(s, t) ==
  \E places \in SUBSET DOMAIN t :
    /\ Cardinality(places) = Len(s)
    /\ \A n \in places : s[Cardinality({m \in places : m <= n})] = t[n]

CompressionKeeps(text, limit, weight) ==
  \A r \in Compressed(text, limit, weight) :
    /\ LengthOf(r) <= limit
    /\ InOrder(r.sentences, text.sentences)
    /\ LengthOf(text) <= limit => r = text
    /\ LengthOf(text) > limit =>
         \A i, j \in DOMAIN r.sentences : Repeats(r.sentences[i], r.sentences[j]) => i = j

CompressionHolds ==
  \A text \in Texts, limit \in Limits :
    \A weight \in [ToSet(text.sentences) -> Weights] : CompressionKeeps(text, limit, weight)
=============================================================================
