----------------------------- MODULE OutputText -----------------------------
(* Selections from a bounded list of output events.                         *)
(*                                                                          *)
(* An event is a piece of text of one stream, with the cursors of its first *)
(* and last character; cursors number the characters of both streams in the *)
(* order in which they were appended.  A text is a sequence of characters.  *)
(* The loops of the code are written as what they keep: a number of leading *)
(* or trailing characters.  Context lines and the lines of the result of a  *)
(* match are layout and left out; the only line break is Newline.           *)
EXTENDS Integers, SequencesExt, FiniteSetsExt

CONSTANT Newline

Streams == {"stdout", "stderr"}
Selection == Streams \union {"both"}

Event(start, stream, text) ==
  [start |-> start, cursor |-> start + Len(text) - 1, stream |-> stream, text |-> text]

Text(es) == FlattenSeq([k \in DOMAIN es |-> es[k].text])
Chars(es) == Len(Text(es))
\* characters before the k-th event
Before(es, k) == Chars(SubSeq(es, 1, k - 1))

\* the items at some places, in order
Picked(s, places) ==
  LET upTo[k \in 0 .. Len(s)] ==
        IF k = 0 THEN << >> ELSE IF k \in places THEN Append(upTo[k - 1], s[k]) ELSE upTo[k - 1]
  IN  upTo[Len(s)]

MatchesStream(e, stream) == stream = "both" \/ e.stream = stream
Eligible(es, stream) == Picked(es, {k \in DOMAIN es : MatchesStream(es[k], stream)})

\* an event cut to its first n characters, or without its first n
Heading(e, n) == [e EXCEPT !.cursor = e.start + n - 1, !.text = SubSeq(@, 1, n)]
Trailing(e, n) == [e EXCEPT !.start = @ + n, !.text = SubSeq(@, n + 1, Len(@))]

\* the events cut to their first n characters: whole events, then a cut one
TakeChars(es, n) ==
  LET taken == {k \in DOMAIN es : Before(es, k) < n}
  IN  [k \in taken |-> Heading(es[k], Min({Len(es[k].text), n - Before(es, k)}))]

\* (mutant: an event that is cut keeps its first cursor)
DropCharsOnly(es, n) ==
  LET gone == {k \in DOMAIN es : Before(es, k + 1) <= n}
      left == SubSeq(es, Cardinality(gone) + 1, Len(es))
      Cut(k) == Max({0, n - Before(es, k + Cardinality(gone))})
  IN  [k \in DOMAIN left |-> [left[k] EXCEPT !.text = SubSeq(@, Cut(k) + 1, Len(@))]]

\* the events without their first n characters: a cut event, then whole ones
DropChars(es, n) ==
  LET gone == {k \in DOMAIN es : Before(es, k + 1) <= n}
      left == SubSeq(es, Cardinality(gone) + 1, Len(es))
  IN  [k \in DOMAIN left |->
         Trailing(left[k], Max({0, n - Before(es, k + Cardinality(gone))}))]

SelectHead(es, stream, limit) == TakeChars(Eligible(es, stream), limit)

\* (mutant: the characters of the other stream are counted)
SelectTailOfAll(es, stream, limit) ==
  DropChars(Eligible(es, stream), Max({0, Chars(es) - limit}))

SelectTail(es, stream, limit) ==
  LET eligible == Eligible(es, stream)
  IN  DropChars(eligible, Max({0, Chars(eligible) - limit}))

LineStarts(text) == {k \in DOMAIN text : k = 1 \/ text[k - 1] = Newline}

\* the last lines; whether there were more is the second component
SelectTailLines(es, stream, limit) ==
  LET eligible == Eligible(es, stream)
      starts   == LineStarts(Text(eligible))
      last     == {k \in starts : Cardinality({j \in starts : j >= k}) <= limit}
  IN  << IF last = {} THEN << >> ELSE DropChars(eligible, Min(last) - 1),
         Cardinality(starts) > limit >>

Occurrences(text, pattern) ==
  {i \in 1 .. Len(text) - Len(pattern) + 1 :
     SubSeq(text, i, i + Len(pattern) - 1) = pattern}

NoMatch == [stream |-> "none", cursor |-> 0]

\* (mutant: the event that straddles the cursor is taken whole)
FromWhole(es, stream, minimum) ==
  Picked(es, {k \in DOMAIN es : es[k].stream = stream /\ es[k].cursor >= minimum})

\* the text of one stream from a cursor on
From(es, stream, minimum) ==
  Picked([k \in DOMAIN es |->
            IF es[k].start < minimum THEN Trailing(es[k], minimum - es[k].start) ELSE es[k]],
         {k \in DOMAIN es : es[k].stream = stream /\ es[k].cursor >= minimum})

\* the cursors of the characters of the events
Cursors(es) ==
  FlattenSeq([k \in DOMAIN es |-> [j \in DOMAIN es[k].text |-> es[k].start + j - 1]])

\* the first occurrence in each stream; the one that ends first is the answer
FindLiteral(es, pattern, stream, minimum) ==
  LET First(s) ==
        LET own   == From(es, s, minimum)
            found == Occurrences(Text(own), pattern)
        IN  {[stream |-> s, cursor |-> Cursors(own)[i + Len(pattern) - 1]] :
               i \in {j \in found : \A k \in found : j <= k}}
      candidates == UNION {First(s) : s \in {r \in Streams : stream \in {r, "both"}}}
  IN  IF candidates = {} THEN NoMatch
      ELSE CHOOSE m \in candidates : \A n \in candidates : m.cursor <= n.cursor
=============================================================================
