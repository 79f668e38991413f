------------------------------ MODULE Sections ------------------------------
(***************************************************************************)
(* split_sections and _heading_label of                                    *)
(* src/backend/ingestion/build_doc_index.py.  The flattened text is a      *)
(* sequence of pieces: its words, except that a word that ends in a marker *)
(* ("16." of "2026-08-16.") is two pieces, the second glued to the first.  *)
(* A bullet is a piece of its own.  A section is an interval of pieces.    *)
(***************************************************************************)
EXTENDS Naturals, Sequences, FiniteSets

CONSTANTS
  Texts,      \* the texts that may be split
  MaxWords    \* _HEADING_LABEL_MAX_WORDS

\* "marker": one or two digits and a full stop, from a word boundary on.
\* "number": what precedes a marker in a longer number, date or amount.
\* "upper": begins with A-Z.  "other": anything else.
Kinds == {"marker", "number", "upper", "other", "bullet"}
Piece == [kind : Kinds, glued : BOOLEAN]

\* A number that no marker is glued to is an "other" piece.
WellFormed(t) ==
  \A i \in 1..Len(t) :
    /\ t[i].glued => i > 1
    /\ t[i].kind = "number" => i < Len(t) /\ t[i + 1] = [kind |-> "marker", glued |-> TRUE]

ASSUME TextsAssumption    == \A t \in Texts : t \in Seq(Piece) /\ WellFormed(t)
ASSUME MaxWordsAssumption == MaxWords \in Nat \ {0}

VARIABLES
  text,       \* the flattened text
  cursor,     \* where the next section starts
  sections,   \* the sections found so far
  pc

vars == <<text, cursor, sections, pc>>

Section == [numbered : BOOLEAN, from : Nat, to : Nat, words : 0..MaxWords]

-----------------------------------------------------------------------------

\* Mutant: the regular expression without its lookahead.
AnyMarker(t) == {i \in 1..Len(t) : t[i].kind = "marker" /\ (i < Len(t) => ~t[i + 1].glued)}

\* Where _HEADING matches: \b\d{1,2}\.\s+(?=[A-Z])
Headings(t) ==
  {i \in 1..Len(t) :
     /\ t[i].kind = "marker"
     /\ i < Len(t)
     /\ ~t[i + 1].glued
     /\ t[i + 1].kind = "upper"}

Least(S) == CHOOSE i \in S : \A j \in S : i <= j

\* Mutant: a section ends before the last piece of the text.
NextHeadingShort(t, i) == Least({j \in Headings(t) : j > i} \cup {Len(t)})

\* matches[i + 1].start(), or len(flattened) after the last match.
NextHeading(t, i) == Least({j \in Headings(t) : j > i} \cup {Len(t) + 1})

\* Where the heading proper of t[from..to] ends: at the first bullet.
HeadingEnd(t, from, to) ==
  Least({j \in from..to : t[j].kind = "bullet"} \cup {to + 1})

\* Mutant: the label is not cut.
LabelAllWords(t, from, to) ==
  Cardinality({j \in (from + 1)..(HeadingEnd(t, from, to) - 1) : ~t[j].glued})

\* _heading_label: how many words after the marker the label takes.
LabelWords(t, from, to) ==
  LET words == Cardinality({j \in (from + 1)..(HeadingEnd(t, from, to) - 1) : ~t[j].glued})
  IN  IF words < MaxWords THEN words ELSE MaxWords

Header(to)            == [numbered |-> FALSE, from |-> 1, to |-> to, words |-> 0]
Numbered(t, from, to) == [numbered |-> TRUE, from |-> from, to |-> to,
                          words |-> LabelWords(t, from, to)]

-----------------------------------------------------------------------------

Init ==
  /\ text \in Texts
  /\ cursor = 1
  /\ sections = <<>>
  /\ pc = "split"

\* `if not flattened: return []`
SplitNothing ==
  /\ pc = "split"
  /\ text = <<>>
  /\ pc' = "done"
  /\ UNCHANGED <<text, cursor, sections>>

\* `if not matches: return [("Header", flattened)]`
SplitUnnumbered ==
  /\ pc = "split"
  /\ text # <<>> /\ Headings(text) = {}
  /\ sections' = <<Header(Len(text))>>
  /\ cursor' = Len(text) + 1
  /\ pc' = "done"
  /\ UNCHANGED text

\* Mutant: text before the first heading is not kept.
SplitWithoutHeader ==
  /\ pc = "split"
  /\ Headings(text) # {}
  /\ cursor' = NextHeading(text, 0)
  /\ pc' = "loop"
  /\ UNCHANGED <<text, sections>>

\* The "Header" chunk, where there is text before the first heading.
SplitHeader ==
  /\ pc = "split"
  /\ Headings(text) # {}
  /\ cursor' = NextHeading(text, 0)
  /\ sections' = IF cursor' = 1 THEN <<>> ELSE <<Header(cursor' - 1)>>
  /\ pc' = "loop"
  /\ UNCHANGED text

\* One round of `for i, match in enumerate(matches)`
SplitSection ==
  /\ pc = "loop"
  /\ cursor' = NextHeading(text, cursor)
  /\ sections' = Append(sections, Numbered(text, cursor, cursor' - 1))
  /\ pc' = IF cursor' > Len(text) THEN "done" ELSE "loop"
  /\ UNCHANGED text

Next == SplitNothing \/ SplitUnnumbered \/ SplitHeader \/ SplitSection

Spec == Init /\ [][Next]_vars

-----------------------------------------------------------------------------
(* Properties *)

TypeOK ==
  /\ text \in Seq(Piece) /\ WellFormed(text)
  /\ cursor \in 1..Len(text) + 1
  /\ sections \in Seq(Section)
  /\ pc \in {"split", "loop", "done"}

\* "the full, exact section text is always preserved": the sections so far
\* are adjacent, none is empty, and together they are the text up to the
\* cursor; in the end, the whole text.
Lossless ==
  LET n == Len(sections) IN
    /\ \A k \in 1..n :
         /\ sections[k].from <= sections[k].to
         /\ sections[k].from = IF k = 1 THEN 1 ELSE sections[k - 1].to + 1
    /\ pc # "split" => cursor = IF n = 0 THEN 1 ELSE sections[n].to + 1
    /\ pc = "done" => cursor = Len(text) + 1

\* Each numbered section starts with a heading and contains no other; only
\* the first section may be unnumbered, and it contains none.
OneHeadingEach ==
  \A k \in 1..Len(sections) :
    LET s == sections[k] IN
      /\ (s.from..s.to) \cap Headings(text) = IF s.numbered THEN {s.from} ELSE {}
      /\ ~s.numbered => k = 1

\* Every numbered section is cited under at least one word of its heading: a
\* bullet right after the marker leaves no label, and makes no heading.
LabelsNonempty ==
  \A k \in 1..Len(sections) : sections[k].numbered => sections[k].words \in 1..MaxWords

\* "1-2 digits, so it can't match inside a larger number": no section begins
\* in the middle of a number.
NumbersStayWhole ==
  \A k \in 1..Len(sections) :
    LET i == sections[k].from IN i > 1 => text[i - 1].kind # "number"
=============================================================================
