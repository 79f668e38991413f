--------------------------- MODULE Sections_proofs ---------------------------
(***************************************************************************)
(* Theorems about Sections for texts of any length: no text is lost        *)
(* (SplitLosesNothing), sections start where the headings are              *)
(* (SectionsAreHeadings) and each has a label (LabelsAreNonempty); in the  *)
(* end the sections are a partition of the text (SectionsPartitionTheText) *)
(* and none of its headings is missing (HeadingsOpenSections).             *)
(***************************************************************************)
EXTENDS Sections, FiniteSetTheorems, WellFoundedInduction, TLAPS

\* Least finds the least element of any nonempty set of numbers.
LEMMA LeastExists ==
  ASSUME NEW S \in SUBSET Nat, S # {}
  PROVE  Least(S) \in S /\ \A j \in S : Least(S) <= j
<1> DEFINE R == OpToRel(<, Nat)
<1>1. IsWellFoundedOn(R, Nat)
  BY NatLessThanWellFounded
<1>2. \A i, j \in Nat : i < j => <<i, j>> \in R
  BY DEF OpToRel
<1> HIDE DEF R
<1>3. PICK m \in S : \A k \in S : <<k, m>> \notin R
  BY <1>1, WFMin
<1>4. ASSUME NEW k \in S PROVE m <= k
  <2>1. k \in Nat /\ m \in Nat
    OBVIOUS
  <2>2. ~(k < m)
    BY <1>2, <1>3, <2>1
  <2>3. QED
    BY <2>1, <2>2
<1>5. QED
  BY <1>4 DEF Least

\* The next heading is the next: after i, and none lies between.
LEMMA NextHeadingFacts ==
  ASSUME NEW t \in Seq(Piece), NEW i \in Nat, i <= Len(t)
  PROVE  LET n == NextHeading(t, i) IN
         /\ n \in Nat /\ i < n /\ n <= Len(t) + 1
         /\ n <= Len(t) => n \in Headings(t)
         /\ \A j \in Headings(t) : i < j => n <= j
<1> DEFINE S == {j \in Headings(t) : j > i} \cup {Len(t) + 1}
           n == NextHeading(t, i)
<1>1. S \in SUBSET Nat /\ S # {} /\ \A j \in S : i < j /\ j <= Len(t) + 1
  BY DEF Headings
<1>2. n = Least(S)
  BY DEF NextHeading
<1> HIDE DEF n
<1>3. n \in S /\ \A j \in S : n <= j
  BY <1>1, <1>2, LeastExists
<1>4. Len(t) \in Nat
  OBVIOUS
<1>5. n <= Len(t) => n \in Headings(t)
  BY <1>1, <1>3, <1>4
<1>6. QED
  BY <1>1, <1>3, <1>5 DEF n

\* The word after the marker of a heading belongs to its label.
LEMMA LabelBounds ==
  ASSUME NEW t \in Seq(Piece), NEW from \in 1..Len(t), NEW to \in Nat,
         from <= to, to <= Len(t)
  PROVE  /\ LabelWords(t, from, to) \in 0..MaxWords
         /\ from \in Headings(t) /\ from < to => LabelWords(t, from, to) # 0
<1> DEFINE B == {j \in from..to : t[j].kind = "bullet"} \cup {to + 1}
           b == HeadingEnd(t, from, to)
           W == {j \in (from + 1)..(b - 1) : ~t[j].glued}
<1>1. B \in SUBSET Nat /\ B # {} /\ \A j \in B : from <= j /\ j <= to + 1
  OBVIOUS
<1>2. b = Least(B)
  BY DEF HeadingEnd
<1> HIDE DEF B, b
<1>3. b \in B /\ b \in Nat /\ from <= b /\ b <= to + 1
  BY <1>1, <1>2, LeastExists
<1>4. IsFiniteSet(W) /\ Cardinality(W) \in Nat
  <2>1. IsFiniteSet((from + 1)..(b - 1))
    BY <1>3, FS_Interval
  <2>2. QED
    BY <2>1, FS_Subset, FS_CardinalityType
<1>5. LabelWords(t, from, to) = IF Cardinality(W) < MaxWords THEN Cardinality(W) ELSE MaxWords
  BY DEF LabelWords, b
<1>6. ASSUME from \in Headings(t), from < to PROVE Cardinality(W) # 0
  <2>1. t[from].kind = "marker" /\ ~t[from + 1].glued /\ t[from + 1].kind = "upper"
    BY <1>6 DEF Headings
  <2>2. b # from /\ b # from + 1
    BY <1>3, <1>6, <2>1 DEF B
  <2>3. from + 1 \in W
    BY <1>3, <2>1, <2>2
  <2>4. QED
    BY <1>4, <2>3, FS_EmptySet
<1> HIDE DEF W
<1>7. QED
  BY <1>4, <1>5, <1>6, MaxWordsAssumption

-----------------------------------------------------------------------------

\* Between two rounds the cursor stands on a heading.
AtHeading == pc = "loop" => cursor \in Headings(text)

\* Before the first match is looked at.
Fresh == pc = "split" => cursor = 1 /\ sections = <<>>

IInv == TypeOK /\ Fresh /\ AtHeading /\ Lossless /\ OneHeadingEach /\ LabelsNonempty

\* Nothing is cut yet.
LEMMA InitIInv == Init => IInv
<1> SUFFICES ASSUME Init PROVE IInv
  OBVIOUS
<1>1. TypeOK
  BY TextsAssumption DEF Init, TypeOK
<1>2. QED
  BY <1>1 DEF Init, IInv, Fresh, AtHeading, Lossless, OneHeadingEach, LabelsNonempty

\* The header ends before the first heading.
LEMMA HeaderKeepsIInv ==
  ASSUME IInv, SplitUnnumbered \/ SplitHeader
  PROVE  IInv'
<1> DEFINE c == NextHeading(text, 0)
<1>1. /\ text \in Seq(Piece) /\ WellFormed(text) /\ text' = text /\ Len(text) \in Nat
      /\ sections = <<>>
  BY DEF IInv, TypeOK, Fresh, SplitUnnumbered, SplitHeader
<1>2. c \in Nat /\ 0 < c /\ (\A j \in Headings(text) : 0 < j => c <= j)
      /\ (c <= Len(text) => c \in Headings(text)) /\ c <= Len(text) + 1
  BY <1>1, NextHeadingFacts
<1>3. Headings(text) \subseteq 1..Len(text)
  BY DEF Headings
<1> HIDE DEF c
<1>4. ASSUME NEW n \in Nat, n >= 1, n <= Len(text), Headings(text) \cap (1..n) = {},
             sections' = <<Header(n)>>, cursor' = n + 1,
             (pc' = "done" /\ n = Len(text)) \/ (pc' = "loop" /\ n + 1 \in Headings(text))
      PROVE  IInv'
  <2>1. TypeOK'
    <3>1. Header(n) \in Section
      BY <1>4, MaxWordsAssumption DEF Header, Section
    <3>2. QED
      BY <1>1, <1>4, <3>1 DEF TypeOK
  <2>2. Len(sections') = 1 /\ sections'[1] = Header(n)
    BY <1>4
  <2>3. Fresh' /\ AtHeading'
    BY <1>1, <1>4, <2>2 DEF Fresh, AtHeading, Header
  <2>4. Lossless'
    BY <1>1, <1>4, <2>2 DEF Lossless, Header
  <2>5. OneHeadingEach' /\ LabelsNonempty'
    BY <1>1, <1>4, <2>2 DEF OneHeadingEach, LabelsNonempty, Header
  <2>6. QED
    BY <2>1, <2>3, <2>4, <2>5 DEF IInv
<1>5. CASE SplitUnnumbered
  <2>1. Len(text) >= 1
    BY <1>1, <1>5 DEF SplitUnnumbered
  <2>2. /\ Headings(text) \cap (1..Len(text)) = {}
        /\ sections' = <<Header(Len(text))>> /\ cursor' = Len(text) + 1 /\ pc' = "done"
    BY <1>5 DEF SplitUnnumbered
  <2>3. QED
    BY <1>1, <1>4, <2>1, <2>2
<1>6. CASE SplitHeader
  <2>1. c \in Headings(text) /\ c <= Len(text)
    BY <1>2, <1>3, <1>6, <1>1 DEF SplitHeader
  <2>2. cursor' = c /\ pc' = "loop" /\ sections' = IF c = 1 THEN <<>> ELSE <<Header(c - 1)>>
    BY <1>6 DEF SplitHeader, c
  <2>3. CASE c = 1
    <3>1. sections' = <<>> /\ Len(sections') = 0 /\ cursor' = 1 /\ 1 <= Len(text)
      BY <2>1, <2>2, <2>3
    <3>2. TypeOK'
      BY <1>1, <2>2, <3>1 DEF TypeOK
    <3>3. Fresh' /\ AtHeading' /\ Lossless' /\ OneHeadingEach' /\ LabelsNonempty'
      BY <1>1, <2>1, <2>2, <2>3, <3>1
      DEF Fresh, AtHeading, Lossless, OneHeadingEach, LabelsNonempty
    <3>4. QED
      BY <3>2, <3>3 DEF IInv
  <2>4. CASE c # 1
    <3>1. c - 1 \in Nat /\ c - 1 >= 1 /\ c - 1 <= Len(text) /\ (c - 1) + 1 = c
      BY <1>1, <1>2, <2>1, <2>4
    <3>2. Headings(text) \cap (1..(c - 1)) = {}
      BY <1>2, <1>3, <1>1
    <3>3. QED
      BY <1>4, <2>1, <2>2, <2>4, <3>1, <3>2
  <2>5. QED
    BY <2>3, <2>4
<1>7. QED
  BY <1>5, <1>6

\* A section goes from its heading to before the next one.
LEMMA SectionKeepsIInv ==
  ASSUME IInv, SplitSection
  PROVE  IInv'
<1> DEFINE c == NextHeading(text, cursor)
           s == Numbered(text, cursor, c - 1)
           n == Len(sections)
<1>1. /\ text \in Seq(Piece) /\ WellFormed(text) /\ text' = text /\ Len(text) \in Nat
      /\ sections \in Seq(Section) /\ n \in Nat
      /\ pc = "loop" /\ cursor \in Headings(text) /\ cursor \in 1..Len(text)
      /\ cursor' = c
      /\ sections' = Append(sections, s)
      /\ pc' = IF c > Len(text) THEN "done" ELSE "loop"
  BY DEF IInv, TypeOK, AtHeading, SplitSection, Headings
<1>2. /\ c \in Nat /\ cursor < c /\ c <= Len(text) + 1
      /\ c <= Len(text) => c \in Headings(text)
      /\ \A j \in Headings(text) : cursor < j => c <= j
  BY <1>1, NextHeadingFacts
<1> HIDE DEF c
<1>3. cursor + 1 <= Len(text) /\ cursor + 1 \notin Headings(text)
  BY <1>1 DEF Headings
<1>4. cursor < c - 1
  <2>1. c # cursor + 1
    BY <1>1, <1>2, <1>3
  <2>2. QED
    BY <1>1, <1>2, <2>1
<1>5. LabelWords(text, cursor, c - 1) \in 1..MaxWords
  BY <1>1, <1>2, <1>4, LabelBounds, MaxWordsAssumption
<1>6. /\ s.numbered = TRUE /\ s.from = cursor /\ s.to = c - 1
      /\ s.words \in 1..MaxWords /\ s \in Section
  BY <1>1, <1>2, <1>5, MaxWordsAssumption DEF Numbered, Section
<1> HIDE DEF s
<1>7. /\ Len(sections') = n + 1
      /\ sections'[n + 1] = s
      /\ \A k \in 1..n : sections'[k] = sections[k]
      /\ sections' \in Seq(Section)
  BY <1>1, <1>6
<1> HIDE DEF n
<1>8. TypeOK'
  BY <1>1, <1>2, <1>7 DEF TypeOK
<1>9. Fresh' /\ AtHeading'
  BY <1>1, <1>2 DEF Fresh, AtHeading
<1>10. n \in Nat /\ \A k \in 1..(n + 1) : k = n + 1 \/ k \in 1..n
  <2>1. n \in Nat
    BY <1>1
  <2>2. QED
    BY <2>1
<1>11. Lossless'
  <2>1. /\ n = 0 => cursor = 1
        /\ n # 0 => cursor = sections[n].to + 1
    BY <1>1 DEF IInv, Lossless, n
  <2>2. ASSUME NEW k \in 1..(n + 1)
        PROVE  /\ sections'[k].from <= sections'[k].to
               /\ sections'[k].from = IF k = 1 THEN 1 ELSE sections'[k - 1].to + 1
    <3>1. CASE k = n + 1
      <4>1. sections'[k].from <= sections'[k].to
        BY <3>1, <1>1, <1>2, <1>4, <1>6, <1>7
      <4>2. CASE n = 0
        BY <4>1, <4>2, <3>1, <2>1, <1>6, <1>7
      <4>3. CASE n # 0
        <5>1. k # 1 /\ k - 1 = n /\ n \in 1..n
          BY <4>3, <3>1, <1>1
        <5>2. sections'[k - 1] = sections[n]
          BY <5>1, <1>7
        <5>3. QED
          BY <4>1, <5>1, <5>2, <3>1, <2>1, <4>3, <1>6, <1>7
      <4>4. QED
        BY <4>2, <4>3
    <3>2. CASE k \in 1..n
      <4>1. /\ sections[k].from <= sections[k].to
            /\ sections[k].from = IF k = 1 THEN 1 ELSE sections[k - 1].to + 1
        BY <3>2 DEF IInv, Lossless, n
      <4>2. k # 1 => k - 1 \in 1..n
        BY <3>2, <1>1
      <4>3. QED
        BY <3>2, <4>1, <4>2, <1>7
    <3>3. QED
      BY <3>1, <3>2, <1>10
  <2>3. cursor' = sections'[n + 1].to + 1
    BY <1>1, <1>2, <1>6, <1>7
  <2>4. pc' = "done" => cursor' = Len(text) + 1
    BY <1>1, <1>2
  <2>5. QED
    BY <2>2, <2>3, <2>4, <1>1, <1>7 DEF Lossless
<1>12. OneHeadingEach'
  <2>1. (s.from..s.to) \cap Headings(text) = {s.from}
    BY <1>1, <1>2, <1>4, <1>6 DEF Headings
  <2>2. ASSUME NEW k \in 1..(n + 1)
        PROVE  LET u == sections'[k] IN
                 /\ (u.from..u.to) \cap Headings(text) = IF u.numbered THEN {u.from} ELSE {}
                 /\ ~u.numbered => k = 1
    <3>1. CASE k = n + 1
      BY <3>1, <2>1, <1>6, <1>7
    <3>2. CASE k \in 1..n
      BY <3>2, <1>7 DEF IInv, OneHeadingEach, n
    <3>3. QED
      BY <3>1, <3>2, <1>10
  <2>3. QED
    BY <2>2, <1>1, <1>7 DEF OneHeadingEach
<1>13. LabelsNonempty'
  <2> SUFFICES ASSUME NEW k \in 1..(n + 1), sections'[k].numbered
               PROVE  sections'[k].words \in 1..MaxWords
    BY <1>7 DEF LabelsNonempty
  <2>1. CASE k = n + 1
    BY <2>1, <1>6, <1>7
  <2>2. CASE k \in 1..n
    BY <2>2, <1>7 DEF IInv, LabelsNonempty, n
  <2>3. QED
    BY <2>1, <2>2, <1>10
<1>14. QED
  BY <1>8, <1>9, <1>11, <1>12, <1>13 DEF IInv

-----------------------------------------------------------------------------

\* Every step of split_sections.
LEMMA NextKeepsIInv == IInv /\ [Next]_vars => IInv'
<1> SUFFICES ASSUME IInv, [Next]_vars PROVE IInv'
  OBVIOUS
<1>1. CASE SplitNothing
  <2>1. TypeOK'
    BY <1>1 DEF IInv, TypeOK, SplitNothing
  <2>2. Lossless'
    BY <1>1 DEF IInv, Fresh, Lossless, SplitNothing
  <2>3. QED
    BY <1>1, <2>1, <2>2
    DEF IInv, Fresh, AtHeading, OneHeadingEach, LabelsNonempty, SplitNothing
<1>2. CASE UNCHANGED vars
  <2>1. TypeOK' /\ Lossless'
    BY <1>2 DEF IInv, TypeOK, Lossless, vars
  <2>2. QED
    BY <1>2, <2>1 DEF IInv, Fresh, AtHeading, OneHeadingEach, LabelsNonempty, vars
<1>3. QED
  BY <1>1, <1>2, HeaderKeepsIInv, SectionKeepsIInv DEF Next

\* The invariant holds between any two rounds.
LEMMA Invariance == Spec => []IInv
<1>1. QED
  BY InitIInv, NextKeepsIInv, PTL DEF Spec

\* Whatever the text, its pieces end up in the sections, each in one, in order.
THEOREM SplitLosesNothing == Spec => []Lossless
<1>1. IInv => Lossless
  BY DEF IInv
<1>2. QED
  BY <1>1, Invariance, PTL

\* Whatever the text, there is one numbered section for each heading, from
\* the heading on.
THEOREM SectionsAreHeadings == Spec => []OneHeadingEach
<1>1. IInv => OneHeadingEach
  BY DEF IInv
<1>2. QED
  BY <1>1, Invariance, PTL

\* Whatever the text and the limit of words, a numbered section has a label.
THEOREM LabelsAreNonempty == Spec => []LabelsNonempty
<1>1. IInv => LabelsNonempty
  BY DEF IInv
<1>2. QED
  BY <1>1, Invariance, PTL

\* The sections are records of numbers, the cursor never leaves the text.
THEOREM TypeCorrect == Spec => []TypeOK
<1>1. IInv => TypeOK
  BY DEF IInv
<1>2. QED
  BY <1>1, Invariance, PTL

-----------------------------------------------------------------------------
(* What the sections are to the text: a partition, and its table of contents. *)

\* The sections so far lie one after the other before the cursor, and every
\* piece before the cursor is in one.
Laid ==
  pc # "split" =>
    /\ \A k \in 1..Len(sections) : sections[k].to < cursor
    /\ \A j, k \in 1..Len(sections) : j < k => sections[j].to < sections[k].from
    /\ \A i \in 1..(cursor - 1) :
         \E k \in 1..Len(sections) : i \in sections[k].from..sections[k].to

LEMMA SectionsAreIntervals ==
  ASSUME IInv
  PROVE  /\ Len(sections) \in Nat
         /\ \A k \in 1..Len(sections) : sections[k].from \in Nat /\ sections[k].to \in Nat
<1>1. sections \in Seq(Section)
  BY DEF IInv, TypeOK
<1>2. Len(sections) \in Nat /\ \A k \in 1..Len(sections) : sections[k] \in Section
  BY <1>1
<1> QED
  BY <1>2 DEF Section

\* A section from the cursor to the next cursor lies after the others.
LEMMA RoundLays ==
  ASSUME IInv, Laid, SplitSection
  PROVE  Laid'
<1>0. /\ sections \in Seq(Section) /\ cursor \in Nat /\ cursor' \in Nat /\ cursor < cursor'
      /\ Len(sections) \in Nat
  <2>1. text \in Seq(Piece) /\ cursor \in 1..Len(text) /\ sections \in Seq(Section)
    BY DEF IInv, TypeOK, AtHeading, SplitSection, Headings
  <2>2. cursor' = NextHeading(text, cursor)
    BY DEF SplitSection
  <2> QED
    BY <2>1, <2>2, NextHeadingFacts
<1> DEFINE n == Len(sections)
           s == Numbered(text, cursor, cursor' - 1)
<1>1. /\ sections' = Append(sections, s) /\ Len(sections') = n + 1
      /\ \A k \in 1..n : sections'[k] = sections[k]
      /\ sections'[n + 1] = s
  BY <1>0 DEF SplitSection
<1>2. s.from = cursor /\ s.to = cursor' - 1
  BY DEF Numbered
<1> HIDE DEF s
<1>3. \A k \in 1..n : sections[k].from \in Nat /\ sections[k].to \in Nat
  BY SectionsAreIntervals
<1>4. /\ \A k \in 1..n : sections[k].to < cursor
      /\ \A j, k \in 1..n : j < k => sections[j].to < sections[k].from
      /\ \A i \in 1..(cursor - 1) : \E k \in 1..n : i \in sections[k].from..sections[k].to
  BY DEF Laid, SplitSection
<1>5. \A k \in 1..(n + 1) : sections'[k].to < cursor'
  <2>1. \A k \in 1..n : sections'[k].to < cursor'
    BY <1>0, <1>1, <1>3, <1>4
  <2>2. sections'[n + 1].to < cursor'
    BY <1>0, <1>1, <1>2
  <2>3. \A k \in 1..(n + 1) : k \in 1..n \/ k = n + 1
    BY <1>0
  <2> QED
    BY <2>1, <2>2, <2>3
<1>6. \A j, k \in 1..(n + 1) : j < k => sections'[j].to < sections'[k].from
  <2>1. \A j, k \in 1..n : j < k => sections'[j].to < sections'[k].from
    BY <1>1, <1>4
  <2>2. \A j \in 1..n : sections'[j].to < sections'[n + 1].from
    BY <1>1, <1>2, <1>4
  <2>3. \A j, k \in 1..(n + 1) : j < k => j \in 1..n /\ (k \in 1..n \/ k = n + 1)
    BY <1>0
  <2> QED
    BY <2>1, <2>2, <2>3
<1>7. ASSUME NEW i \in 1..(cursor' - 1)
      PROVE  \E k \in 1..(n + 1) : i \in sections'[k].from..sections'[k].to
  <2>1. CASE i < cursor
    <3>1. PICK k \in 1..n : i \in sections[k].from..sections[k].to
      BY <1>0, <1>4, <2>1
    <3> QED
      BY <1>0, <1>1, <3>1
  <2>2. CASE cursor <= i
    BY <1>0, <1>1, <1>2, <2>2
  <2> QED
    BY <1>0, <2>1, <2>2
<1> QED
  BY <1>1, <1>5, <1>6, <1>7 DEF Laid

\* The header lies before the first heading, or there is nothing before it.
LEMMA HeaderLays ==
  ASSUME IInv, SplitNothing \/ SplitUnnumbered \/ SplitHeader
  PROVE  Laid'
<1>1. text \in Seq(Piece) /\ Len(text) \in Nat /\ sections = <<>> /\ cursor = 1
  BY DEF IInv, TypeOK, Fresh, SplitNothing, SplitUnnumbered, SplitHeader
<1>2. CASE SplitNothing
  BY <1>1, <1>2 DEF SplitNothing, Laid
<1>3. ASSUME SplitUnnumbered \/ SplitHeader
      PROVE  /\ cursor' \in Nat
             /\ \/ sections' = <<>> /\ cursor' = 1
                \/ sections' = <<Header(cursor' - 1)>>
  <2>1. NextHeading(text, 0) \in Nat
    BY <1>1, NextHeadingFacts
  <2> QED
    BY <1>1, <1>3, <2>1 DEF SplitUnnumbered, SplitHeader
<1>4. CASE SplitUnnumbered \/ SplitHeader
  <2>1. CASE sections' = <<>> /\ cursor' = 1
    BY <2>1 DEF Laid
  <2>2. CASE sections' = <<Header(cursor' - 1)>>
    BY <1>3, <1>4, <2>2 DEF Laid, Header
  <2> QED
    BY <1>3, <1>4, <2>1, <2>2
<1> QED
  BY <1>2, <1>4

LEMMA LaidInvariance == Spec => []Laid
<1>1. Init => Laid
  BY DEF Init, Laid
<1>2. UNCHANGED vars /\ Laid => Laid'
  BY DEF vars, Laid
<1>3. IInv /\ Laid /\ [Next]_vars => Laid'
  BY <1>2, RoundLays, HeaderLays DEF Next
<1> QED
  BY <1>1, <1>3, Invariance, PTL DEF Spec

\* Once the text is split, every piece of it is in a section and in no other.
EachPieceOnce ==
  pc = "done" =>
    \A i \in 1..Len(text) :
      \E k \in 1..Len(sections) :
        /\ i \in sections[k].from..sections[k].to
        /\ \A j \in 1..Len(sections) : i \in sections[j].from..sections[j].to => j = k

\* "the full, exact section text is always preserved": the chunks of a
\* document are a partition of its text, for a text of any length.
THEOREM SectionsPartitionTheText == Spec => []EachPieceOnce
<1>1. ASSUME IInv, Laid, pc = "done", NEW i \in 1..Len(text)
      PROVE  \E k \in 1..Len(sections) :
               /\ i \in sections[k].from..sections[k].to
               /\ \A j \in 1..Len(sections) : i \in sections[j].from..sections[j].to => j = k
  <2>1. cursor = Len(text) + 1 /\ Len(text) \in Nat /\ Len(sections) \in Nat
        /\ \A k \in 1..Len(sections) : sections[k].from \in Nat /\ sections[k].to \in Nat
    BY <1>1, SectionsAreIntervals DEF IInv, Lossless, TypeOK
  <2>2. PICK k \in 1..Len(sections) : i \in sections[k].from..sections[k].to
    BY <1>1, <2>1 DEF Laid
  <2>3. ASSUME NEW j \in 1..Len(sections), i \in sections[j].from..sections[j].to, j # k
        PROVE  FALSE
    <3>1. j < k \/ k < j
      BY <2>1, <2>3
    <3>2. sections[j].to < sections[k].from \/ sections[k].to < sections[j].from
      BY <1>1, <3>1 DEF Laid
    <3> QED
      BY <2>1, <2>2, <2>3, <3>2
  <2> QED
    BY <2>2, <2>3
<1>2. IInv /\ Laid => EachPieceOnce
  BY <1>1 DEF EachPieceOnce
<1> QED
  BY <1>2, Invariance, LaidInvariance, PTL

\* Once the text is split, every heading opens a section of its own, and the
\* section is cited under words of that heading.
EveryHeadingOpens ==
  pc = "done" =>
    \A h \in Headings(text) :
      \E k \in 1..Len(sections) :
        sections[k].numbered /\ sections[k].from = h /\ sections[k].words \in 1..MaxWords

\* No heading of the pattern is swallowed by the section before it.
THEOREM HeadingsOpenSections == Spec => []EveryHeadingOpens
<1>1. ASSUME IInv, Laid, pc = "done", NEW h \in Headings(text)
      PROVE  \E k \in 1..Len(sections) :
               sections[k].numbered /\ sections[k].from = h /\ sections[k].words \in 1..MaxWords
  <2>1. cursor = Len(text) + 1 /\ h \in 1..Len(text) /\ Len(text) \in Nat
    BY <1>1 DEF IInv, Lossless, TypeOK, Headings
  <2>2. PICK k \in 1..Len(sections) : h \in sections[k].from..sections[k].to
    BY <1>1, <2>1 DEF Laid
  <2>3. (sections[k].from..sections[k].to) \cap Headings(text)
          = IF sections[k].numbered THEN {sections[k].from} ELSE {}
    BY <1>1 DEF IInv, OneHeadingEach
  <2>4. sections[k].numbered /\ sections[k].from = h
    BY <2>2, <2>3
  <2> QED
    BY <1>1, <2>4 DEF IInv, LabelsNonempty
<1>2. IInv /\ Laid => EveryHeadingOpens
  BY <1>1 DEF EveryHeadingOpens
<1> QED
  BY <1>2, Invariance, LaidInvariance, PTL
==============================================================================
