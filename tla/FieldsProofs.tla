----------------------------- MODULE FieldsProofs ------------------------------
(***************************************************************************)
(* What is in a header value comes out of it, and parsing it ends: for     *)
(* values of any length.                                                   *)
(***************************************************************************)
EXTENDS Fields, SequenceTheorems, FiniteSetTheorems, WellFoundedInduction, TLAPS

\* The numbers are well-ordered, which stands in for induction below.
LEMMA Least ==
  ASSUME NEW T, T \subseteq Nat, T # {}
  PROVE  \E x \in T : \A y \in T : x <= y
<1> DEFINE R == OpToRel(<, Nat)
<1>1. IsWellFoundedOn(R, Nat)
  BY NatLessThanWellFounded
<1> HIDE DEF R
<1>2. PICK x \in T : \A y \in T : ~(<<y, x>> \in R)
  BY <1>1, WFMin
<1>3. \A y \in T : ~(y < x)
  BY <1>2 DEF R, OpToRel
<1>4. QED BY <1>3

\* strspn finds the first position that is not in the set.
LEMMA SpanFinds ==
  ASSUME NEW s, Len(s) \in Nat, NEW i \in 1 .. Len(s) + 1, NEW set
  PROVE  /\ Span(s, i, set) \in i .. Len(s) + 1
         /\ \A k \in i .. Span(s, i, set) - 1 : s[k] \in set
         /\ Span(s, i, set) <= Len(s) => s[Span(s, i, set)] \notin set
<1> DEFINE T == {j \in i .. Len(s) + 1 : j = Len(s) + 1 \/ s[j] \notin set}
<1>1. T \subseteq Nat /\ Len(s) + 1 \in T
  OBVIOUS
<1>2. PICK j \in T : \A y \in T : j <= y
  BY <1>1, Least
<1>3. \A k \in i .. j - 1 : k \notin T
  BY <1>2
<1>4. /\ j \in i .. Len(s) + 1 /\ \A k \in i .. j - 1 : s[k] \in set
      /\ j <= Len(s) => s[j] \notin set
  BY <1>2, <1>3
<1>5. QED BY <1>4 DEF Span

\* strcspn finds the first position that is in the set.
LEMMA UpToFinds ==
  ASSUME NEW s, Len(s) \in Nat, NEW i \in 1 .. Len(s) + 1, NEW set
  PROVE  /\ UpTo(s, i, set) \in i .. Len(s) + 1
         /\ \A k \in i .. UpTo(s, i, set) - 1 : s[k] \notin set
         /\ UpTo(s, i, set) <= Len(s) => s[UpTo(s, i, set)] \in set
<1> DEFINE T == {j \in i .. Len(s) + 1 : j = Len(s) + 1 \/ s[j] \in set}
<1>1. T \subseteq Nat /\ Len(s) + 1 \in T
  OBVIOUS
<1>2. PICK j \in T : \A y \in T : j <= y
  BY <1>1, Least
<1>3. \A k \in i .. j - 1 : k \notin T
  BY <1>2
<1>4. /\ j \in i .. Len(s) + 1 /\ \A k \in i .. j - 1 : s[k] \notin set
      /\ j <= Len(s) => s[j] \in set
  BY <1>2, <1>3
<1>5. QED BY <1>4 DEF UpTo

\* Appending, to a sequence of whatever it is a sequence of.
LEMMA Appends ==
  ASSUME NEW s, s \in Seq(Range(s)), NEW x
  PROVE  /\ Append(s, x) \in Seq(Range(Append(s, x)))
         /\ Len(s) \in Nat /\ DOMAIN s = 1 .. Len(s)
         /\ Len(Append(s, x)) = Len(s) + 1
         /\ DOMAIN Append(s, x) = 1 .. Len(s) + 1
         /\ \A i \in 1 .. Len(s) : Append(s, x)[i] = s[i]
         /\ Append(s, x)[Len(s) + 1] = x
<1> DEFINE S == Range(s) \cup {x}
           t == Append(s, x)
<1>1. s \in Seq(S)
  BY SeqMonotonic
<1>2. /\ t \in Seq(S) /\ Len(t) = Len(s) + 1
      /\ \A i \in 1 .. Len(s) : t[i] = s[i] /\ t[Len(s) + 1] = x
  BY <1>1, AppendProperties
<1>3. /\ Len(s) \in Nat /\ DOMAIN s = 1 .. Len(s)
      /\ Len(t) \in Nat /\ DOMAIN t = 1 .. Len(t) /\ t \in [1 .. Len(t) -> S]
  BY <1>1, <1>2, LenProperties
<1>4. t[Len(s) + 1] = x
  BY <1>1, AppendProperties
<1> HIDE DEF t
<1>5. t \in [1 .. Len(t) -> Range(t)]
  BY <1>3 DEF Range
<1>6. t \in Seq(Range(t))
  BY <1>3, <1>5, SeqDef
<1>7. QED BY <1>2, <1>3, <1>4, <1>6 DEF t

LEMMA TextTyped ==
  ASSUME NEW t \in Text
  PROVE  t \in Seq(Range(t)) /\ Len(t) \in Nat /\ DOMAIN t = 1 .. Len(t)
<1>1. t \in Seq(Range(t))
  BY FieldsAssumption
<1>2. QED BY <1>1, LenProperties

\* What a stretch is.
LEMMA StretchDef ==
  ASSUME NEW seps
  PROVE  /\ \A b, e \in 1 .. Len(text) :
              <<b, e>> \in Stretches(seps) <=>
                /\ b <= e /\ \A i \in b .. e : text[i] \notin seps
                /\ b = 1 \/ text[b - 1] \in seps
                /\ e = Len(text) \/ text[e + 1] \in seps
         /\ \A s \in Stretches(seps) :
              s[1] \in 1 .. Len(text) /\ s[2] \in 1 .. Len(text) /\ s = <<s[1], s[2]>>
BY DEF Stretches
-------------------------------------------------------------------------------
\* What lies between the words of a text, or the keywords.
Apart == IF into = "words" THEN {"sp", "semi", "nl"} ELSE {"sp", "comma", "semi", "nl"}

\* The field that parse_tomap is in.
InField ==
  /\ into = "maps" /\ parsing /\ from <= to
  /\ \A k \in from .. to - 1 : text[k] \notin {"semi", "nl"}
  /\ to <= Len(text) => text[to] \in {"semi", "nl"}

\* source points to where a word or a keyword may begin, but not into one.
AtEdge ==
  \/ from = 1 \/ from = Len(text) + 1
  \/ text[from] \in Apart \/ text[from - 1] \in Apart

PlaceInv ==
  /\ text \in Text /\ into \in {"words", "maps"} /\ parsing \in BOOLEAN
  /\ from \in 1 .. Len(text) + 1 /\ to \in 0 .. Len(text) + 1 /\ rounds \in Nat
  /\ to # 0 => InField
  /\ AtEdge
  /\ ~parsing => \A k \in from .. Len(text) : text[k] \in Apart

\* Each round has brought source on, but for the one that has just entered a field.
RoundsInv ==
  /\ into = "words" /\ ~Broken => rounds <= from - 1
  /\ into = "maps" => \/ rounds <= 2 * (from - 1)
                      \/ to # 0 /\ from < to /\ rounds <= 2 * (from - 1) + 1

LEMMA PlaceInvInit == FieldsInit => PlaceInv /\ RoundsInv
<1> SUFFICES ASSUME FieldsInit PROVE PlaceInv /\ RoundsInv
  OBVIOUS
<1>1. Len(text) \in Nat
  BY TextTyped DEF FieldsInit
<1>2. QED BY <1>1 DEF FieldsInit, PlaceInv, RoundsInv, AtEdge

\* What a round of the loop of parse_fields finds.
LEMMA RoundFinds ==
  ASSUME PlaceInv, NEW b, NEW e, Round(b, e)
  PROVE  /\ b \in from .. Len(text) /\ e \in b .. Len(text) + 1
         /\ \A k \in from .. b - 1 : text[k] \in Skipped
         /\ text[b] \notin Skipped
         /\ \A k \in b .. e - 1 : text[k] \notin Ends
         /\ e <= Len(text) => text[e] \in Ends
<1>1. /\ b = Span(text, from, Skipped) /\ b <= Len(text) /\ e = UpTo(text, b, Ends)
      /\ Len(text) \in Nat /\ from \in 1 .. Len(text) + 1
  BY TextTyped DEF Round, PlaceInv
<1>2. /\ b \in from .. Len(text) + 1 /\ \A k \in from .. b - 1 : text[k] \in Skipped
      /\ text[b] \notin Skipped
  BY <1>1, SpanFinds
<1>3. b \in 1 .. Len(text) + 1
  BY <1>1, <1>2
<1>4. /\ e \in b .. Len(text) + 1 /\ \A k \in b .. e - 1 : text[k] \notin Ends
      /\ e <= Len(text) => text[e] \in Ends
  BY <1>1, <1>3, UpToFinds
<1>5. QED BY <1>1, <1>2, <1>4

\* What a round of the loop of parse_tomap finds.
LEMMA SegmentFinds ==
  ASSUME PlaceInv, to # 0
  PROVE  /\ SegmentStart \in from .. to
         /\ \A k \in from .. SegmentStart - 1 : text[k] \in Separators
         /\ SegmentStart < to => text[SegmentStart] \notin Separators
         /\ LET e == UpTo(SubSeq(text, 1, to - 1), SegmentStart, Separators) IN
            /\ e \in SegmentStart .. to
            /\ \A k \in SegmentStart .. e - 1 : text[k] \notin Separators
            /\ e < to => text[e] \in Separators
<1> DEFINE s == SubSeq(text, 1, to - 1)
           b == SegmentStart
           e == UpTo(s, b, Separators)
<1>1. /\ text \in Seq(Range(text)) /\ Len(text) \in Nat
      /\ from \in 1 .. Len(text) + 1 /\ to \in 1 .. Len(text) + 1 /\ from <= to
  BY TextTyped DEF PlaceInv, InField
<1>2. Len(s) = to - 1 /\ \A k \in 1 .. to - 1 : s[k] = text[k]
  <2>1. \A i \in 1 .. to - 1 : text[i] \in Range(text)
    BY <1>1, ElementOfSeq
  <2>2. /\ Len(s) = IF 1 <= to - 1 THEN to - 1 - 1 + 1 ELSE 0
        /\ \A i \in 1 .. to - 1 - 1 + 1 : s[i] = text[1 + i - 1]
    BY <1>1, <2>1, SubSeqProperties
  <2> HIDE DEF s
  <2>3. QED BY <1>1, <2>2
<1>3. b = Span(s, from, Separators)
  BY DEF SegmentStart
<1> HIDE DEF s, b
<1>4. Len(s) \in Nat /\ from \in 1 .. Len(s) + 1
  BY <1>1, <1>2
<1>5. /\ b \in from .. Len(s) + 1 /\ \A k \in from .. b - 1 : s[k] \in Separators
      /\ b <= Len(s) => s[b] \notin Separators
  BY <1>3, <1>4, SpanFinds
<1>6. b \in 1 .. Len(s) + 1
  BY <1>4, <1>5
<1>7. /\ e \in b .. Len(s) + 1 /\ \A k \in b .. e - 1 : s[k] \notin Separators
      /\ e <= Len(s) => s[e] \in Separators
  BY <1>4, <1>6, UpToFinds
<1> HIDE DEF e
<1>8. /\ b \in from .. to /\ \A k \in from .. b - 1 : text[k] \in Separators
      /\ b < to => text[b] \notin Separators
  BY <1>1, <1>2, <1>5
<1>9. /\ e \in b .. to /\ \A k \in b .. e - 1 : text[k] \notin Separators
      /\ e < to => text[e] \in Separators
  BY <1>1, <1>2, <1>6, <1>7
<1>10. QED BY <1>8, <1>9 DEF s, b, e

\* PlaceInv and RoundsInv are inductive.
LEMMA PlaceInvStep ==
  ASSUME PlaceInv, RoundsInv, [FieldsNext]_fieldsVars
  PROVE  PlaceInv' /\ RoundsInv'
<1>1. /\ Len(text) \in Nat /\ DOMAIN text = 1 .. Len(text)
      /\ from \in 1 .. Len(text) + 1 /\ to \in 0 .. Len(text) + 1 /\ rounds \in Nat
  BY TextTyped DEF PlaceInv
<1>2. CASE Word
  <2>1. PICK b \in 1 .. Len(text) + 1, e \in 1 .. Len(text) + 1 : Round(b, e) /\ from' = e
    BY <1>2 DEF Word
  <2>2. /\ into = "words" /\ to = 0 /\ rounds' = rounds + 1
        /\ UNCHANGED <<text, into, parsing, to>> /\ parsing
    BY <1>2, <2>1 DEF Word, Round, NextRound
  <2>3. /\ b \in from .. Len(text) /\ e \in b .. Len(text) + 1
        /\ text[b] \notin {"sp", "semi"}
        /\ e <= Len(text) => text[e] \in {"sp", "semi", "nl"}
    BY <2>1, <2>2, RoundFinds DEF Skipped, Ends
  <2>4. PlaceInv'
    BY <1>1, <2>1, <2>2, <2>3 DEF PlaceInv, AtEdge, Apart
  <2>5. ASSUME ~Broken PROVE rounds' <= from' - 1
    <3>1. rounds <= from - 1
      BY <2>2, <2>5 DEF RoundsInv
    <3>2. text[b] # "nl"
      BY <1>1, <2>3, <2>5 DEF Broken
    <3>3. e # b
      BY <1>1, <2>3, <3>2
    <3>4. QED BY <1>1, <2>1, <2>2, <2>3, <3>1, <3>3
  <2>6. RoundsInv'
    BY <2>2, <2>5 DEF RoundsInv, Broken
  <2>7. QED BY <2>4, <2>6
<1>3. CASE StartMap
  <2>1. PICK b \in 1 .. Len(text) + 1, e \in 1 .. Len(text) + 1 :
          Round(b, e) /\ from' = b /\ to' = e
    BY <1>3 DEF StartMap
  <2>2. /\ into = "maps" /\ to = 0 /\ rounds' = rounds + 1
        /\ UNCHANGED <<text, into, parsing>> /\ parsing
    BY <1>3, <2>1 DEF StartMap, Round, NextRound
  <2>3. /\ b \in from .. Len(text) /\ e \in b .. Len(text) + 1
        /\ \A k \in from .. b - 1 : text[k] \in {"sp", "semi", "nl"}
        /\ text[b] \notin {"sp", "semi", "nl"}
        /\ \A k \in b .. e - 1 : text[k] \notin {"semi", "nl"}
        /\ e <= Len(text) => text[e] \in {"semi", "nl"}
    BY <2>1, <2>2, RoundFinds DEF Skipped, Ends
  <2>4. b < e
    BY <1>1, <2>3
  <2>5. AtEdge'
    <3>1. CASE b = from
      BY <2>1, <2>2, <3>1 DEF PlaceInv, AtEdge, Apart
    <3>2. CASE b # from
      <4>1. text[b - 1] \in Apart
        BY <1>1, <2>2, <2>3, <3>2 DEF Apart
      <4>2. QED BY <2>1, <2>2, <4>1 DEF AtEdge, Apart
    <3>3. QED BY <3>1, <3>2
  <2>6. InField'
    BY <1>1, <2>1, <2>2, <2>3 DEF InField
  <2>7. PlaceInv'
    BY <1>1, <2>1, <2>2, <2>3, <2>5, <2>6 DEF PlaceInv
  <2>8. RoundsInv'
    BY <1>1, <2>1, <2>2, <2>3, <2>4 DEF RoundsInv
  <2>9. QED BY <2>7, <2>8
<1>4. CASE Pair
  <2> DEFINE b == SegmentStart
             e == UpTo(SubSeq(text, 1, to - 1), b, Separators)
  <2>1. /\ to # 0 /\ b < to /\ from' = e /\ rounds' = rounds + 1
        /\ UNCHANGED <<text, into, to, parsing>>
    BY <1>4 DEF Pair, NextRound
  <2>2. /\ b \in from .. to /\ e \in b .. to
        /\ text[b] \notin Separators
        /\ e < to => text[e] \in Separators
    BY <2>1, SegmentFinds
  <2> HIDE DEF b, e
  <2>3. InField
    BY <2>1 DEF PlaceInv
  <2>4. e # b
    BY <1>1, <2>1, <2>2
  <2>5. AtEdge'
    BY <1>1, <2>1, <2>2, <2>3 DEF InField, AtEdge, Apart, Separators
  <2>6. InField'
    BY <1>1, <2>1, <2>2, <2>3 DEF InField
  <2>7. PlaceInv'
    BY <1>1, <2>1, <2>2, <2>3, <2>5, <2>6 DEF PlaceInv, InField
  <2>8. RoundsInv'
    BY <1>1, <2>1, <2>2, <2>3, <2>4 DEF RoundsInv, InField
  <2>9. QED BY <2>7, <2>8
<1>5. CASE EndMap
  <2>1. /\ to # 0 /\ SegmentStart >= to /\ from' = to /\ to' = 0
        /\ UNCHANGED <<text, into, rounds, parsing>>
    BY <1>5 DEF EndMap
  <2>2. InField
    BY <2>1 DEF PlaceInv
  <2>3. AtEdge'
    BY <1>1, <2>1, <2>2 DEF InField, AtEdge, Apart
  <2>4. PlaceInv'
    BY <1>1, <2>1, <2>2, <2>3 DEF PlaceInv, InField
  <2>5. RoundsInv'
    BY <1>1, <2>1, <2>2 DEF RoundsInv, InField
  <2>6. QED BY <2>4, <2>5
<1>6. CASE Return
  <2>1. /\ to = 0 /\ Span(text, from, Skipped) > Len(text) /\ ~parsing'
        /\ UNCHANGED <<text, into, from, to, rounds>>
    BY <1>6 DEF Return
  <2>2. \A k \in from .. Len(text) : text[k] \in Skipped
    BY <1>1, <2>1, SpanFinds
  <2>3. \A k \in from .. Len(text) : text[k] \in Apart
    BY <2>2 DEF Skipped, Apart
  <2>4. parsing' \in BOOLEAN
    BY <1>6 DEF Return
  <2>5. QED BY <2>1, <2>3, <2>4 DEF PlaceInv, RoundsInv, AtEdge, Apart, Broken
<1>7. CASE UNCHANGED fieldsVars
  BY <1>7 DEF fieldsVars, PlaceInv, RoundsInv, InField, AtEdge, Apart, Broken
<1>8. QED BY <1>2, <1>3, <1>4, <1>5, <1>6, <1>7 DEF FieldsNext

\* Every value is parsed in a bounded number of rounds, if it is on one line or
\* parsed into maps.
THEOREM ParsingIsBounded == FieldsSpec => []ParsingEnds
<1>1. PlaceInv /\ RoundsInv => ParsingEnds
  BY TextTyped DEF PlaceInv, RoundsInv, ParsingEnds
<1>2. PlaceInv /\ RoundsInv /\ [FieldsNext]_fieldsVars => PlaceInv' /\ RoundsInv'
  BY PlaceInvStep
<1>3. QED BY <1>1, <1>2, PlaceInvInit, PTL DEF FieldsSpec
-------------------------------------------------------------------------------
\* The words, or the keywords, that begin before position p.
Started(p) == {s \in Stretches(Apart) : s[1] < p}

LEMMA StartedStays ==
  ASSUME text' = text, into' = into
  PROVE  Started(from)' = Started(from') /\ (Broken' <=> Broken)
BY DEF Started, Stretches, Apart, Broken

\* There are finitely many, and in the end they are all there.
LEMMA StartedAll ==
  ASSUME Len(text) \in Nat, NEW p
  PROVE  /\ IsFiniteSet(Started(p)) /\ Started(1) = {}
         /\ Started(Len(text) + 1) = Stretches(Apart)
<1> DEFINE I == 1 .. Len(text)
<1>1. IsFiniteSet(I)
  BY FS_Interval
<1>2. IsFiniteSet(I \X I)
  BY <1>1, FS_Product
<1>3. Started(p) \subseteq I \X I
  BY DEF Started, Stretches
<1>4. IsFiniteSet(Started(p))
  BY <1>2, <1>3, FS_Subset
<1>5. \A s \in Stretches(Apart) : s[1] \in 1 .. Len(text)
  BY StretchDef
<1>6. QED BY <1>4, <1>5 DEF Started

\* None begins where there are only separators.
LEMMA Skips ==
  ASSUME Len(text) \in Nat, NEW p \in 1 .. Len(text) + 1, NEW q \in p .. Len(text) + 1,
         \A k \in p .. q - 1 : text[k] \in Apart
  PROVE  Started(q) = Started(p)
<1>1. \A s \in Stretches(Apart) : s[1] \in 1 .. Len(text) /\ text[s[1]] \notin Apart
  <2>1. TAKE s \in Stretches(Apart)
  <2>2. PICK b \in 1 .. Len(text), e \in 1 .. Len(text) :
          s = <<b, e>> /\ b <= e /\ \A i \in b .. e : text[i] \notin Apart
    BY StretchDef
  <2>3. QED BY <2>2
<1>2. QED BY <1>1 DEF Started

\* One begins, and only one, where there are none from b to e - 1.
LEMMA Takes ==
  ASSUME Len(text) \in Nat, NEW b \in 1 .. Len(text), NEW e \in b + 1 .. Len(text) + 1,
         b = 1 \/ text[b - 1] \in Apart,
         \A k \in b .. e - 1 : text[k] \notin Apart,
         e <= Len(text) => text[e] \in Apart
  PROVE  /\ <<b, e - 1>> \notin Started(b)
         /\ Started(e) = Started(b) \cup {<<b, e - 1>>}
<1>1. <<b, e - 1>> \in Stretches(Apart)
  <2>1. e - 1 \in 1 .. Len(text) /\ b <= e - 1 /\ (e - 1 # Len(text) => e <= Len(text))
    OBVIOUS
  <2>2. e - 1 + 1 = e
    OBVIOUS
  <2>3. QED BY <2>1, <2>2, StretchDef
<1>2. ASSUME NEW s \in Stretches(Apart), s[1] < e, ~(s[1] < b)
      PROVE  s = <<b, e - 1>>
  <2>1. PICK c \in 1 .. Len(text), d \in 1 .. Len(text) :
          /\ s = <<c, d>> /\ c <= d /\ \A i \in c .. d : text[i] \notin Apart
          /\ c = 1 \/ text[c - 1] \in Apart
          /\ d = Len(text) \/ text[d + 1] \in Apart
    BY StretchDef
  <2>2. c = b
    <3>1. c < e /\ ~(c < b)
      BY <1>2, <2>1
    <3>2. QED BY <2>1, <3>1
  <2>3. d = e - 1
    BY <2>1, <2>2
  <2>4. QED BY <2>1, <2>2, <2>3
<1>3. <<b, e - 1>>[1] = b /\ b < e /\ \A s \in Stretches(Apart) : s[1] \in Nat
  BY StretchDef
<1>4. \A s \in Stretches(Apart) : s[1] < b => s[1] < e
  BY <1>3
<1>5. QED BY <1>1, <1>2, <1>3, <1>4 DEF Started

\* How often a word is in the container, and among some stretches of the text.
Times(w) == Cardinality({i \in DOMAIN out : out[i] = w})
Among(S, w) == Cardinality({s \in S : SubSeq(text, s[1], s[2]) = w})

\* The words that have been put into the container are those that source has passed.
WordsInv ==
  into = "words" /\ ~Broken =>
    /\ out \in Seq(Range(out))
    /\ \A w : Times(w) = Among(Started(from), w)

LEMMA WordsInvInit == FieldsInit => WordsInv
<1> SUFFICES ASSUME FieldsInit PROVE WordsInv
  OBVIOUS
<1>1. Started(1) = {}
  BY TextTyped, StartedAll DEF FieldsInit
<1>2. out = <<>> /\ from = 1
  BY DEF FieldsInit
<1>3. <<>> \in Seq(Range(<<>>)) /\ DOMAIN <<>> = {}
  OBVIOUS
<1>4. QED BY <1>1, <1>2, <1>3 DEF WordsInv, Times, Among

\* One more of both.
LEMMA OneMoreWord ==
  ASSUME PlaceInv, NEW b, NEW e, e # b, out' = Append(out, SubSeq(text, b, e - 1)),
         out \in Seq(Range(out)), <<b, e - 1>> \notin Started(b), NEW w,
         Times(w) = Among(Started(b), w), text' = text
  PROVE  Times(w)' = Among(Started(b) \cup {<<b, e - 1>>}, w)
<1> DEFINE word(s) == SubSeq(text, s[1], s[2])
           x == SubSeq(text, b, e - 1)
           I == {i \in DOMAIN out : out[i] = w}
           S == {s \in Started(b) : word(s) = w}
<1>1. /\ Len(out) \in Nat /\ DOMAIN out = 1 .. Len(out)
      /\ DOMAIN out' = (1 .. Len(out)) \cup {Len(out) + 1}
      /\ \A i \in 1 .. Len(out) : out'[i] = out[i]
      /\ out'[Len(out) + 1] = x
  <2>1. out' = Append(out, x)
    OBVIOUS
  <2> HIDE DEF x
  <2>2. /\ Len(out) \in Nat /\ DOMAIN out = 1 .. Len(out)
        /\ DOMAIN out' = 1 .. Len(out) + 1
        /\ \A i \in 1 .. Len(out) : out'[i] = out[i]
        /\ out'[Len(out) + 1] = x
    BY <2>1, Appends
  <2>3. 1 .. Len(out) + 1 = (1 .. Len(out)) \cup {Len(out) + 1}
    BY <2>2
  <2>4. QED BY <2>2, <2>3
<1>2. IsFiniteSet(I) /\ Len(out) + 1 \notin I
  <2>1. IsFiniteSet(DOMAIN out)
    BY <1>1, FS_Interval
  <2>2. QED BY <1>1, <2>1, FS_Subset
<1>3. IsFiniteSet(S) /\ <<b, e - 1>> \notin S
  <2>1. IsFiniteSet(Started(b))
    BY TextTyped, StartedAll DEF PlaceInv
  <2>2. QED BY <2>1, FS_Subset
<1>4. word(<<b, e - 1>>) = x
  OBVIOUS
<1>5. Cardinality(I) = Cardinality(S)
  BY DEF Times, Among
<1> HIDE DEF x, word
<1>6. CASE x = w
  <2>1. {i \in DOMAIN out' : out'[i] = w} = I \cup {Len(out) + 1}
    BY <1>1, <1>6
  <2>2. {s \in Started(b) \cup {<<b, e - 1>>} : word(s) = w} = S \cup {<<b, e - 1>>}
    BY <1>4, <1>6
  <2> HIDE DEF I, S
  <2>3. /\ Cardinality(I \cup {Len(out) + 1}) = Cardinality(I) + 1
        /\ Cardinality(S \cup {<<b, e - 1>>}) = Cardinality(S) + 1
    BY <1>2, <1>3, FS_AddElement
  <2>4. QED BY <1>5, <2>1, <2>2, <2>3 DEF word, Times, Among
<1>7. CASE x # w
  <2>1. {i \in DOMAIN out' : out'[i] = w} = I
    BY <1>1, <1>7
  <2>2. {s \in Started(b) \cup {<<b, e - 1>>} : word(s) = w} = S
    BY <1>4, <1>7
  <2>3. QED BY <1>5, <2>1, <2>2 DEF word, Times, Among
<1>8. QED BY <1>6, <1>7

LEMMA TextStays == [FieldsNext]_fieldsVars => text' = text /\ into' = into
BY DEF FieldsNext, Word, StartMap, Pair, EndMap, Return, Round, fieldsVars

\* WordsInv is inductive.
LEMMA WordsInvStep ==
  ASSUME PlaceInv, WordsInv, [FieldsNext]_fieldsVars
  PROVE  WordsInv'
<1>1. text' = text /\ into' = into
  BY TextStays
<1>2. Started(from)' = Started(from') /\ (Broken' <=> Broken)
  BY <1>1, StartedStays
<1> SUFFICES ASSUME into = "words", ~Broken
             PROVE  /\ out' \in Seq(Range(out'))
                    /\ \A w : Times(w)' = Among(Started(from'), w)
  BY <1>1, <1>2 DEF WordsInv, Among
<1>3. out \in Seq(Range(out)) /\ \A w : Times(w) = Among(Started(from), w)
  BY DEF WordsInv
<1>4. CASE Word
  <2>1. PICK b \in 1 .. Len(text) + 1, e \in 1 .. Len(text) + 1 :
          /\ Round(b, e) /\ from' = e
          /\ out' = IF e = b THEN out ELSE Append(out, SubSeq(text, b, e - 1))
    BY <1>4 DEF Word
  <2>2. /\ Len(text) \in Nat /\ DOMAIN text = 1 .. Len(text) /\ from \in 1 .. Len(text) + 1
        /\ \A k \in 1 .. Len(text) : text[k] # "nl"
    BY TextTyped DEF PlaceInv, Broken
  <2>3. /\ b \in from .. Len(text) /\ e \in b .. Len(text) + 1
        /\ \A k \in from .. b - 1 : text[k] \in Apart
        /\ text[b] \notin Apart
        /\ \A k \in b .. e - 1 : text[k] \notin Apart
        /\ e <= Len(text) => text[e] \in Apart
    <3>1. /\ b \in from .. Len(text) /\ e \in b .. Len(text) + 1
          /\ \A k \in from .. b - 1 : text[k] \in {"sp", "semi"}
          /\ text[b] \notin {"sp", "semi"}
          /\ \A k \in b .. e - 1 : text[k] \notin {"sp", "semi", "nl"}
          /\ e <= Len(text) => text[e] \in {"sp", "semi", "nl"}
      BY <2>1, RoundFinds DEF Skipped, Ends
    <3>2. text[b] # "nl"
      BY <2>2, <3>1
    <3>3. QED BY <3>1, <3>2 DEF Apart
  <2>4. b \in 1 .. Len(text) /\ e \in b + 1 .. Len(text) + 1 /\ e # b
    BY <2>2, <2>3
  <2>5. b = 1 \/ text[b - 1] \in Apart
    <3>1. CASE b = from
      BY <2>2, <2>3, <2>4, <3>1 DEF PlaceInv, AtEdge
    <3>2. CASE b # from
      <4>1. b - 1 \in from .. b - 1
        BY <2>2, <2>3, <3>2
      <4>2. QED BY <2>3, <4>1
    <3>3. QED BY <3>1, <3>2
  <2>6. Started(b) = Started(from)
    BY <2>2, <2>3, Skips
  <2>7. <<b, e - 1>> \notin Started(b) /\ Started(e) = Started(b) \cup {<<b, e - 1>>}
    BY <2>2, <2>3, <2>4, <2>5, Takes
  <2>8. out' = Append(out, SubSeq(text, b, e - 1))
    BY <2>1, <2>4
  <2>9. out' \in Seq(Range(out'))
    <3> DEFINE x == SubSeq(text, b, e - 1)
    <3>1. out' = Append(out, x)
      BY <2>8
    <3> HIDE DEF x
    <3>2. QED BY <1>3, <3>1, Appends
  <2>10. ASSUME NEW w
         PROVE  Times(w)' = Among(Started(from'), w)
    <3>1. Times(w)' = Among(Started(b) \cup {<<b, e - 1>>}, w)
      BY <1>1, <1>3, <2>4, <2>6, <2>7, <2>8, OneMoreWord
    <3>2. QED BY <2>1, <2>7, <3>1
  <2>11. QED BY <2>9, <2>10
<1>5. CASE from' = from /\ out' = out
  BY <1>3, <1>5 DEF Times
<1>6. ~StartMap /\ ~Pair /\ ~EndMap
  BY DEF PlaceInv, InField, StartMap, Pair, EndMap
<1>7. CASE Return
  BY <1>5, <1>7 DEF Return
<1>8. CASE UNCHANGED fieldsVars
  BY <1>5, <1>8 DEF fieldsVars
<1>9. QED BY <1>4, <1>6, <1>7, <1>8 DEF FieldsNext

\* When parse_fields returns, source has passed everything.
LEMMA AllStarted ==
  ASSUME PlaceInv, ~parsing
  PROVE  Started(from) = Stretches(Apart)
<1>1. /\ Len(text) \in Nat /\ from \in 1 .. Len(text) + 1
      /\ \A k \in from .. Len(text) : text[k] \in Apart
  BY TextTyped DEF PlaceInv
<1>2. Started(Len(text) + 1) = Started(from)
  BY <1>1, Skips
<1>3. QED BY <1>1, <1>2, StartedAll

LEMMA WordsInvSuffices == PlaceInv /\ WordsInv => WordsFound
<1> SUFFICES ASSUME PlaceInv, WordsInv, into = "words", ~parsing, ~Broken
             PROVE  \A w : Cardinality({i \in DOMAIN out : out[i] = w})
                             = Cardinality({s \in Stretches({"sp", "semi"}) :
                                              SubSeq(text, s[1], s[2]) = w})
  BY DEF WordsFound
<1>1. Started(from) = Stretches(Apart)
  BY AllStarted
<1>2. Len(text) \in Nat /\ \A k \in 1 .. Len(text) : text[k] # "nl"
  BY TextTyped DEF PlaceInv, Broken
<1>3. Stretches(Apart) = Stretches({"sp", "semi"})
  BY <1>2 DEF Stretches, Apart
<1>4. QED BY <1>1, <1>3 DEF WordsInv, Times, Among

\* Parsing into words finds every word of a value on one line, as often as it is there.
THEOREM EveryWordIsFound == FieldsSpec => []WordsFound
<1>1. FieldsInit => PlaceInv /\ RoundsInv /\ WordsInv
  BY PlaceInvInit, WordsInvInit
<1>2. PlaceInv /\ RoundsInv /\ WordsInv /\ [FieldsNext]_fieldsVars
        => PlaceInv' /\ RoundsInv' /\ WordsInv'
  BY PlaceInvStep, WordsInvStep
<1>3. PlaceInv /\ WordsInv => WordsFound
  BY WordsInvSuffices
<1>4. QED BY <1>1, <1>2, <1>3, PTL DEF FieldsSpec
-------------------------------------------------------------------------------
\* A map of the vector, or the one that is being filled, has a keyword, or its value.
HasKey(x) ==
  \/ \E i \in DOMAIN out : x \in DOMAIN out[i]
  \/ to # 0 /\ x \in DOMAIN keys
HasPair(k) ==
  \/ \E i \in DOMAIN out : k.key \in DOMAIN out[i] /\ out[i][k.key] = k.value
  \/ to # 0 /\ k.key \in DOMAIN keys /\ keys[k.key] = k.value

\* A later pair that source has passed gives the keyword another value.
Superseded(s, S) ==
  \E t \in S : Keyword(t).sets /\ Keyword(t).key = Keyword(s).key /\ t[1] > s[1]

\* The maps have the keywords that source has passed.
MapsInv ==
  into = "maps" =>
    /\ out \in Seq(Range(out))
    /\ \A x : HasKey(x) <=> \E s \in Started(from) : Keyword(s).key = x
    /\ \A s \in Started(from) :
         Keyword(s).sets => HasPair(Keyword(s)) \/ Superseded(s, Started(from))

LEMMA MapsInvInit == FieldsInit => MapsInv
<1> SUFFICES ASSUME FieldsInit PROVE MapsInv
  OBVIOUS
<1>1. Started(1) = {}
  BY TextTyped, StartedAll DEF FieldsInit
<1>2. out = <<>> /\ from = 1 /\ to = 0
  BY DEF FieldsInit
<1>3. <<>> \in Seq(Range(<<>>)) /\ DOMAIN <<>> = {}
  OBVIOUS
<1>4. QED BY <1>1, <1>2, <1>3 DEF MapsInv, HasKey

\* Nothing is lost where only separators are passed and the maps have the same in them.
LEMMA MapsKept ==
  ASSUME MapsInv, text' = text, into' = into, into = "maps",
         Started(from') = Started(from), out' \in Seq(Range(out')),
         \A x : HasKey(x)' <=> HasKey(x),
         \A k : HasPair(k) => HasPair(k)'
  PROVE  MapsInv'
<1>1. Started(from)' = Started(from)
  BY StartedStays
<1>2. \A s : Keyword(s)' = Keyword(s)
  BY DEF Keyword
<1>3. \A s, S : Superseded(s, S)' <=> Superseded(s, S)
  BY <1>2 DEF Superseded
<1>4. QED BY <1>1, <1>2, <1>3 DEF MapsInv

\* What parse_tomap does with a pair or a keyword.
LEMMA PairTakes ==
  ASSUME PlaceInv, Pair
  PROVE  \E s : /\ Started(from') = Started(from) \cup {s}
                /\ \A t \in Started(from) : t[1] < s[1]
                /\ keys' = SetKey(keys, Keyword(s).key, Keyword(s).sets, Keyword(s).value)
<1> DEFINE b == SegmentStart
           e == UpTo(SubSeq(text, 1, to - 1), b, Separators)
           s == <<b, e - 1>>
<1>1. to # 0 /\ b < to /\ from' = e
  BY DEF Pair
<1>2. keys' = SetKey(keys, Keyword(s).key, Keyword(s).sets, Keyword(s).value)
  BY DEF Pair, Keyword
<1>3. /\ b \in from .. to /\ e \in b .. to
      /\ \A k \in from .. b - 1 : text[k] \in Separators
      /\ text[b] \notin Separators
      /\ \A k \in b .. e - 1 : text[k] \notin Separators
      /\ e < to => text[e] \in Separators
  BY <1>1, SegmentFinds
<1> HIDE DEF b, e
<1>4. Len(text) \in Nat /\ from \in 1 .. Len(text) + 1 /\ to \in 1 .. Len(text) + 1
  BY <1>1, TextTyped DEF PlaceInv
<1>5. /\ into = "maps" /\ from <= to
      /\ \A k \in from .. to - 1 : text[k] \notin {"semi", "nl"}
      /\ to <= Len(text) => text[to] \in {"semi", "nl"}
  BY <1>1 DEF PlaceInv, InField
<1>6. Apart = {"sp", "comma", "semi", "nl"} /\ Separators = {"sp", "comma", "nl"}
  BY <1>5 DEF Apart, Separators
<1>7. /\ b \in 1 .. Len(text) /\ e \in b + 1 .. Len(text) + 1
      /\ \A k \in from .. b - 1 : text[k] \in Apart
      /\ \A k \in b .. e - 1 : text[k] \notin Apart
      /\ e <= Len(text) => text[e] \in Apart
  <2>1. b \in 1 .. Len(text) /\ e \in b + 1 .. Len(text) + 1
    BY <1>1, <1>3, <1>4
  <2>2. \A k \in from .. b - 1 : text[k] \in Apart
    BY <1>3, <1>6
  <2>3. \A k \in b .. e - 1 : text[k] \notin Apart
    BY <1>3, <1>4, <1>5, <1>6
  <2>4. e <= Len(text) => text[e] \in Apart
    BY <1>3, <1>4, <1>5, <1>6
  <2>5. QED BY <2>1, <2>2, <2>3, <2>4
<1>8. b = 1 \/ text[b - 1] \in Apart
  <2>1. CASE b = from
    <3>1. text[b] \notin Apart /\ b # Len(text) + 1
      BY <1>4, <1>7
    <3>2. QED BY <2>1, <3>1 DEF PlaceInv, AtEdge
  <2>2. CASE b # from
    <3>1. b - 1 \in from .. b - 1
      BY <1>3, <1>4, <2>2
    <3>2. QED BY <1>7, <3>1
  <2>3. QED BY <2>1, <2>2
<1>9. Started(b) = Started(from)
  BY <1>3, <1>4, <1>7, Skips
<1>10. Started(e) = Started(b) \cup {s}
  BY <1>4, <1>7, <1>8, Takes
<1>11. \A t \in Started(from) : t[1] < s[1]
  BY <1>9 DEF Started
<1>12. QED BY <1>1, <1>2, <1>9, <1>10, <1>11

\* The maps after a pair or a keyword.
LEMMA MapsInvPair ==
  ASSUME PlaceInv, MapsInv, Pair, text' = text, into' = into, into = "maps"
  PROVE  MapsInv'
<1>1. /\ to # 0 /\ to' = to /\ out' = out
  BY DEF Pair
<1>2. PICK s : /\ Started(from') = Started(from) \cup {s}
               /\ \A t \in Started(from) : t[1] < s[1]
               /\ keys' = SetKey(keys, Keyword(s).key, Keyword(s).sets, Keyword(s).value)
  BY PairTakes
<1>3. Started(from)' = Started(from) \cup {s}
  BY <1>2, StartedStays
<1>4. \A t : Keyword(t)' = Keyword(t)
  BY DEF Keyword
<1> DEFINE K == Keyword(s)
<1>5. /\ DOMAIN keys' = DOMAIN keys \cup {K.key}
      /\ \A k \in DOMAIN keys : k # K.key \/ ~K.sets => keys'[k] = keys[k]
      /\ K.sets => keys'[K.key] = K.value
  <2>1. keys' = SetKey(keys, K.key, K.sets, K.value)
    BY <1>2
  <2> HIDE DEF K
  <2>2. DOMAIN keys' = DOMAIN keys \cup {K.key}
    BY <2>1 DEF SetKey
  <2>3. \A k \in DOMAIN keys : k # K.key \/ ~K.sets => keys'[k] = keys[k]
    BY <2>1 DEF SetKey
  <2>4. K.sets => keys'[K.key] = K.value
    BY <2>1 DEF SetKey
  <2>5. QED BY <2>2, <2>3, <2>4
<1>6. \A x : HasKey(x)' <=> HasKey(x) \/ x = K.key
  BY <1>1, <1>5 DEF HasKey
<1>7. ASSUME NEW k, HasPair(k), k.key # K.key \/ ~K.sets
      PROVE  HasPair(k)'
  BY <1>1, <1>5, <1>7 DEF HasPair
<1>8. K.sets => HasPair(K)'
  BY <1>1, <1>4, <1>5 DEF HasPair
<1>9. \A t, S, T : Superseded(t, S) /\ S \subseteq T => Superseded(t, T)
  BY DEF Superseded
<1>10. \A t, S : Superseded(t, S)' <=> Superseded(t, S)
  BY <1>4 DEF Superseded
<1>11. ASSUME NEW t \in Started(from)', Keyword(t)'.sets
       PROVE  HasPair(Keyword(t))' \/ Superseded(t, Started(from))'
  <2>1. CASE t = s
    BY <1>4, <1>8, <1>11, <2>1
  <2>2. CASE t \in Started(from) /\ HasPair(Keyword(t))
    <3>1. CASE Keyword(t).key = K.key /\ K.sets
      <4>1. Superseded(t, Started(from) \cup {s})
        BY <1>2, <2>2, <3>1 DEF Superseded
      <4>2. QED BY <1>3, <1>10, <4>1
    <3>2. CASE ~(Keyword(t).key = K.key /\ K.sets)
      BY <1>4, <1>7, <2>2, <3>2
    <3>3. QED BY <3>1, <3>2
  <2>3. CASE t \in Started(from) /\ Superseded(t, Started(from))
    BY <1>3, <1>9, <1>10, <2>3
  <2>4. t = s \/ t \in Started(from)
    BY <1>3
  <2>5. t \in Started(from) => HasPair(Keyword(t)) \/ Superseded(t, Started(from))
    BY <1>4, <1>11 DEF MapsInv
  <2>6. QED BY <2>1, <2>2, <2>3, <2>4, <2>5
<1>12. \A x : HasKey(x)' <=> \E t \in Started(from)' : Keyword(t)'.key = x
  BY <1>3, <1>4, <1>6 DEF MapsInv
<1>13. QED BY <1>1, <1>11, <1>12 DEF MapsInv

\* The maps after parse_tomap: its map is in the vector, if there is something in it.
LEMMA MapsInvEndMap ==
  ASSUME PlaceInv, MapsInv, EndMap, text' = text, into' = into, into = "maps"
  PROVE  MapsInv'
<1>1. /\ to # 0 /\ SegmentStart >= to /\ from' = to /\ to' = 0
      /\ out' = IF DOMAIN keys = {} THEN out ELSE Append(out, keys)
  BY DEF EndMap
<1>2. Started(from') = Started(from)
  <2>1. Len(text) \in Nat /\ from \in 1 .. Len(text) + 1 /\ to \in 1 .. Len(text) + 1
    BY <1>1, TextTyped DEF PlaceInv
  <2>2. SegmentStart \in from .. to
        /\ \A k \in from .. SegmentStart - 1 : text[k] \in Separators
    BY <1>1, SegmentFinds
  <2> DEFINE b == SegmentStart
  <2> HIDE DEF b
  <2>3. b >= to /\ b \in from .. to /\ \A k \in from .. b - 1 : text[k] \in Separators
    BY <1>1, <2>2 DEF b
  <2>4. to \in from .. Len(text) + 1 /\ \A k \in from .. to - 1 : text[k] \in Apart
    BY <2>1, <2>3 DEF Apart, Separators
  <2>5. QED BY <1>1, <2>1, <2>4, Skips
<1>3. out \in Seq(Range(out))
  BY DEF MapsInv
<1>4. CASE DOMAIN keys = {}
  <2>1. out' = out
    BY <1>1, <1>4
  <2>2. \A x : HasKey(x)' <=> HasKey(x)
    BY <1>1, <1>4, <2>1 DEF HasKey
  <2>3. \A k : HasPair(k) => HasPair(k)'
    BY <1>1, <1>4, <2>1 DEF HasPair
  <2>4. QED BY <1>2, <1>3, <2>1, <2>2, <2>3, MapsKept
<1>5. CASE DOMAIN keys # {}
  <2>1. out' = Append(out, keys)
    BY <1>1, <1>5
  <2>2. /\ out' \in Seq(Range(out')) /\ Len(out) \in Nat /\ DOMAIN out = 1 .. Len(out)
        /\ DOMAIN out' = 1 .. Len(out) + 1
        /\ \A i \in 1 .. Len(out) : out'[i] = out[i]
        /\ out'[Len(out) + 1] = keys
    BY <1>3, <2>1, Appends
  <2>3. DOMAIN out' = DOMAIN out \cup {Len(out) + 1}
    BY <2>2
  <2>4. \A x : HasKey(x)' <=> HasKey(x)
    BY <1>1, <2>2, <2>3 DEF HasKey
  <2>5. \A k : HasPair(k) => HasPair(k)'
    BY <1>1, <2>2, <2>3 DEF HasPair
  <2>6. QED BY <1>2, <2>2, <2>4, <2>5, MapsKept
<1>6. QED BY <1>4, <1>5

\* MapsInv is inductive.
LEMMA MapsInvStep ==
  ASSUME PlaceInv, MapsInv, [FieldsNext]_fieldsVars
  PROVE  MapsInv'
<1>1. text' = text /\ into' = into
  BY TextStays
<1>2. CASE into # "maps"
  BY <1>1, <1>2 DEF MapsInv
<1>3. CASE into = "maps" /\ StartMap
  <2>1. PICK b \in 1 .. Len(text) + 1, e \in 1 .. Len(text) + 1 :
          Round(b, e) /\ from' = b /\ to' = e
    BY <1>3 DEF StartMap
  <2>2. keys' = <<>> /\ out' = out /\ to = 0
    BY <1>3, <2>1 DEF StartMap, Round
  <2>3. Started(from') = Started(from)
    <3>1. Len(text) \in Nat /\ from \in 1 .. Len(text) + 1
      BY TextTyped DEF PlaceInv
    <3>2. b \in from .. Len(text) /\ \A k \in from .. b - 1 : text[k] \in Skipped
      BY <2>1, RoundFinds
    <3>3. \A k \in from .. b - 1 : text[k] \in Apart
      BY <1>3, <3>2 DEF Skipped, Apart
    <3>4. QED BY <2>1, <3>1, <3>2, <3>3, Skips
  <2>4. out \in Seq(Range(out))
    BY <1>3 DEF MapsInv
  <2>5. DOMAIN <<>> = {}
    OBVIOUS
  <2>6. \A x : HasKey(x)' <=> HasKey(x)
    BY <2>2, <2>5 DEF HasKey
  <2>7. \A k : HasPair(k) => HasPair(k)'
    BY <2>2 DEF HasPair
  <2>8. QED BY <1>1, <1>3, <2>2, <2>3, <2>4, <2>6, <2>7, MapsKept
<1>4. CASE into = "maps" /\ Pair
  BY <1>1, <1>4, MapsInvPair
<1>5. CASE into = "maps" /\ EndMap
  BY <1>1, <1>5, MapsInvEndMap
<1>6. CASE into = "maps" /\ UNCHANGED <<from, to, keys, out>>
  <2>1. Started(from') = Started(from)
    BY <1>6
  <2>2. out' \in Seq(Range(out'))
    BY <1>6 DEF MapsInv
  <2>3. \A x : HasKey(x)' <=> HasKey(x)
    BY <1>6 DEF HasKey
  <2>4. \A k : HasPair(k) => HasPair(k)'
    BY <1>6 DEF HasPair
  <2>5. QED BY <1>1, <1>6, <2>1, <2>2, <2>3, <2>4, MapsKept
<1>7. Word => into # "maps"
  BY DEF Word
<1>8. Return \/ UNCHANGED fieldsVars => UNCHANGED <<from, to, keys, out>>
  BY DEF Return, fieldsVars
<1>9. QED BY <1>2, <1>3, <1>4, <1>5, <1>6, <1>7, <1>8 DEF FieldsNext

LEMMA MapsInvSuffices == PlaceInv /\ MapsInv => MapsHaveKeywords
<1> SUFFICES ASSUME PlaceInv, MapsInv, into = "maps", ~parsing
             PROVE  MapsHaveKeywords
  BY DEF MapsHaveKeywords
<1>1. to = 0
  BY DEF PlaceInv, InField
<1>2. Apart = {"sp", "comma", "semi", "nl"}
  BY DEF Apart
<1>3. Started(from) = Stretches({"sp", "comma", "semi", "nl"})
  BY <1>2, AllStarted
<1> DEFINE S == Stretches({"sp", "comma", "semi", "nl"})
<1>4. /\ \A x : (\E i \in DOMAIN out : x \in DOMAIN out[i])
                  <=> \E s \in S : Keyword(s).key = x
      /\ \A s \in S : Keyword(s).sets =>
           \/ \E i \in DOMAIN out :
                Keyword(s).key \in DOMAIN out[i] /\ out[i][Keyword(s).key] = Keyword(s).value
           \/ \E t \in S : Keyword(t).sets /\ Keyword(t).key = Keyword(s).key /\ t[1] > s[1]
  BY <1>1, <1>3 DEF MapsInv, HasKey, HasPair, Superseded
<1>5. \A s : Keyword(s).at = s[1]
  BY DEF Keyword
<1>6. Keywords = {Keyword(s) : s \in S}
  BY DEF Keywords
<1> HIDE DEF S
<1>7. UNION {DOMAIN out[i] : i \in DOMAIN out} = {k.key : k \in Keywords}
  BY <1>4, <1>6
<1>8. ASSUME NEW k \in Keywords, k.sets
      PROVE  \/ \E i \in DOMAIN out : k.key \in DOMAIN out[i] /\ out[i][k.key] = k.value
             \/ \E later \in Keywords : later.sets /\ later.key = k.key /\ later.at > k.at
  <2>1. PICK s \in S : k = Keyword(s)
    BY <1>6
  <2>2. QED BY <1>4, <1>5, <1>6, <1>8, <2>1
<1>9. QED BY <1>7, <1>8 DEF MapsHaveKeywords

\* Parsing into maps finds every keyword of a value, and the value it has last.
THEOREM EveryKeywordIsFound == FieldsSpec => []MapsHaveKeywords
<1>1. FieldsInit => PlaceInv /\ RoundsInv /\ MapsInv
  BY PlaceInvInit, MapsInvInit
<1>2. PlaceInv /\ RoundsInv /\ MapsInv /\ [FieldsNext]_fieldsVars
        => PlaceInv' /\ RoundsInv' /\ MapsInv'
  BY PlaceInvStep, MapsInvStep
<1>3. PlaceInv /\ MapsInv => MapsHaveKeywords
  BY MapsInvSuffices
<1>4. QED BY <1>1, <1>2, <1>3, PTL DEF FieldsSpec
===============================================================================
