-------------------------------- MODULE Fields ---------------------------------
(***************************************************************************)
(* parse.hpp: the parsing of header values into words (Transfer-Encoding)  *)
(* and into a vector of maps of keywords (Accept-Encoding).  The text is a *)
(* sequence of characters: "nl" is CR or LF, "sp" blank or tab, and "semi",*)
(* "comma" and "eq" are what they are named after.                         *)
(***************************************************************************)
EXTENDS Integers, SequencesExt

CONSTANT Text  \* the values to be parsed

ASSUME FieldsAssumption == \A t \in Text : t \in Seq(Range(t))

VARIABLES text,    \* source as it was passed
          into,    \* "words": a set; "maps": a vector of maps
          from,    \* where source points, in parse_tomap its own
          to,      \* in parse_tomap: where the field ends; 0 elsewhere
          keys,    \* the map that parse_tomap fills
          out,     \* what is put into the container, in order: words or maps
          rounds,  \* history: of the loops of parse_fields and parse_tomap
          parsing

fieldsVars == <<text, into, from, to, keys, out, rounds, parsing>>

\* strspn and strcspn: the first position from i on whose character is not, or
\* is, in the set; the one behind the end if there is none.
Span(s, i, set) ==
  CHOOSE j \in i .. Len(s) + 1 :
    /\ \A k \in i .. j - 1 : s[k] \in set
    /\ j <= Len(s) => s[j] \notin set
UpTo(s, i, set) ==
  CHOOSE j \in i .. Len(s) + 1 :
    /\ \A k \in i .. j - 1 : s[k] \notin set
    /\ j <= Len(s) => s[j] \in set

FieldsInit ==
  /\ text \in Text /\ into \in {"words", "maps"}
  /\ from = 1 /\ to = 0 /\ keys = <<>> /\ out = <<>> /\ rounds = 0 /\ parsing = TRUE

\* Mutant of SetKey: a keyword alone makes its value anew.
SetKeyAnew(m, key, sets, value) ==
  [k \in DOMAIN m \cup {key} |-> IF k = key THEN value ELSE m[k]]

\* map[key] = value, or (sets is FALSE) map[key], which leaves the value there is.
\* Keys are compared up to the NUL that '=' became.
SetKey(m, key, sets, value) ==
  [k \in DOMAIN m \cup {key} |->
     IF k # key \/ (~sets /\ k \in DOMAIN m) THEN m[k] ELSE value]

\* Mutant of Skipped: the semicolon that ended a field is not skipped.
SkipBlanks == {"sp"}

\* What parse_fields skips before a field.
Skipped == IF into = "words" THEN {"sp", "semi"} ELSE {"sp", "semi", "nl"}

\* Mutant of Ends: a blank does not end a word.
EndsAtSemicolon == {"semi", "nl"}

\* What ends a field.
Ends == IF into = "words" THEN {"sp", "semi", "nl"} ELSE {"semi", "nl"}

\* bound: more rounds than two for each character are endless
NextRound == rounds <= 2 * Len(text) /\ rounds' = rounds + 1

\* A round of the loop of parse_fields starts: the next field is from b to e - 1.
Round(b, e) ==
  /\ parsing /\ to = 0
  /\ b = Span(text, from, Skipped) /\ b <= Len(text)
  /\ e = UpTo(text, b, Ends)
  /\ NextRound
  /\ UNCHANGED <<text, into, parsing>>

\* A word that is not empty is inserted.  out has the insertions in their order; a
\* container that holds a word once, as the server's set does, whatever its case
\* (server.cpp:38), keeps the first of those that are alike.
Word ==
  /\ into = "words"
  /\ \E b, e \in 1 .. Len(text) + 1 :
       /\ Round(b, e)
       /\ from' = e
       /\ out' = IF e = b THEN out ELSE Append(out, SubSeq(text, b, e - 1))
  /\ UNCHANGED <<to, keys>>

\* A new map for a field is passed to parse_tomap.
StartMap ==
  /\ into = "maps"
  /\ \E b, e \in 1 .. Len(text) + 1 :
       Round(b, e) /\ from' = b /\ to' = e
  /\ keys' = <<>>
  /\ UNCHANGED out

Separators == {"sp", "comma", "nl"}

\* Where the next segment of the field begins.
SegmentStart == Span(SubSeq(text, 1, to - 1), from, Separators)

\* parse_tomap: a pair or a keyword.
Pair ==
  LET b == SegmentStart
      e == UpTo(SubSeq(text, 1, to - 1), b, Separators)
      segment == SubSeq(text, b, e - 1)
      v == UpTo(segment, 1, {"eq"})
  IN  /\ to # 0 /\ b < to /\ NextRound
      /\ keys' = SetKey(keys, SubSeq(segment, 1, v - 1), v <= Len(segment),
                        SubSeq(segment, v + 1, Len(segment)))
      /\ from' = e
      /\ UNCHANGED <<text, into, to, out, parsing>>

\* parse_tomap has returned: a map that is empty is taken out of the vector again.
EndMap ==
  /\ to # 0 /\ SegmentStart >= to
  /\ out' = IF DOMAIN keys = {} THEN out ELSE Append(out, keys)
  /\ from' = to
  /\ to' = 0
  /\ UNCHANGED <<text, into, keys, rounds, parsing>>

Return ==
  /\ parsing /\ to = 0 /\ Span(text, from, Skipped) > Len(text)
  /\ parsing' = FALSE
  /\ UNCHANGED <<text, into, from, to, keys, out, rounds>>

FieldsNext == Word \/ StartMap \/ Pair \/ EndMap \/ Return

FieldsSpec == FieldsInit /\ [][FieldsNext]_fieldsVars
-------------------------------------------------------------------------------
\* The longest stretches of the text without a separator: first and last position.
Stretches(seps) ==
  {s \in (1 .. Len(text)) \X (1 .. Len(text)) :
     /\ s[1] <= s[2] /\ \A i \in s[1] .. s[2] : text[i] \notin seps
     /\ s[1] = 1 \/ text[s[1] - 1] \in seps
     /\ s[2] = Len(text) \/ text[s[2] + 1] \in seps}
Broken == \E i \in DOMAIN text : text[i] = "nl"

\* A value on one line gives its words, each as often as it is in the text.
WordsFound ==
  into = "words" /\ ~parsing /\ ~Broken =>
    \A w \in Range(out) \cup {SubSeq(text, s[1], s[2]) : s \in Stretches({"sp", "semi"})} :
      Cardinality({i \in DOMAIN out : out[i] = w})
        = Cardinality({s \in Stretches({"sp", "semi"}) : SubSeq(text, s[1], s[2]) = w})

\* A pair key=value in the text, or a keyword alone.
Keyword(s) ==
  LET w == SubSeq(text, s[1], s[2])
      v == UpTo(w, 1, {"eq"})
  IN  [key |-> SubSeq(w, 1, v - 1), sets |-> v <= Len(w),
       value |-> SubSeq(w, v + 1, Len(w)), at |-> s[1]]
Keywords == {Keyword(s) : s \in Stretches({"sp", "comma", "semi", "nl"})}

\* A vector of maps has the keywords of the text, and each value that the text
\* gives, unless a later pair gives another one: a keyword alone takes none away.
MapsHaveKeywords ==
  into = "maps" /\ ~parsing =>
    /\ UNION {DOMAIN out[i] : i \in DOMAIN out} = {k.key : k \in Keywords}
    /\ \A k \in Keywords : k.sets =>
         \/ \E i \in DOMAIN out : k.key \in DOMAIN out[i] /\ out[i][k.key] = k.value
         \/ \E later \in Keywords : later.sets /\ later.key = k.key /\ later.at > k.at

\* Parsing ends, if the words are on one line as header values are: each round of
\* either loop gets on in the text.  Into words the loop does not skip the CR or LF at
\* which a word ends (parse.hpp:46, 50), and meets it again in each round.
ParsingEnds == into = "maps" \/ ~Broken => rounds <= 2 * Len(text)
===============================================================================
