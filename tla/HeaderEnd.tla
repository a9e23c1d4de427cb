------------------------------- MODULE HeaderEnd -------------------------------
(***************************************************************************)
(* httpbuf.cpp, HttpBuf::have_end: the search for the end of a header in a *)
(* buffer that grows between its calls, and HttpBuf::read_header's loop    *)
(* around it.  The scanner keeps its state across the reads in which the   *)
(* header arrives and across the blocks in which it takes the buffer.      *)
(***************************************************************************)
EXTENDS Integers, Sequences

CONSTANTS Length,    \* bound on the text
          ScanBlock  \* sizeof buf: the most the scanner takes at a time

ASSUME HeaderEndAssumption ==
  /\ Length \in Nat
  /\ ScanBlock \in Nat \ {0}

Char == {"CR", "LF", "other"}
ScanState == {"S0CR1", "S0LF1", "S0CR2", "S0LF2", "S1LF2"}

VARIABLES
  text,   \* what is in the stream
  state,  \* of the scanner
  epos,   \* hdr_epos: where the block starts; when found, where the end starts
  elen,   \* hdr_elen: length of the end, 0 until it is found
  n,      \* length of the block being scanned, 0 between blocks
  x       \* index in the block of the next character

headerEndVars == <<text, state, epos, elen, n, x>>

HeaderEndInit ==
  /\ text = <<>>
  /\ state = "S0CR1"
  /\ epos = 0
  /\ elen = 0
  /\ n = 0
  /\ x = 0

\* read_header: the end is not in the buffer, so read and append some.
Receive(m) ==
  /\ elen = 0 /\ n = 0
  /\ epos = Len(text)
  /\ Len(text) + m <= Length
  /\ \E s \in [1 .. m -> Char] : text' = text \o s
  /\ UNCHANGED <<state, epos, elen, n, x>>

\* have_end takes what there is after hdr_epos, as far as it has room.
TakeBlock ==
  /\ elen = 0 /\ n = 0
  /\ epos < Len(text)
  /\ n' = IF Len(text) - epos < ScanBlock THEN Len(text) - epos ELSE ScanBlock
  /\ x' = 0
  /\ UNCHANGED <<text, state, epos, elen>>

\* Mutant of Completes: any second \n ends the header.
CompletesEarly(q, ch) == q \in {"S0LF1", "S0LF2", "S1LF2"} /\ ch = "LF"

\* The character at x ends the header.
Completes(q, ch) == q \in {"S0LF2", "S1LF2"} /\ ch = "LF"

\* Mutant of NextState: \n\n is not looked for.
NextStateCrLf(q, ch) ==
  CASE q = "S0CR1" /\ ch = "CR" -> "S0LF1"
    [] q = "S0LF1" /\ ch = "LF" -> "S0CR2"
    [] q = "S0CR2" /\ ch = "CR" -> "S0LF2"
    [] OTHER -> "S0CR1"

\* The state after a character that does not.
NextState(q, ch) ==
  CASE q = "S0CR1" /\ ch = "CR" -> "S0LF1"
    [] q = "S0CR1" /\ ch = "LF" -> "S1LF2"
    [] q = "S0LF1" /\ ch = "LF" -> "S0CR2"
    [] q = "S0CR2" /\ ch = "CR" -> "S0LF2"
    [] OTHER -> "S0CR1"

\* Mutant of EndStart: off by one.
EndStartBefore(len) == epos + x - len

\* Where an end of that length starts whose last character is at x.
EndStart(len) == epos + x - len + 1

Scan ==
  LET ch == text[epos + x + 1] IN
  /\ elen = 0
  /\ x < n
  /\ IF Completes(state, ch)
     THEN /\ elen' = IF state = "S0LF2" THEN 4 ELSE 2
          /\ epos' = EndStart(elen')
          /\ UNCHANGED <<state, x>>
     ELSE /\ state' = NextState(state, ch)
          /\ x' = x + 1
          /\ UNCHANGED <<elen, epos>>
  /\ UNCHANGED <<text, n>>

\* The block holds no end.
EndBlock ==
  /\ elen = 0
  /\ n > 0 /\ x = n
  /\ epos' = epos + n
  /\ n' = 0
  /\ x' = 0
  /\ UNCHANGED <<text, state, elen>>

\* reset, of the scanner's variables and the stream.
ResetScan ==
  /\ text' = <<>>
  /\ state' = "S0CR1"
  /\ epos' = 0 /\ elen' = 0
  /\ n' = 0 /\ x' = 0

HeaderEndNext ==
  \/ \E m \in 1 .. Length : Receive(m)
  \/ TakeBlock \/ Scan \/ EndBlock

HeaderEndSpec == HeaderEndInit /\ [][HeaderEndNext]_headerEndVars
-------------------------------------------------------------------------------
\* The text has "\r\n\r\n", or "\n\n", after its first i characters.
CrLfCrLf(i) ==
  text[i + 1] = "CR" /\ text[i + 2] = "LF" /\ text[i + 3] = "CR" /\ text[i + 4] = "LF"
LfLf(i) == text[i + 1] = "LF" /\ text[i + 2] = "LF"

HeaderEndTypeOK ==
  /\ text \in Seq(Char) /\ Len(text) <= Length
  /\ state \in ScanState
  /\ epos \in 0 .. Length
  /\ elen \in {0, 2, 4}
  /\ n \in 0 .. ScanBlock
  /\ x \in 0 .. n

\* What is found is the end of a header and hdr_epos, hdr_elen say where it
\* is, however the reads and the blocks cut the text.
FoundIsEnd ==
  /\ elen = 4 => epos + 4 <= Len(text) /\ CrLfCrLf(epos)
  /\ elen = 2 => epos + 2 <= Len(text) /\ LfLf(epos)

\* The first k characters hold no end.
NoEndIn(k) ==
  \A i \in 0 .. k - 2 : ~LfLf(i) /\ (i + 4 <= k => ~CrLfCrLf(i))

\* "Test if the std::stringstream has the http end header sequence \r\n\r\n
\* or \n\n" (httpbuf.cpp:28-29): if it has, have_end does not answer no.
EndIsFound ==
  elen = 0 /\ n = 0 /\ epos = Len(text) => NoEndIn(Len(text))

\* A header of lines that all end in \r\n or all in \n, with no other CR or LF:
\* what a client that keeps to the protocol, or to its lenient form, sends.
CrBeforeLf == \A i \in 1 .. Len(text) :
  /\ text[i] = "LF" => i > 1 /\ text[i - 1] = "CR"
  /\ text[i] = "CR" /\ i < Len(text) => text[i + 1] = "LF"
NoCr == \A i \in 1 .. Len(text) : text[i] # "CR"

\* In such a header the end is found.
PlainEndIsFound == CrBeforeLf \/ NoCr => EndIsFound

\* The characters the scanner has taken: how many, and what its state says of
\* the last ones.
Pos == epos + x
StateFits ==
  /\ state = "S0LF1" => Pos >= 1 /\ text[Pos] = "CR"
  /\ state = "S0CR2" => Pos >= 2 /\ text[Pos - 1] = "CR" /\ text[Pos] = "LF"
  /\ state = "S0LF2" =>
       Pos >= 3 /\ text[Pos - 2] = "CR" /\ text[Pos - 1] = "LF" /\ text[Pos] = "CR"
  /\ state = "S1LF2" => Pos >= 1 /\ text[Pos] = "LF"

HeaderEndInv ==
  /\ HeaderEndTypeOK
  /\ elen = 0 => epos + n <= Len(text) /\ StateFits
  /\ FoundIsEnd

\* In a well-formed text more is known: what the state is, and that no end has
\* been passed over.
StateOfCrLf ==
  IF Pos = 0 \/ text[Pos] = "other" THEN "S0CR1"
  ELSE IF text[Pos] = "LF" THEN "S0CR2"
  ELSE IF Pos > 1 /\ text[Pos - 1] = "LF" THEN "S0LF2" ELSE "S0LF1"
StateOfLf == IF Pos > 0 /\ text[Pos] = "LF" THEN "S1LF2" ELSE "S0CR1"

PlainInv ==
  elen = 0 =>
    /\ CrBeforeLf => state = StateOfCrLf /\ NoEndIn(Pos)
    /\ NoCr => state = StateOfLf /\ NoEndIn(Pos)
===============================================================================
