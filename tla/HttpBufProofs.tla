---------------------------- MODULE HttpBufProofs -----------------------------
(***************************************************************************)
(* What have_end finds is the end of a header, for every text, however it  *)
(* arrives and whatever the size of the scanner's block; HttpBuf::write    *)
(* reports as written what was written; and over the requests of a         *)
(* connection the buffers keep what each of them has by itself: for any    *)
(* length of texts, any size of the blocks, any reads and any partial      *)
(* writes.                                                                 *)
(***************************************************************************)
EXTENDS HttpBuf, HttpBodyProofs

\* A read adds to the text and leaves what there was.
LEMMA ReceiveAppends ==
  ASSUME HeaderEndTypeOK, NEW m \in 1 .. Length, Receive(m)
  PROVE  /\ text' \in Seq(Char) /\ Len(text') = Len(text) + m
         /\ \A i \in 1 .. Len(text) : text'[i] = text[i]
<1>1. PICK s \in [1 .. m -> Char] : text' = text \o s
  BY DEF Receive
<1>2. s \in Seq(Char) /\ Len(s) = m
  <2>1. m \in Nat
    BY HeaderEndAssumption
  <2>2. s \in UNION {[1 .. k -> Char] : k \in Nat}
    BY <2>1
  <2>3. s \in Seq(Char)
    BY <2>2, SeqDef
  <2>4. QED BY <2>1, <2>3, LenProperties
<1>3. text \in Seq(Char)
  BY DEF HeaderEndTypeOK
<1>4. /\ text \o s \in Seq(Char) /\ Len(text \o s) = Len(text) + Len(s)
      /\ \A i \in 1 .. Len(text) + Len(s) :
           (text \o s)[i] = IF i <= Len(text) THEN text[i] ELSE s[i - Len(text)]
  BY <1>2, <1>3, ConcatProperties
<1>5. Len(text) \in Nat /\ m \in Nat
  BY <1>3, LenProperties, HeaderEndAssumption
<1>6. \A i \in 1 .. Len(text) : (text \o s)[i] = text[i]
  BY <1>2, <1>4, <1>5
<1>7. QED BY <1>1, <1>2, <1>4, <1>6

LEMMA HeaderEndInvInit == HeaderEndInit => HeaderEndInv
BY HeaderEndAssumption
DEF HeaderEndInit, HeaderEndInv, HeaderEndTypeOK, ScanState, StateFits, FoundIsEnd

LEMMA HeaderEndInvStep == HeaderEndInv /\ [HeaderEndNext]_headerEndVars => HeaderEndInv'
<1> SUFFICES ASSUME HeaderEndInv, [HeaderEndNext]_headerEndVars
             PROVE  HeaderEndInv'
  OBVIOUS
<1> USE HeaderEndAssumption DEF HeaderEndInv, HeaderEndTypeOK, ScanState
<1>1. ASSUME NEW m \in 1 .. Length, Receive(m) PROVE HeaderEndInv'
  <2>1. /\ elen = 0 /\ n = 0 /\ epos = Len(text) /\ Len(text) + m <= Length
        /\ UNCHANGED <<state, epos, elen, n, x>>
    BY <1>1 DEF Receive
  <2>2. /\ text' \in Seq(Char) /\ Len(text') = Len(text) + m
        /\ \A i \in 1 .. Len(text) : text'[i] = text[i]
    BY <1>1, ReceiveAppends
  <2>3. StateFits'
    <3>1. StateFits /\ Pos \in Nat /\ Pos <= Len(text)
      BY <2>1 DEF Pos
    <3>2. Pos' = Pos /\ state' = state
      BY <2>1 DEF Pos
    <3>3. /\ Pos >= 1 => text'[Pos] = text[Pos]
          /\ Pos >= 2 => text'[Pos - 1] = text[Pos - 1]
          /\ Pos >= 3 => text'[Pos - 2] = text[Pos - 2]
      BY <2>2, <3>1
    <3>4. QED BY <3>1, <3>2, <3>3 DEF StateFits
  <2>4. QED BY <2>1, <2>2, <2>3 DEF FoundIsEnd
<1>2. CASE TakeBlock
  BY <1>2 DEF TakeBlock, StateFits, Pos, FoundIsEnd
<1>3. CASE Scan
  <2> DEFINE ch == text[epos + x + 1]
  <2>1. /\ elen = 0 /\ x < n /\ epos + n <= Len(text) /\ StateFits
        /\ UNCHANGED <<text, n>>
        /\ Pos \in Nat /\ Pos + 1 <= Len(text) /\ ch = text[Pos + 1] /\ ch \in Char
    BY <1>3 DEF Scan, Pos
  <2>2. CASE Completes(state, ch)
    <3>1. /\ elen' = (IF state = "S0LF2" THEN 4 ELSE 2)
          /\ epos' = Pos - elen' + 1
          /\ UNCHANGED <<state, x>>
      BY <1>3, <2>2 DEF Scan, EndStart, Pos
    <3>2. CASE state = "S0LF2"
      <4>1. epos' = Pos - 3 /\ elen' = 4
        BY <2>1, <3>1, <3>2
      <4>2. Pos >= 3 /\ CrLfCrLf(Pos - 3)
        <5>1. /\ Pos - 3 + 1 = Pos - 2 /\ Pos - 3 + 2 = Pos - 1
              /\ Pos - 3 + 3 = Pos /\ Pos - 3 + 4 = Pos + 1
          BY <2>1
        <5>2. /\ Pos >= 3 /\ text[Pos - 2] = "CR" /\ text[Pos - 1] = "LF"
              /\ text[Pos] = "CR" /\ text[Pos + 1] = "LF"
          BY <2>1, <2>2, <3>2 DEF StateFits, Completes
        <5>3. QED BY <5>1, <5>2 DEF CrLfCrLf
      <4>3. FoundIsEnd'
        BY <2>1, <4>1, <4>2 DEF FoundIsEnd, CrLfCrLf
      <4>4. QED BY <2>1, <3>1, <4>1, <4>2, <4>3
    <3>3. CASE state = "S1LF2"
      <4>1. epos' = Pos - 1 /\ elen' = 2
        BY <2>1, <3>1, <3>3
      <4>2. Pos >= 1 /\ LfLf(Pos - 1)
        <5>1. Pos - 1 + 1 = Pos /\ Pos - 1 + 2 = Pos + 1
          BY <2>1
        <5>2. Pos >= 1 /\ text[Pos] = "LF" /\ text[Pos + 1] = "LF"
          BY <2>1, <2>2, <3>3 DEF StateFits, Completes
        <5>3. QED BY <5>1, <5>2 DEF LfLf
      <4>3. FoundIsEnd'
        BY <2>1, <4>1, <4>2 DEF FoundIsEnd, LfLf
      <4>4. QED BY <2>1, <3>1, <4>1, <4>2, <4>3
    <3>4. QED BY <2>2, <3>2, <3>3 DEF Completes
  <2>3. CASE ~Completes(state, ch)
    <3>1. /\ state' = NextState(state, ch) /\ x' = x + 1
          /\ UNCHANGED <<elen, epos>>
      BY <1>3, <2>3 DEF Scan
    <3>2. state' \in ScanState
      BY <3>1 DEF NextState
    <3>3. Pos' = Pos + 1
      BY <2>1, <3>1 DEF Pos
    <3>4. StateFits'
      <4>1. Pos + 1 - 1 = Pos /\ Pos + 1 - 2 = Pos - 1
        BY <2>1
      <4>2. /\ state' = "S0LF1" => ch = "CR"
            /\ state' = "S0CR2" => state = "S0LF1" /\ ch = "LF"
            /\ state' = "S0LF2" => state = "S0CR2" /\ ch = "CR"
            /\ state' = "S1LF2" => ch = "LF"
        BY <3>1 DEF NextState
      <4>3. QED BY <2>1, <3>3, <4>1, <4>2 DEF StateFits
    <3>5. QED BY <2>1, <3>1, <3>2, <3>4 DEF FoundIsEnd
  <2>4. QED BY <2>2, <2>3
<1>4. CASE EndBlock
  BY <1>4 DEF EndBlock, StateFits, Pos, FoundIsEnd
<1>5. CASE UNCHANGED headerEndVars
  BY <1>5 DEF headerEndVars, StateFits, Pos, FoundIsEnd, CrLfCrLf, LfLf
<1>6. QED BY <1>1, <1>2, <1>3, <1>4, <1>5 DEF HeaderEndNext

\* The scanner's state describes the last characters it took across reads and
\* blocks, so a header end it reports is one, at the offset it reports.
THEOREM FoundIsAnEnd == HeaderEndSpec => []FoundIsEnd
<1>1. HeaderEndInv => FoundIsEnd
  BY DEF HeaderEndInv
<1>2. QED BY <1>1, HeaderEndInvInit, HeaderEndInvStep, PTL DEF HeaderEndSpec

LEMMA PlainInvInit == HeaderEndInit => PlainInv
BY DEF HeaderEndInit, PlainInv, StateOfCrLf, StateOfLf, Pos, NoEndIn

LEMMA PlainInvStep ==
  HeaderEndInv /\ PlainInv /\ [HeaderEndNext]_headerEndVars => PlainInv'
<1> SUFFICES ASSUME HeaderEndInv, PlainInv, [HeaderEndNext]_headerEndVars, elen' = 0
             PROVE  /\ CrBeforeLf' => (state = StateOfCrLf /\ NoEndIn(Pos))'
                    /\ NoCr' => (state = StateOfLf /\ NoEndIn(Pos))'
  BY DEF PlainInv
<1>1. /\ elen = 0 => /\ epos + n <= Len(text) /\ Pos \in 0 .. Len(text)
      /\ text \in Seq(Char) /\ Len(text) \in Nat /\ state \in ScanState
      /\ epos \in Nat /\ n \in Nat /\ x \in Nat /\ x <= n /\ elen \in {0, 2, 4}
  BY HeaderEndAssumption DEF HeaderEndInv, HeaderEndTypeOK, Pos
<1>2. ASSUME NEW m \in 1 .. Length, Receive(m)
      PROVE  /\ CrBeforeLf' => (state = StateOfCrLf /\ NoEndIn(Pos))'
             /\ NoCr' => (state = StateOfLf /\ NoEndIn(Pos))'
  <2>1. /\ Len(text') = Len(text) + m /\ m \in Nat
        /\ \A i \in 1 .. Len(text) : text'[i] = text[i]
    BY <1>2, ReceiveAppends, HeaderEndAssumption DEF HeaderEndInv
  <2>2. elen = 0 /\ Pos' = Pos /\ state' = state
    BY <1>2 DEF Receive, Pos
  <2>3. (CrBeforeLf' => CrBeforeLf) /\ (NoCr' => NoCr)
    <3>1. Len(text) \in Nat /\ Len(text') \in Nat /\ Len(text) <= Len(text')
      BY <1>1, <2>1
    <3>2. \A i \in 1 .. Len(text) : i \in 1 .. Len(text') /\ text'[i] = text[i]
      BY <1>1, <2>1
    <3>3. \A i \in 1 .. Len(text) : i > 1 => i - 1 \in 1 .. Len(text)
      BY <1>1
    <3>4. CrBeforeLf' => CrBeforeLf
      BY <3>1, <3>2, <3>3 DEF CrBeforeLf
    <3>5. NoCr' => NoCr
      BY <3>2 DEF NoCr
    <3>6. QED BY <3>4, <3>5
  <2>4. NoEndIn(Pos) => NoEndIn(Pos)'
    <3>1. \A j \in 1 .. Pos : text'[j] = text[j]
      BY <1>1, <2>1, <2>2
    <3>2. Pos' = Pos /\ Pos \in Nat
      BY <1>1, <2>2
    <3>3. \A i \in 0 .. Pos - 2 : LfLf(i)' <=> LfLf(i)
      <4> SUFFICES ASSUME NEW i \in 0 .. Pos - 2 PROVE LfLf(i)' <=> LfLf(i)
        OBVIOUS
      <4>1. i + 1 \in 1 .. Pos /\ i + 2 \in 1 .. Pos
        BY <3>2
      <4>2. QED BY <3>1, <4>1 DEF LfLf
    <3>4. \A i \in 0 .. Pos - 2 : i + 4 <= Pos => (CrLfCrLf(i)' <=> CrLfCrLf(i))
      <4> SUFFICES ASSUME NEW i \in 0 .. Pos - 2, i + 4 <= Pos
                   PROVE  CrLfCrLf(i)' <=> CrLfCrLf(i)
        OBVIOUS
      <4>1. /\ i + 1 \in 1 .. Pos /\ i + 2 \in 1 .. Pos
            /\ i + 3 \in 1 .. Pos /\ i + 4 \in 1 .. Pos
        BY <3>2
      <4>2. QED BY <3>1, <4>1 DEF CrLfCrLf
    <3>5. QED BY <3>2, <3>3, <3>4 DEF NoEndIn
  <2>5. StateOfCrLf' = StateOfCrLf /\ StateOfLf' = StateOfLf
    <3>1. Pos' = Pos /\ Pos \in 0 .. Len(text) /\ Len(text) \in Nat
      BY <1>1, <2>2
    <3>2. /\ Pos > 0 => text'[Pos] = text[Pos]
          /\ Pos > 1 => text'[Pos - 1] = text[Pos - 1]
      BY <2>1, <3>1
    <3>3. QED BY <3>1, <3>2 DEF StateOfCrLf, StateOfLf
  <2>6. QED BY <2>2, <2>3, <2>4, <2>5 DEF PlainInv
<1>3. CASE Scan
  <2> DEFINE ch == text[Pos + 1]
  <2>1. /\ elen = 0 /\ ~Completes(state, ch) /\ text' = text
        /\ state' = NextState(state, ch) /\ Pos' = Pos + 1
        /\ Pos \in Nat /\ Pos + 1 <= Len(text) /\ ch \in Char
    BY <1>1, <1>3 DEF Scan, Pos
  <2>2. ASSUME CrBeforeLf' PROVE (state = StateOfCrLf /\ NoEndIn(Pos))'
    <3>1. /\ state = StateOfCrLf /\ NoEndIn(Pos)
          /\ ch = "LF" => Pos > 0 /\ text[Pos] = "CR"
          /\ Pos > 0 /\ text[Pos] = "CR" => ch = "LF"
          /\ Pos > 0 => text[Pos] \in Char
      BY <1>1, <2>1, <2>2 DEF PlainInv, CrBeforeLf
    <3>2. StateOfCrLf' = IF ch = "other" THEN "S0CR1"
                         ELSE IF ch = "LF" THEN "S0CR2"
                         ELSE IF Pos > 0 /\ text[Pos] = "LF" THEN "S0LF2" ELSE "S0LF1"
      BY <2>1 DEF StateOfCrLf
    <3>3. state' = StateOfCrLf'
      BY <2>1, <3>1, <3>2 DEF StateOfCrLf, NextState, Completes, Char
    <3>4. Pos > 0 => ~LfLf(Pos - 1)
      BY <2>1, <3>1 DEF LfLf
    <3>5. Pos > 2 => ~CrLfCrLf(Pos - 3)
      BY <2>1, <3>1 DEF CrLfCrLf, StateOfCrLf, Completes
    <3>6. NoEndIn(Pos)'
      BY <2>1, <3>1, <3>4, <3>5 DEF NoEndIn, LfLf, CrLfCrLf
    <3>7. QED BY <3>3, <3>6
  <2>3. ASSUME NoCr' PROVE (state = StateOfLf /\ NoEndIn(Pos))'
    <3>1. /\ state = StateOfLf /\ NoEndIn(Pos)
          /\ ch # "CR"
          /\ Pos > 2 => text[Pos] # "CR"
      BY <1>1, <2>1, <2>3 DEF PlainInv, NoCr
    <3>2. state' = StateOfLf'
      BY <2>1, <3>1 DEF StateOfLf, NextState, Completes, Char
    <3>3. Pos > 0 => ~LfLf(Pos - 1)
      BY <2>1, <3>1 DEF LfLf, StateOfLf, Completes
    <3>4. Pos > 2 => ~CrLfCrLf(Pos - 3)
      BY <2>1, <3>1 DEF CrLfCrLf
    <3>5. NoEndIn(Pos)'
      BY <2>1, <3>1, <3>3, <3>4 DEF NoEndIn, LfLf, CrLfCrLf
    <3>6. QED BY <3>2, <3>5
  <2>4. QED BY <2>2, <2>3
<1>4. CASE TakeBlock \/ EndBlock \/ UNCHANGED headerEndVars
  <2>1. elen = 0 /\ text' = text /\ state' = state
    BY <1>4 DEF TakeBlock, EndBlock, headerEndVars
  <2>2. Pos' = Pos
    BY <1>1, <1>4, <2>1 DEF TakeBlock, EndBlock, headerEndVars, Pos
  <2>3. QED
    BY <2>1, <2>2 DEF PlainInv, CrBeforeLf, NoCr, StateOfCrLf, StateOfLf, NoEndIn,
       LfLf, CrLfCrLf
<1>5. QED BY <1>2, <1>3, <1>4 DEF HeaderEndNext

\* In a header that keeps to one form of line end no end of a header is passed
\* over, however long the header and however the reads and blocks cut it.
THEOREM PlainEndsAreFound == HeaderEndSpec => []PlainEndIsFound
<1>1. HeaderEndInv /\ PlainInv => PlainEndIsFound
  <2> SUFFICES ASSUME HeaderEndInv, PlainInv, CrBeforeLf \/ NoCr,
                      elen = 0, n = 0, epos = Len(text)
               PROVE  NoEndIn(Len(text))
    BY DEF PlainEndIsFound, EndIsFound
  <2>1. Pos = Len(text)
    BY DEF Pos, HeaderEndInv, HeaderEndTypeOK
  <2>2. QED BY <2>1 DEF PlainInv
<1>2. QED
  BY <1>1, HeaderEndInvInit, HeaderEndInvStep, PlainInvInit, PlainInvStep, PTL
  DEF HeaderEndSpec

\* The scanner's variables fit each other and the text: its invariant.
THEOREM HeaderEndInvariant == HeaderEndSpec => []HeaderEndInv
BY HeaderEndInvInit, HeaderEndInvStep, PTL DEF HeaderEndSpec
-------------------------------------------------------------------------------
\* The get position is where the last call alone would have brought it, so it
\* is at the end only when one call took everything.
HttpWriteInv ==
  /\ HttpWriteTypeOK
  /\ outcome = "idle" => ppos = 0
  /\ outcome \in {"idle", "writing"} /\ rget = 0 => wire = <<>>
  /\ outcome \in {"writing", "success"} /\ rget = ppos => wire = Buffer
  /\ SuccessIsComplete

LEMMA HttpWriteInvInit == HttpWriteInit => HttpWriteInv
<1> SUFFICES ASSUME HttpWriteInit PROVE HttpWriteInv
  OBVIOUS
<1>1. ppos = 0 /\ wire = <<>>
  BY DEF HttpWriteInit
<1>2. HttpWriteTypeOK
  BY <1>1 DEF HttpWriteInit, HttpWriteTypeOK
<1>3. QED BY <1>1, <1>2 DEF HttpWriteInit, HttpWriteInv, SuccessIsComplete

LEMMA HttpWriteInvStep ==
  ASSUME HttpWriteInv, [HttpWriteNext]_httpWriteVars
  PROVE  HttpWriteInv'
<1> USE HttpWriteAssumption DEF HttpWriteInv, HttpWriteTypeOK, SuccessIsComplete
<1>1. ASSUME NEW rc \in 1 .. WriteBlock, Write(rc) PROVE HttpWriteInv'
  <2> DEFINE piece == [i \in 1 .. rc |-> rget + i - 1]
  <2>1. /\ rc \in 1 .. ppos - rget /\ rget' = rc /\ wire' = wire \o piece
        /\ outcome = "writing" /\ UNCHANGED <<ppos, gpos, outcome>>
    BY <1>1 DEF Write, BlockLen, NextGet
  <2>2. piece \in Seq(0 .. ppos)
    <3>1. ppos \in Nat /\ rc \in Nat
      BY <2>1
    <3>2. \A i \in 1 .. rc : rget + i - 1 \in 0 .. ppos
      BY <2>1, <3>1
    <3>3. QED BY <3>1, <3>2
  <2>3. wire' \in Seq(0 .. ppos')
    BY <2>1, <2>2
  <2>4. ASSUME rget' = ppos' PROVE wire' = Buffer'
    <3>1. rget = 0 /\ rc = ppos
      BY <2>1, <2>4
    <3>2. wire' = <<>> \o piece
      BY <2>1, <3>1
    <3>3. piece = Buffer
      BY <3>1 DEF Buffer
    <3>4. <<>> \o piece = piece
      BY <2>2
    <3>5. QED BY <2>1, <3>2, <3>3, <3>4 DEF Buffer
  <2>5. rget' \in 1 .. ppos' /\ outcome' = "writing"
    BY <2>1
  <2>6. HttpWriteTypeOK'
    BY <2>1, <2>3, <2>5
  <2>7. QED BY <2>4, <2>5, <2>6
<1>2. CASE Fail
  BY <1>2 DEF Fail
<1>3. CASE Finish
  <2>1. rget = ppos
    BY <1>3 DEF Finish, BlockLen
  <2>2. QED BY <1>3, <2>1 DEF Finish, Buffer
<1>4. CASE StartWrite
  <2>1. /\ outcome = "idle" /\ outcome' = "writing" /\ ppos' \in Sizes
        /\ gpos' = 0 /\ rget' = 0 /\ wire' = <<>>
    BY <1>4 DEF StartWrite
  <2>2. ppos' = 0 => wire' = Buffer'
    BY <2>1 DEF Buffer
  <2>3. QED BY <2>1, <2>2
<1>5. CASE ResetWrite
  BY <1>5 DEF ResetWrite
<1>6. CASE UNCHANGED httpWriteVars
  BY <1>6 DEF httpWriteVars, Buffer
<1>7. QED BY <1>1, <1>2, <1>3, <1>4, <1>5, <1>6 DEF HttpWriteNext

\* However the socket cuts the blocks, write returns success only when what
\* went out is the buffer.
THEOREM SuccessMeansWritten == HttpWriteSpec => []SuccessIsComplete
<1>1. HttpWriteInv => SuccessIsComplete
  BY DEF HttpWriteInv
<1>2. HttpWriteInv /\ [HttpWriteNext]_httpWriteVars => HttpWriteInv'
  BY HttpWriteInvStep
<1>3. QED BY <1>1, <1>2, HttpWriteInvInit, PTL DEF HttpWriteSpec

\* The get position stays in the buffer and the offsets written are offsets of it.
THEOREM WriteTypeCorrect == HttpWriteSpec => []HttpWriteTypeOK
<1>1. HttpWriteInv => HttpWriteTypeOK
  BY DEF HttpWriteInv
<1>2. HttpWriteInv /\ [HttpWriteNext]_httpWriteVars => HttpWriteInv'
  BY HttpWriteInvStep
<1>3. QED BY <1>1, <1>2, HttpWriteInvInit, PTL DEF HttpWriteSpec

\* Each call takes the whole buffer, as it does when the buffer fits a block and the
\* socket has room.
TakenWhole == [][\A rc \in 1 .. WriteBlock : Write(rc) => rc = ppos]_httpWriteVars

\* Nothing was taken yet, or everything by the one call.
OneWrite ==
  /\ outcome = "idle" => wire = <<>>
  /\ wire = <<>> \/ (wire = Buffer /\ rget = ppos)

LEMMA OneWriteStep ==
  ASSUME HttpWriteInv, OneWrite, [HttpWriteNext]_httpWriteVars,
         [\A rc \in 1 .. WriteBlock : Write(rc) => rc = ppos]_httpWriteVars
  PROVE  OneWrite'
<1>1. ASSUME NEW rc \in 1 .. WriteBlock, Write(rc) PROVE OneWrite'
  <2>1. /\ rc \in 1 .. ppos - rget /\ rget \in 0 .. ppos /\ ppos \in Nat
        /\ wire' = wire \o [i \in 1 .. rc |-> rget + i - 1]
        /\ rget' = rc /\ outcome = "writing" /\ UNCHANGED <<ppos, outcome>>
    BY <1>1, HttpWriteAssumption
    DEF Write, BlockLen, NextGet, HttpWriteInv, HttpWriteTypeOK
  <2>2. rget' # rget \/ wire' # wire
    <3>1. wire \in Seq(0 .. ppos) /\ [i \in 1 .. rc |-> rget + i - 1] \in Seq(0 .. ppos)
      <4>1. \A i \in 1 .. rc : rget + i - 1 \in 0 .. ppos
        BY <2>1
      <4>2. rc \in Nat
        BY <2>1
      <4>3. QED BY <4>1, <4>2 DEF HttpWriteInv, HttpWriteTypeOK
    <3>2. Len(wire') = Len(wire) + rc /\ Len(wire) \in Nat
      BY <2>1, <3>1
    <3>3. QED BY <2>1, <3>2
  <2>3. rc = ppos
    BY <1>1, <2>2 DEF httpWriteVars
  <2>4. rget = 0 /\ wire = <<>>
    BY <2>1, <2>3 DEF HttpWriteInv
  <2>5. [i \in 1 .. rc |-> rget + i - 1] = Buffer /\ Buffer \in Seq(0 .. ppos)
    <3>1. \A i \in 1 .. ppos : 0 + i - 1 = i - 1 /\ i - 1 \in 0 .. ppos
      BY <2>1
    <3>2. QED BY <2>1, <2>3, <2>4, <3>1 DEF Buffer
  <2>6. wire' = Buffer
    BY <2>1, <2>4, <2>5
  <2>7. QED BY <2>1, <2>3, <2>6 DEF OneWrite, Buffer
<1>2. CASE StartWrite
  BY <1>2 DEF StartWrite, OneWrite
<1>3. CASE Fail
  <2>1. rget # ppos
    BY <1>3, HttpWriteAssumption DEF Fail, BlockLen, HttpWriteInv, HttpWriteTypeOK
  <2>2. QED BY <1>3, <2>1 DEF Fail, OneWrite
<1>4. CASE Finish
  BY <1>4 DEF Finish, OneWrite, Buffer
<1>5. CASE ResetWrite
  BY <1>5 DEF ResetWrite, OneWrite
<1>6. CASE UNCHANGED httpWriteVars
  BY <1>6 DEF httpWriteVars, OneWrite, Buffer
<1>7. QED BY <1>1, <1>2, <1>3, <1>4, <1>5, <1>6 DEF HttpWriteNext

\* The write loop garbles the wire only after a call that took a part: when each call
\* takes the whole buffer, what is on the wire is the contents.
THEOREM WholeWritesAreExact == HttpWriteSpec /\ TakenWhole => []WireIsContents
<1>1. HttpWriteInit => OneWrite
  BY DEF HttpWriteInit, OneWrite
<1>2. HttpWriteInv /\ [HttpWriteNext]_httpWriteVars => HttpWriteInv'
  BY HttpWriteInvStep
<1>3. /\ HttpWriteInv /\ OneWrite /\ [HttpWriteNext]_httpWriteVars
      /\ [\A rc \in 1 .. WriteBlock : Write(rc) => rc = ppos]_httpWriteVars
      => OneWrite'
  BY OneWriteStep
<1>4. HttpWriteInv /\ OneWrite => WireIsContents
  <2> SUFFICES ASSUME HttpWriteInv, OneWrite PROVE WireIsContents
    OBVIOUS
  <2>1. ppos \in Nat
    BY HttpWriteAssumption DEF HttpWriteInv, HttpWriteTypeOK
  <2>2. Buffer \in Seq(0 .. ppos) /\ Len(Buffer) = ppos
    <3>1. \A i \in 1 .. ppos : i - 1 \in 0 .. ppos
      BY <2>1
    <3>2. QED BY <2>1, <3>1 DEF Buffer
  <2>3. CASE wire = <<>>
    <3>1. Len(wire) = 0
      BY <2>3
    <3>2. SubSeq(Buffer, 1, 0) = <<>>
      BY <2>2
    <3>3. QED BY <2>1, <2>3, <3>1, <3>2 DEF WireIsContents
  <2>4. CASE wire = Buffer
    <3>1. SubSeq(Buffer, 1, ppos) = Buffer
      BY <2>1, <2>2
    <3>2. QED BY <2>1, <2>2, <2>4, <3>1 DEF WireIsContents
  <2>5. QED BY <2>3, <2>4 DEF OneWrite
<1>5. QED BY <1>1, <1>2, <1>3, <1>4, HttpWriteInvInit, PTL DEF HttpWriteSpec, TakenWhole

-------------------------------------------------------------------------------
\* The three parts over the requests of a connection.
HttpBufInv == HeaderEndInv /\ PlainInv /\ HttpBodyInv /\ HttpWriteInv

LEMMA ResetScanKeeps == ResetScan => HeaderEndInv' /\ PlainInv'
<1> SUFFICES ASSUME ResetScan PROVE HeaderEndInv' /\ PlainInv'
  OBVIOUS
<1>1. text' = <<>> /\ state' = "S0CR1" /\ epos' = 0 /\ elen' = 0 /\ n' = 0 /\ x' = 0
  BY DEF ResetScan
<1>2. HeaderEndInv'
  BY <1>1, HeaderEndAssumption
  DEF HeaderEndInv, HeaderEndTypeOK, ScanState, StateFits, FoundIsEnd
<1>3. PlainInv'
  BY <1>1 DEF PlainInv, StateOfCrLf, StateOfLf, NoEndIn, Pos
<1>4. QED BY <1>2, <1>3

LEMMA HttpBufInvStep == HttpBufInv /\ [HttpBufNext]_httpBufVars => HttpBufInv'
<1> SUFFICES ASSUME HttpBufInv, [HttpBufNext]_httpBufVars PROVE HttpBufInv'
  OBVIOUS
<1> USE DEF HttpBufInv
<1>1. CASE ReadHeader
  BY <1>1, HeaderEndInvStep, PlainInvStep, HttpBodyInvStep, HttpWriteInvStep DEF ReadHeader
<1>2. CASE ParseHeader
  BY <1>2, ResetScanKeeps, HttpBodyInvStep, HttpWriteInvStep DEF ParseHeader
<1>3. CASE ReadBody
  BY <1>3, HeaderEndInvStep, PlainInvStep, HttpBodyInvStep, HttpWriteInvStep DEF ReadBody
<1>4. CASE Respond
  BY <1>4, HeaderEndInvStep, PlainInvStep, HttpBodyInvStep, HttpWriteInvStep DEF Respond, HttpWriteNext
<1>5. CASE WriteResponse
  BY <1>5, HeaderEndInvStep, PlainInvStep, HttpBodyInvStep, HttpWriteInvStep DEF WriteResponse
<1>6. CASE UNCHANGED httpBufVars
  BY <1>6, HeaderEndInvStep, PlainInvStep, HttpBodyInvStep, HttpWriteInvStep DEF httpBufVars
<1>7. QED BY <1>1, <1>2, <1>3, <1>4, <1>5, <1>6 DEF HttpBufNext

\* Each of the three keeps its invariant over the requests of a connection, whatever a
\* request leaves to the next one: read_chunked is entered by a request that declares
\* it and by each one after it.
THEOREM HttpBufInvariant == HttpBufSpec => []HttpBufInv
<1>1. HttpBufInit => HttpBufInv
  BY HeaderEndInvInit, PlainInvInit, HttpBodyInvInit, HttpWriteInvInit
  DEF HttpBufInit, HttpBufInv
<1>2. QED BY <1>1, HttpBufInvStep, PTL DEF HttpBufSpec

\* Positions stay in the stream and what has been read, and a body is taken out of the
\* stream and nowhere else as long as no request of the connection was chunked.
THEOREM BodyTypeCorrect == HttpBufSpec => []HttpBodyTypeOK
<1>1. HttpBufInv => HttpBodyTypeOK
  BY DEF HttpBufInv, HttpBodyInv
<1>2. QED BY <1>1, HttpBufInvariant, PTL

\* The header end found for any request of a connection is one, not only that of
\* the first: reset leaves the scanner as it was constructed.
THEOREM EachRequestsEnd == HttpBufSpec => []FoundIsEnd
<1>1. HttpBufInv => FoundIsEnd
  BY DEF HttpBufInv, HeaderEndInv
<1>2. QED BY <1>1, HttpBufInvariant, PTL

\* For every response of a connection, success means that the wire holds it.
THEOREM EachResponseWritten == HttpBufSpec => []SuccessIsComplete
<1>1. HttpBufInv => SuccessIsComplete
  BY DEF HttpBufInv, HttpWriteInv
<1>2. QED BY <1>1, HttpBufInvariant, PTL
-------------------------------------------------------------------------------
LEMMA ContentInvInit == HttpBodyInit => ContentInv
<1> SUFFICES ASSUME HttpBodyInit PROVE ContentInv
  OBVIOUS
<1>1. at = "header" /\ ~cr /\ ~failed /\ put = sent
  BY DEF HttpBodyInit
<1>2. QED BY <1>1, HttpBodyInvInit DEF ContentInv, Understood

\* Whatever is read and written in between, the code's place in a message is the
\* message's, request after request: of those whose body is read as their header
\* declares it and whose sizes count the same in tens.
THEOREM ContentInvariant == HttpBufSpec => []ContentInv
<1>1. HttpBufInit => ContentInv
  BY ContentInvInit DEF HttpBufInit
<1>2. ContentInv /\ [HttpBufNext]_httpBufVars => ContentInv'
  <2> SUFFICES ASSUME ContentInv, [HttpBufNext]_httpBufVars PROVE ContentInv'
    OBVIOUS
  <2>1. \/ HttpBodyNext \/ Reset \/ UNCHANGED httpBodyVars
        \/ \E m \in Message, long \in BOOLEAN : \E k \in 1 .. Len(m.text) : ParseHeaders(m, k, long)
    BY DEF HttpBufNext, ReadHeader, ParseHeader, ReadBody, Respond, WriteResponse, httpBufVars
  <2>2. QED BY <2>1, ContentInvStep
<1>3. QED BY <1>1, <1>2, PTL DEF HttpBufSpec

\* For every well-formed message, whatever came before it and however the reads cut it: a
\* chunked body whose sizes count the same in tens comes out as it was meant and ends
\* where the message ends, and a body with a length comes out unless an earlier
\* request was chunked.
THEOREM BodiesComeOut == HttpBufSpec => []BodyIsContent
<1>1. ContentInv => BodyIsContent
  BY ContentInvSuffices
<1>2. QED BY <1>1, ContentInvariant, PTL

\* read_body and read_chunked do not wait for more than the message has, with the same
\* two exceptions.
THEOREM NoReadBeyondMessage == HttpBufSpec => []NeverWaitsForMore
<1>1. ContentInv => NeverWaitsForMore
  BY ContentInvSuffices
<1>2. QED BY <1>1, ContentInvariant, PTL

\* parse_xheaders finds the lines of the trailer and no others, from whatever an earlier
\* request left in hdr_chunked and hdr_chunklen.
THEOREM TrailersFound == HttpBufSpec => []XheadersAreTrailer
<1>1. ContentInv => XheadersAreTrailer
  BY ContentInvSuffices
<1>2. QED BY <1>1, ContentInvariant, PTL
===============================================================================
