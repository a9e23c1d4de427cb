---------------------------- MODULE HttpBodyProofs ----------------------------
(***************************************************************************)
(* Positions in a body stay in the stream, and a body and its trailer come *)
(* out as the client meant them where the code reads them as declared and  *)
(* can count their sizes, for any messages and any reads.                  *)
(***************************************************************************)
EXTENDS HttpBody, SequenceTheorems, WellFoundedInduction, TLAPS

\* Where the code is tells what of a body there is already; read_chunked is where a
\* request was chunked, this one or an earlier; the trailer lies before the get
\* position.
HttpBodyInv ==
  /\ HttpBodyTypeOK
  /\ at = "header" => msg = NoMessage /\ out = <<>>
  /\ ~chunkedf => at \in {"header", "plain", "short", "parsed"}
  /\ ~chunkedf /\ at # "parsed" => out = <<>>
  /\ at \in {"trailer", "skip"} => chunked <= get

LEMMA SubSeqPrefixes ==
  ASSUME NEW t, NEW i \in Int, NEW j \in Int
  PROVE  IsPrefix(<<>>, SubSeq(t, i, j)) /\ IsPrefix(SubSeq(t, i, j), SubSeq(t, i, j))
<1> DEFINE p == SubSeq(t, i, j)
           S == {t[k] : k \in i .. j}
<1>1. p \in Seq(S)
  BY SubSeqProperties
<1>2. Len(p) \in Nat
  BY <1>1, LenProperties
<1>3. SubSeq(p, 1, 0) = <<>> /\ SubSeq(<<>>, 1, 0) = <<>>
  BY SubSeqEmpty
<1>4. Len(<<>>) = 0
  OBVIOUS
<1> HIDE DEF p
<1>5. IsPrefix(<<>>, p) /\ IsPrefix(p, p)
  BY <1>2, <1>3, <1>4 DEF IsPrefix
<1>6. QED BY <1>5 DEF p

LEMMA MessageTyped ==
  ASSUME NEW m \in Message \cup {NoMessage}
  PROVE  /\ Len(m.text) \in Nat /\ m.head \in 0 .. Len(m.text)
         /\ m.length \in Nat /\ m.chunked \in BOOLEAN
<1>1. CASE m \in Message
  <2>1. /\ Len(m.text) \in Nat /\ m.head \in 1 .. Len(m.text)
        /\ m.length \in Nat /\ m.chunked \in BOOLEAN
    BY <1>1, HttpBodyAssumption
  <2>2. QED BY <2>1
<1>2. CASE m = NoMessage
  <2>1. m.text = <<>> /\ m.head = 0 /\ m.length = 0 /\ m.chunked = FALSE
    BY <1>2 DEF NoMessage
  <2>2. Len(m.text) = 0
    BY <2>1
  <2>3. m.chunked \in BOOLEAN
    BY <2>1
  <2>4. Len(m.text) \in Nat /\ m.head \in 0 .. Len(m.text) /\ m.length \in Nat
    BY <2>1, <2>2
  <2>5. QED BY <2>3, <2>4
<1>3. QED BY <1>1, <1>2

LEMMA NoMessagePrefix ==
  /\ NoMessage.head = 0 /\ ~NoMessage.chunked /\ Len(NoMessage.text) = 0
  /\ IsPrefix(<<>>, SubSeq(NoMessage.text, 0 + 1, 0))
<1>1. NoMessage.text = <<>> /\ NoMessage.head = 0 /\ NoMessage.chunked = FALSE
  BY DEF NoMessage
<1>2. Len(<<>>) = 0
  OBVIOUS
<1>3. IsPrefix(<<>>, SubSeq(NoMessage.text, 1, 0))
  BY SubSeqPrefixes
<1>4. 0 + 1 = 1
  OBVIOUS
<1>5. IsPrefix(<<>>, SubSeq(NoMessage.text, 0 + 1, 0))
  BY <1>3, <1>4
<1>6. QED BY <1>1, <1>2, <1>5

LEMMA BodyPrefix ==
  ASSUME NEW h \in Nat, NEW p \in Nat, NEW t
  PROVE  /\ IsPrefix(<<>>, SubSeq(t, h + 1, p))
         /\ IsPrefix(SubSeq(t, h + 1, p), SubSeq(t, h + 1, p))
<1>1. h + 1 \in Int /\ p \in Int
  OBVIOUS
<1>2. QED BY <1>1, SubSeqPrefixes

LEMMA HttpBodyInvInit == HttpBodyInit => HttpBodyInv
<1> SUFFICES ASSUME HttpBodyInit PROVE HttpBodyInv
  OBVIOUS
<1>1. IsPrefix(out, SubSeq(msg.text, msg.head + 1, put))
  BY NoMessagePrefix DEF HttpBodyInit
<1>2. sent \in 0 .. Len(msg.text)
  BY NoMessagePrefix DEF HttpBodyInit
<1>3. QED
  BY <1>1, <1>2, NoMessagePrefix DEF HttpBodyInit, HttpBodyInv, HttpBodyTypeOK, Line

LEMMA HttpBodyInvStep ==
  ASSUME HttpBodyInv,
         \/ HttpBodyNext \/ Reset \/ UNCHANGED httpBodyVars
         \/ \E m \in Message, long \in BOOLEAN : \E k \in 1 .. Len(m.text) : ParseHeaders(m, k, long)
  PROVE  HttpBodyInv'
<1> USE DEF HttpBodyInv, HttpBodyTypeOK, Line
<1>1. /\ Len(msg.text) \in Nat /\ msg.head \in 0 .. Len(msg.text)
      /\ msg.length \in Nat /\ msg.chunked \in BOOLEAN
  BY MessageTyped
<1>2. ASSUME NEW m \in Message, NEW long \in BOOLEAN, NEW k \in 1 .. Len(m.text),
             ParseHeaders(m, k, long)
      PROVE  HttpBodyInv'
  <2>1. Len(m.text) \in Nat /\ m.head \in 0 .. Len(m.text) /\ m.length \in Nat /\ m.chunked \in BOOLEAN
    BY MessageTyped
  <2>2. out = <<>>
    BY <1>2 DEF ParseHeaders
  <2>3. IsPrefix(<<>>, SubSeq(m.text, m.head + 1, k))
    BY <2>1, SubSeqPrefixes
  <2>4. PICK known \in {TRUE, ~long} :
          /\ chunkedf' = (chunkedf \/ (known /\ m.chunked))
          /\ at' = IF chunkedf' THEN "size" ELSE "plain"
          /\ size' = IF known /\ ~chunkedf' THEN m.length ELSE 0
    BY <1>2 DEF ParseHeaders, ChunkedOnce
  <2>5. chunkedf' \in BOOLEAN /\ size' \in Nat
    BY <2>1, <2>4
  <2>6. QED BY <1>2, <2>1, <2>2, <2>3, <2>4, <2>5 DEF ParseHeaders
<1>3. ASSUME NEW k \in 1 .. ReadBlock, Read(k) PROVE HttpBodyInv'
  <2>1. k \in Nat
    BY HttpBodyAssumption
  <2>2. at \notin {"header", "parsed"}
    BY <1>3 DEF Read, ReadAhead
  <2>3. sent' \in 0 .. Len(msg.text) /\ put' \in 0 .. sent' /\ get \in 0 .. put'
    BY <1>1, <1>3, <2>1 DEF Read
  <2>4. IsPrefix(<<>>, SubSeq(msg.text, msg.head + 1, put'))
    BY <1>1, <2>3, SubSeqPrefixes
  <2>5. QED BY <1>1, <1>3, <2>2, <2>3, <2>4 DEF Read
<1>4. CASE ReadFails
  BY <1>1, <1>4 DEF ReadFails, ReadAhead
<1>5. CASE TakeChar
  <2> DEFINE c == msg.text[get + 1]
  <2>1. at \in {"size", "eol", "trailer", "skip"} /\ put > get /\ chunkedf
    BY <1>1, <1>5 DEF TakeChar, ReadAhead
  <2>2. \A d \in Digit : Value(d) \in Nat
    BY DEF Digit, Value
  <2>3. ASSUME NEW g \in {get, get + 1}, EndLine(g), UNCHANGED <<chunkedf, msg, sent, failed, put, out, xheaders>>
        PROVE  HttpBodyInv'
    <3>1. /\ at' \in {"trailer", "data", "size", "ended"} /\ get' = g /\ cr' = FALSE
          /\ at' = "trailer" => at \in {"size", "skip"}
          /\ at = "size" /\ at' = "trailer" => size = 0
      BY <2>1, <2>3 DEF EndLine, AfterLine
    <3>2. /\ g \in Nat /\ g >= get /\ g <= put
      BY <1>1, <2>1
    <3>3. /\ chunked' = IF at = "size" /\ size = 0 THEN g ELSE chunked
          /\ chunklen' = IF at = "trailer" THEN g - chunked ELSE chunklen
      BY <2>3 DEF EndLine
    <3>4. /\ chunked' \in Nat /\ chunklen' \in Nat
          /\ at' = "trailer" => chunked' <= g
      BY <1>1, <2>1, <3>1, <3>2, <3>3
    <3>5. UNCHANGED <<chunkedf, size, msg, sent, failed, put, out>>
      BY <2>3 DEF EndLine
    <3>6. cr' \in BOOLEAN
      BY <3>1
    <3>7. /\ get' \in 0 .. put' /\ put' \in 0 .. sent' /\ sent' \in 0 .. Len(msg'.text)
          /\ size' \in Nat /\ failed' \in BOOLEAN /\ msg' \in Message \cup {NoMessage}
      BY <1>1, <2>1, <3>1, <3>2, <3>5
    <3>8. HttpBodyTypeOK'
      BY <2>1, <3>1, <3>4, <3>5, <3>6, <3>7
    <3>9. QED BY <2>1, <3>1, <3>4, <3>5, <3>8
  <2>4. CASE c # "LF" /\ ~cr
    <3>1. size' \in Nat
      BY <1>5, <2>2, <2>4 DEF TakeChar
    <3>2. /\ get' = get + 1 /\ cr' \in BOOLEAN
          /\ UNCHANGED <<chunkedf, chunked, chunklen, msg, sent, failed, put, out, xheaders>>
      BY <1>5, <2>4 DEF TakeChar
    <3>3. /\ at' \in Line
          /\ at' \in {"trailer", "skip"} => at \in {"trailer", "skip"}
      BY <1>5, <2>1, <2>4 DEF TakeChar
    <3>4. QED BY <1>1, <2>1, <3>1, <3>2, <3>3
  <2>5. CASE c = "LF" \/ cr
    BY <1>5, <2>3, <2>5 DEF TakeChar
  <2>6. QED BY <2>4, <2>5
<1>6. CASE CopyChunk
  <2>1. CopyLen \in 0 .. size /\ get + CopyLen \in get .. put
    BY <1>1, <1>6 DEF CopyLen
  <2>2. chunkedf
    BY <1>1, <1>6 DEF CopyChunk
  <2>3. QED BY <1>1, <1>6, <2>1, <2>2 DEF CopyChunk
<1>7. CASE TakeBody
  <2>1. at \in {"plain", "short"} /\ put \in Nat /\ msg.head \in Nat
    BY <1>1, <1>7 DEF TakeBody
  <2>2. /\ IsPrefix(<<>>, SubSeq(msg.text, msg.head + 1, put))
        /\ IsPrefix(SubSeq(msg.text, msg.head + 1, put), SubSeq(msg.text, msg.head + 1, put))
    BY <2>1, BodyPrefix
  <2>3. /\ out' = <<>> \/ out' = SubSeq(msg.text, msg.head + 1, put)
        /\ at' = "parsed" /\ get' = put
        /\ UNCHANGED <<chunkedf, msg, sent, failed, put, cr, size, chunked, chunklen, xheaders>>
    BY <1>7 DEF TakeBody
  <2>4. IsPrefix(out', SubSeq(msg.text, msg.head + 1, put))
    BY <2>2, <2>3
  <2>5. QED BY <1>1, <2>3, <2>4
<1>8. CASE ParseXheaders
  BY <1>1, <1>8 DEF ParseXheaders
<1>9. CASE Reset
  <2>1. /\ msg' = NoMessage /\ sent' = 0 /\ put' = 0 /\ get' = 0 /\ out' = <<>> /\ size' = 0
        /\ failed' = FALSE /\ cr' = FALSE /\ at' = "header" /\ UNCHANGED <<chunkedf, chunked, chunklen>>
    BY <1>9 DEF Reset
  <2>2. IsPrefix(out', SubSeq(msg'.text, msg'.head + 1, put'))
    BY <2>1, NoMessagePrefix
  <2>3. sent' \in 0 .. Len(msg'.text)
    BY <2>1, NoMessagePrefix
  <2>4. chunked' \in Nat /\ chunklen' \in Nat
    BY <2>1
  <2>5. QED BY <2>1, <2>2, <2>3, <2>4, NoMessagePrefix
<1>10. CASE UNCHANGED httpBodyVars
  BY <1>10 DEF httpBodyVars
<1>11. QED
  BY <1>2, <1>3, <1>4, <1>5, <1>6, <1>7, <1>8, <1>9, <1>10 DEF HttpBodyNext
-------------------------------------------------------------------------------
\* What has come out is this much of the content.
Taken(n) == out = SubSeq(msg.content, 1, n)

\* Among the characters of t behind offset i up to k there is a digit that is not zero.
Nonzero(t, i, k) == \E l \in i + 1 .. k : t[l] \in Digit \ {"0"}

\* In the size line of chunk i: what the digits read so far say.
InSize(i) ==
  LET c == msg.chunks[i] IN
  /\ get \in c.line .. c.data - 1
  /\ cr => get = c.data - 1
  /\ size = IF Nonzero(msg.text, c.line, get) THEN c.size ELSE 0
  /\ Taken(c.first)

\* In the data of chunk i, of which size is left.
InData(i) ==
  LET c == msg.chunks[i] IN
  /\ ~cr /\ i # Len(msg.chunks)
  /\ size \in 1 .. c.size /\ get = c.data + (c.size - size)
  /\ Taken(c.first + (c.size - size))

\* In the end of line after the data of chunk i.
InEol(i) ==
  LET c == msg.chunks[i] IN
  /\ i # Len(msg.chunks) /\ size = 0
  /\ get = IF cr THEN msg.chunks[i + 1].line - 1 ELSE c.data + c.size
  /\ get < msg.chunks[i + 1].line
  /\ Taken(c.first + c.size)

\* Where line l of the trailer ends.
NextLine(m, l) == IF l = Len(m.lines) THEN End(m) ELSE m.lines[l + 1]

\* In line l of the trailer.
InTrailer(l) ==
  /\ get \in msg.lines[l] .. NextLine(msg, l) - 1
  /\ cr => get = NextLine(msg, l) - 1
  /\ at = "skip" => l # Len(msg.lines)
  /\ at = "trailer" => IF cr THEN l = Len(msg.lines) ELSE get = msg.lines[l]
  /\ chunked = msg.lines[1]
  /\ out = msg.content

\* Where the code is in a chunked message is where it is in what its client sent.
ChunkedInv ==
  /\ at \in Line \cup {"data", "rest", "ended", "eof", "parsed"}
  /\ at = "size" => \E i \in DOMAIN msg.chunks : InSize(i)
  /\ at \in {"data", "rest"} => \E i \in DOMAIN msg.chunks : InData(i)
  /\ at = "eol" => \E i \in DOMAIN msg.chunks : InEol(i)
  /\ at \in {"trailer", "skip"} => \E l \in DOMAIN msg.lines : InTrailer(l)
  /\ at = "ended" => /\ get = MsgEnd /\ out = msg.content /\ chunked = msg.lines[1]
                     /\ chunklen = MsgEnd - chunked
  /\ at = "eof" => get < MsgEnd
  /\ at \in {"eof", "parsed"} => IsPrefix(out, msg.content)
  /\ at = "parsed" /\ get = MsgEnd => xheaders = msg.trailers \ Forbidden

\* A body with a length is what the stream has after the header.
LengthInv ==
  /\ at \in {"plain", "short", "parsed"} /\ msg.head <= sent
  /\ at = "plain" => size = msg.length
  /\ at = "short" => sent < MsgEnd
  /\ at = "parsed" => out = SubSeq(msg.text, msg.head + 1, sent)

ContentInv ==
  /\ HttpBodyInv
  /\ at = "header" => ~cr
  /\ at # "header" => msg \in Message
  /\ ~failed => put = sent
  /\ failed => at \in {"size", "plain", "short", "eof", "parsed"}
  /\ Understood => IF msg.chunked THEN ChunkedInv ELSE LengthInv

\* Where a line of the text ends.
LEMMA LineEnds ==
  ASSUME NEW t, NEW i \in Int, NEW j \in Int, IsLine(t, i, j), NEW k \in i .. j - 1
  PROVE  /\ t[k + 1] = "LF" <=> k + 1 = j
         /\ t[k + 1] = "CR" => k + 1 = j - 1
<1>1. CASE k + 1 = j
  <2>1. t[k + 1] = "LF"
    BY <1>1 DEF IsLine
  <2>2. QED BY <1>1, <2>1
<1>2. CASE k + 1 \in i + 1 .. j - 1
  BY <1>2 DEF IsLine
<1>3. QED BY <1>1, <1>2

LEMMA MessageSeqs ==
  ASSUME NEW m \in Message
  PROVE  /\ End(m) \in Nat /\ m.head \in 1 .. End(m) /\ End(m) <= Len(m.text)
         /\ m.text \in Seq(Range(m.text)) /\ m.content \in Seq(Range(m.text))
         /\ Len(m.content) \in Nat
<1>1. m.text \in Seq(Range(m.text)) /\ m.content \in Seq(Range(m.text))
  BY MessagesWellFormed
<1>2. Len(m.content) \in Nat
  BY <1>1, LenProperties
<1>3. QED BY <1>1, <1>2, HttpBodyAssumption DEF End

LEMMA ChunksTyped ==
  ASSUME NEW m \in Message, m.chunked, NEW i \in DOMAIN m.chunks
  PROVE  /\ DOMAIN m.chunks = 1 .. Len(m.chunks) /\ Len(m.chunks) \in Nat
         /\ m.chunks[i].line \in 0 .. End(m) /\ m.chunks[i].data \in 0 .. End(m)
         /\ m.chunks[i].first \in 0 .. Len(m.content) /\ m.chunks[i].size \in Nat
<1> DEFINE C == [line : 0 .. End(m), data : 0 .. End(m), first : 0 .. Len(m.content), size : Nat]
<1>1. m.chunks \in Seq(C)
  BY MessagesWellFormed DEF ChunksOf
<1> HIDE DEF C
<1>2. /\ Len(m.chunks) \in Nat /\ DOMAIN m.chunks = 1 .. Len(m.chunks)
      /\ m.chunks \in [1 .. Len(m.chunks) -> C]
  BY <1>1, LenProperties
<1>3. m.chunks[i] \in C
  BY <1>2
<1>4. QED BY <1>2, <1>3 DEF C

\* What is known of a chunk, and of the one behind it.
LEMMA ChunkOf ==
  ASSUME NEW m \in Message, m.chunked, NEW i \in DOMAIN m.chunks
  PROVE  LET c == m.chunks[i]
             d == m.chunks[i + 1]
         IN  /\ IsLine(m.text, c.line, c.data)
             /\ c.size = 0 <=> i = Len(m.chunks)
             /\ i = Len(m.chunks) => c.first = Len(m.content) /\ c.data = m.lines[1]
             /\ i # Len(m.chunks) =>
                  /\ i + 1 \in DOMAIN m.chunks
                  /\ \A k \in 1 .. c.size : m.content[c.first + k] = m.text[c.data + k]
                  /\ d.first = c.first + c.size
                  /\ IsLine(m.text, c.data + c.size, d.line)
                  /\ Empty(m.text, c.data + c.size)
<1>1. ChunksOf(m) /\ TrailerOf(m)
  BY MessagesWellFormed
<1>2. i = Len(m.chunks) => m.chunks[i].data = m.lines[1]
  BY <1>1 DEF TrailerOf
<1>3. i # Len(m.chunks) => i + 1 \in DOMAIN m.chunks
  BY ChunksTyped
<1>4. QED BY <1>1, <1>2, <1>3 DEF ChunksOf

LEMMA TrailerLineOf ==
  ASSUME NEW m \in Message, m.chunked, NEW l \in DOMAIN m.lines
  PROVE  /\ DOMAIN m.lines = 1 .. Len(m.lines) /\ Len(m.lines) \in Nat
         /\ m.lines[l] \in 0 .. End(m) /\ NextLine(m, l) \in 0 .. End(m)
         /\ IsLine(m.text, m.lines[l], NextLine(m, l))
         /\ Empty(m.text, m.lines[l]) <=> l = Len(m.lines)
         /\ l # Len(m.lines) => l + 1 \in DOMAIN m.lines
<1>1. TrailerOf(m)
  BY MessagesWellFormed
<1>2. /\ Len(m.lines) \in Nat /\ DOMAIN m.lines = 1 .. Len(m.lines)
      /\ m.lines \in [1 .. Len(m.lines) -> 0 .. End(m)]
  BY <1>1, LenProperties DEF TrailerOf
<1>3. l # Len(m.lines) => l + 1 \in DOMAIN m.lines
  BY <1>2
<1>4. m.lines[l] \in 0 .. End(m) /\ NextLine(m, l) \in 0 .. End(m)
  BY <1>2, <1>3, MessageSeqs DEF NextLine
<1>5. /\ IsLine(m.text, m.lines[l], NextLine(m, l))
      /\ Empty(m.text, m.lines[l]) <=> l = Len(m.lines)
  BY <1>1 DEF TrailerOf, NextLine
<1>6. QED BY <1>2, <1>3, <1>4, <1>5

\* What has come out with the next characters of a chunk is more of the content.
LEMMA TakeMore ==
  ASSUME NEW S, NEW content \in Seq(S), NEW t, NEW p \in Nat, NEW d \in Int, NEW k \in Nat,
         p + k <= Len(content), \A i \in 1 .. k : content[p + i] = t[d + i]
  PROVE  SubSeq(content, 1, p) \o SubSeq(t, d + 1, d + k) = SubSeq(content, 1, p + k)
<1> DEFINE a == SubSeq(content, 1, p)
           b == SubSeq(t, d + 1, d + k)
           c == SubSeq(content, 1, p + k)
           ab == a \o b
<1>1. Len(content) \in Nat /\ \A i \in 1 .. Len(content) : content[i] \in S
  BY LenProperties, ElementOfSeq
<1>2. \A i \in d + 1 .. d + k : t[i] \in S
  <2> SUFFICES ASSUME NEW i \in d + 1 .. d + k PROVE t[i] \in S
    OBVIOUS
  <2>1. i - d \in 1 .. k /\ d + (i - d) = i
    OBVIOUS
  <2>2. content[p + (i - d)] = t[d + (i - d)]
    BY <2>1
  <2>3. p + (i - d) \in 1 .. Len(content)
    BY <1>1, <2>1
  <2>4. content[p + (i - d)] \in S
    BY <1>1, <2>3
  <2>5. QED BY <2>1, <2>2, <2>4
<1>3. a \in Seq(S) /\ Len(a) = p /\ \A i \in 1 .. p : a[i] = content[i]
  BY <1>1, SubSeqProperties
<1>4. b \in Seq(S) /\ Len(b) = k /\ \A i \in 1 .. k : b[i] = t[d + i]
  BY <1>2, SubSeqProperties
<1>5. c \in Seq(S) /\ Len(c) = p + k /\ \A i \in 1 .. p + k : c[i] = content[i]
  BY <1>1, SubSeqProperties
<1> HIDE DEF a, b, c
<1>6. /\ ab \in Seq(S) /\ Len(ab) = p + k
      /\ \A i \in 1 .. p + k : ab[i] = IF i <= p THEN a[i] ELSE b[i - p]
  BY <1>3, <1>4, ConcatProperties
<1> HIDE DEF ab
<1>7. \A i \in 1 .. p + k : ab[i] = c[i]
  <2> SUFFICES ASSUME NEW i \in 1 .. p + k PROVE ab[i] = c[i]
    OBVIOUS
  <2>1. CASE i <= p
    <3>1. i \in 1 .. p
      BY <2>1
    <3>2. QED BY <1>3, <1>5, <1>6, <2>1, <3>1
  <2>2. CASE ~(i <= p)
    <3>1. i - p \in 1 .. k
      BY <2>2
    <3>2. b[i - p] = t[d + (i - p)]
      BY <1>4, <3>1
    <3>3. content[p + (i - p)] = t[d + (i - p)]
      BY <3>1
    <3>4. p + (i - p) = i
      OBVIOUS
    <3>5. c[i] = content[i] /\ ab[i] = b[i - p]
      BY <1>5, <1>6, <2>2
    <3>6. QED BY <3>2, <3>3, <3>4, <3>5
  <2>3. QED BY <2>1, <2>2
<1>8. ab = c
  BY <1>5, <1>6, <1>7, SeqEqual
<1>9. QED BY <1>8 DEF a, b, c, ab

\* A first part of a sequence, and one of a longer part.
LEMMA FirstPart ==
  ASSUME NEW S, NEW s \in Seq(S), NEW p \in Nat, NEW q \in Nat, p <= q, q <= Len(s)
  PROVE  /\ IsPrefix(SubSeq(s, 1, p), s)
         /\ IsPrefix(SubSeq(s, 1, p), SubSeq(s, 1, q))
         /\ SubSeq(s, 1, Len(s)) = s
<1> DEFINE a == SubSeq(s, 1, p)
           b == SubSeq(s, 1, q)
<1>1. Len(s) \in Nat /\ \A i \in 1 .. Len(s) : s[i] \in S
  BY LenProperties, ElementOfSeq
<1>2. a \in Seq(S) /\ Len(a) = p /\ \A i \in 1 .. p : a[i] = s[i]
  BY <1>1, SubSeqProperties
<1>3. b \in Seq(S) /\ Len(b) = q /\ \A i \in 1 .. q : b[i] = s[i]
  BY <1>1, SubSeqProperties
<1>4. SubSeq(a, 1, Len(a)) = a /\ SubSeq(s, 1, Len(s)) = s
  BY <1>2, SubSeqFull
<1>5. /\ SubSeq(b, 1, p) \in Seq(S) /\ Len(SubSeq(b, 1, p)) = p
      /\ \A i \in 1 .. p : SubSeq(b, 1, p)[i] = b[i]
  <2>1. \A i \in 1 .. p : b[i] \in S
    BY <1>1, <1>3
  <2> HIDE DEF b
  <2>2. QED BY <2>1, SubSeqProperties
<1>6. SubSeq(b, 1, p) = a
  <2> HIDE DEF a, b
  <2>1. QED BY <1>2, <1>3, <1>5, SeqEqual
<1>7. IsPrefix(a, s)
  <2>1. SubSeq(a, 1, Len(a)) = SubSeq(s, 1, Len(a)) /\ Len(a) <= Len(s)
    BY <1>1, <1>2, <1>4
  <2>2. QED BY <2>1 DEF IsPrefix
<1>8. IsPrefix(a, b)
  <2>1. SubSeq(a, 1, Len(a)) = SubSeq(b, 1, Len(a)) /\ Len(a) <= Len(b)
    BY <1>2, <1>3, <1>4, <1>6
  <2>2. QED BY <2>1 DEF IsPrefix
<1>9. QED BY <1>4, <1>7, <1>8

\* Where the digits count the same in tens the size is what they say.
LEMMA DigitCounts ==
  ASSUME NEW t, NEW i \in Int, NEW j \in Int, NEW n \in Nat,
         CountedInTens(t, i, j, n),
         NEW k \in i .. j - 1, NEW s \in Nat, s = IF Nonzero(t, i, k) THEN n ELSE 0
  PROVE  (IF t[k + 1] \in Digit THEN 10 * s + Value(t[k + 1]) ELSE s)
           = IF Nonzero(t, i, k + 1) THEN n ELSE 0
<1>1. Nonzero(t, i, k + 1) <=> Nonzero(t, i, k) \/ t[k + 1] \in Digit \ {"0"}
  <2>1. i + 1 .. k + 1 = (i + 1 .. k) \cup {k + 1}
    OBVIOUS
  <2>2. QED BY <2>1 DEF Nonzero
<1>2. t[k + 1] \in Digit => ~Nonzero(t, i, k)
  <2> SUFFICES ASSUME t[k + 1] \in Digit, NEW l \in i + 1 .. k, t[l] \in Digit \ {"0"} PROVE FALSE
    BY DEF Nonzero
  <2>1. l \in i + 1 .. j /\ k + 1 \in l + 1 .. j
    OBVIOUS
  <2>2. QED BY <2>1 DEF CountedInTens
<1>3. CASE t[k + 1] \in Digit \ {"0"}
  <2>1. k + 1 \in i + 1 .. j
    OBVIOUS
  <2>2. Worth[t[k + 1]] = n /\ t[k + 1] \in Digit \ {"0"}
    BY <1>3, <2>1 DEF CountedInTens
  <2>3. Value(t[k + 1]) = n
    BY <2>2 DEF Digit, Worth, Value
  <2>4. s = 0
    BY <1>2, <1>3
  <2>5. QED BY <1>1, <1>3, <2>3, <2>4
<1>4. CASE t[k + 1] = "0"
  <2>1. Value(t[k + 1]) = 0
    BY <1>4 DEF Value
  <2>2. ~Nonzero(t, i, k) /\ s = 0
    BY <1>2, <1>4 DEF Digit
  <2>3. QED BY <1>1, <1>4, <2>1, <2>2
<1>5. CASE t[k + 1] \notin Digit
  BY <1>1, <1>5
<1>6. QED BY <1>3, <1>4, <1>5

\* At the end of its line the size is that of the chunk.
LEMMA SizeRead ==
  ASSUME NEW t, NEW i \in Int, NEW j \in Int, NEW n \in Nat,
         CountedInTens(t, i, j, n),
         i < j, t[j] = "LF"
  PROVE  n = IF Nonzero(t, i, j - 1) THEN n ELSE 0
<1>1. CASE n = 0
  BY <1>1
<1>2. CASE n # 0
  <2>1. PICK l \in i + 1 .. j : t[l] \in Digit \ {"0"}
    BY <1>2 DEF CountedInTens
  <2>2. l \in i + 1 .. j - 1
    BY <2>1 DEF Digit
  <2>3. QED BY <2>1, <2>2 DEF Nonzero
<1>3. QED BY <1>1, <1>2

LEMMA WholeIsPrefix ==
  ASSUME NEW S, NEW s \in Seq(S)
  PROVE  IsPrefix(s, s)
<1>1. Len(s) \in Nat
  BY LenProperties
<1>2. QED BY <1>1 DEF IsPrefix

\* A character of a chunked message brings the code on as it brings the message on.
LEMMA TakeCharContent ==
  ASSUME ContentInv, Understood, msg.chunked, TakeChar
  PROVE  ChunkedInv'
<1> DEFINE c == msg.text[get + 1]
<1>1. /\ msg \in Message /\ msg.chunked /\ ~failed /\ ChunkedInv
      /\ get \in Nat /\ size \in Nat /\ cr \in BOOLEAN /\ at \in Line
  BY DEF ContentInv, HttpBodyInv, HttpBodyTypeOK, TakeChar, ReadAhead, Line, Understood
<1>2. UNCHANGED <<chunkedf, msg, sent, failed, put, out, xheaders>>
  BY DEF TakeChar
<1>3. c = "LF" => EndLine(get + 1)
  BY DEF TakeChar
<1>4. ASSUME c # "LF", ~cr
      PROVE  /\ get' = get + 1 /\ cr' = (c = "CR") /\ UNCHANGED <<chunked, chunklen>>
             /\ at' = IF c = "CR" THEN at
                      ELSE CASE at = "eol" -> "size" [] at = "size" -> at [] OTHER -> "skip"
             /\ size' = IF at = "size" /\ c \in Digit THEN 10 * size + Value(c) ELSE size
  BY <1>4 DEF TakeChar
<1>5. End(msg) \in Nat
  BY <1>1, MessageSeqs
<1> HIDE DEF c
<1>6. CASE at = "size"
  <2>1. PICK i \in DOMAIN msg.chunks : InSize(i)
    BY <1>1, <1>6 DEF ChunkedInv
  <2> DEFINE k == msg.chunks[i]
  <2>2. /\ k.line \in Nat /\ k.data \in Nat /\ k.size \in Nat /\ k.first \in Nat
        /\ DOMAIN msg.chunks = 1 .. Len(msg.chunks) /\ Len(msg.chunks) \in Nat
    BY <1>1, <1>5, ChunksTyped, MessageSeqs
  <2>3. /\ IsLine(msg.text, k.line, k.data) /\ CountedInTens(msg.text, k.line, k.data, k.size)
        /\ k.size = 0 <=> i = Len(msg.chunks)
        /\ i = Len(msg.chunks) => k.first = Len(msg.content) /\ k.data = msg.lines[1]
    BY <1>1, ChunkOf DEF Understood, Countable
  <2>4. /\ get \in k.line .. k.data - 1 /\ Taken(k.first)
        /\ cr => get = k.data - 1
        /\ size = IF Nonzero(msg.text, k.line, get) THEN k.size ELSE 0
    <3>1. get \in k.line .. k.data - 1 /\ Taken(k.first)
      BY <2>1 DEF InSize
    <3>2. cr => get = k.data - 1
      BY <2>1 DEF InSize
    <3>3. size = IF Nonzero(msg.text, k.line, get) THEN k.size ELSE 0
      BY <2>1 DEF InSize
    <3>4. QED BY <3>1, <3>2, <3>3
  <2> HIDE DEF k
  <2>5. c = "LF" <=> get + 1 = k.data
    BY <2>2, <2>3, <2>4, LineEnds DEF c
  <2>6. c = "CR" => get + 1 = k.data - 1
    BY <2>2, <2>3, <2>4, LineEnds DEF c
  <2>7. CASE c = "LF"
    <3>1. size = k.size
      <4>1. msg.text[k.data] = "LF" /\ k.line < k.data
        BY <2>3 DEF IsLine
      <4>2. get = k.data - 1
        BY <1>1, <2>2, <2>5, <2>7
      <4>3. QED BY <2>2, <2>3, <2>4, <4>1, <4>2, SizeRead
    <3>2. /\ get' = k.data /\ ~cr' /\ size' = size
          /\ at' = IF size = 0 THEN "trailer" ELSE "data"
          /\ chunked' = IF size = 0 THEN k.data ELSE chunked
      BY <1>3, <1>6, <2>5, <2>7 DEF EndLine, AfterLine
    <3>3. CASE size = 0
      <4>1. i = Len(msg.chunks) /\ k.data = msg.lines[1]
        BY <2>3, <3>1, <3>3
      <4>2. out = msg.content
        BY <1>1, <2>3, <2>4, <4>1, MessageSeqs, SubSeqFull DEF Taken
      <4>3. 1 \in DOMAIN msg.lines
        <5>1. msg.lines \in Seq(0 .. End(msg)) /\ msg.lines # <<>>
          BY <1>1, MessagesWellFormed DEF TrailerOf
        <5>2. QED BY <5>1, EmptySeq, LenProperties
      <4>4. msg.lines[1] < NextLine(msg, 1) /\ msg.lines[1] \in Nat /\ NextLine(msg, 1) \in Nat
        <5>1. /\ msg.lines[1] \in 0 .. End(msg) /\ NextLine(msg, 1) \in 0 .. End(msg)
              /\ IsLine(msg.text, msg.lines[1], NextLine(msg, 1))
          BY <1>1, <4>3, TrailerLineOf
        <5>2. QED BY <1>5, <5>1 DEF IsLine
      <4>5. at' = "trailer" /\ get' = msg.lines[1] /\ chunked' = msg.lines[1]
        BY <3>2, <3>3, <4>1
      <4>6. InTrailer(1)'
        BY <1>2, <3>2, <4>2, <4>4, <4>5 DEF InTrailer, NextLine
      <4>7. QED BY <1>2, <4>3, <4>5, <4>6 DEF ChunkedInv, Line
    <3>4. CASE size # 0
      <4>1. i # Len(msg.chunks)
        BY <2>3, <3>1, <3>4
      <4>2. at' = "data" /\ size' \in 1 .. k.size /\ k.size - size' = 0
        BY <2>2, <3>1, <3>2, <3>4
      <4>3. get' = k.data + (k.size - size') /\ k.first + (k.size - size') = k.first
        BY <2>2, <3>2, <4>2
      <4>4. Taken(k.first)'
        BY <1>2, <2>4, <4>2 DEF Taken, k
      <4>5. InData(i)'
        BY <1>2, <3>2, <4>1, <4>2, <4>3, <4>4 DEF InData, Taken, k
      <4>6. QED BY <1>2, <4>2, <4>5 DEF ChunkedInv
    <3>5. QED BY <3>3, <3>4
  <2>8. CASE c # "LF"
    <3>1. ~cr
      BY <2>2, <2>4, <2>5, <2>8
    <3>2. /\ get' = get + 1 /\ cr' = (c = "CR") /\ at' = "size"
          /\ size' = IF c \in Digit THEN 10 * size + Value(c) ELSE size
      BY <1>4, <1>6, <2>8, <3>1
    <3>3. get' \in k.line .. k.data - 1
      BY <2>2, <2>4, <2>5, <2>8, <3>2
    <3>4. cr' => get' = k.data - 1
      BY <2>6, <3>2
    <3>5. size' = IF Nonzero(msg.text, k.line, get') THEN k.size ELSE 0
      <4>1. k.line \in Int /\ k.data \in Int /\ k.size \in Nat /\ size \in Nat
        BY <1>1, <2>2
      <4>2. CountedInTens(msg.text, k.line, k.data, k.size)
        BY <2>3
      <4>3. get \in k.line .. k.data - 1
        BY <2>4
      <4>4. size = IF Nonzero(msg.text, k.line, get) THEN k.size ELSE 0
        BY <2>4
      <4>5. (IF msg.text[get + 1] \in Digit THEN 10 * size + Value(msg.text[get + 1]) ELSE size)
              = IF Nonzero(msg.text, k.line, get + 1) THEN k.size ELSE 0
        BY <4>1, <4>2, <4>3, <4>4, DigitCounts
      <4>6. QED BY <3>2, <4>5 DEF c
    <3>6. InSize(i)'
      BY <1>2, <2>4, <3>3, <3>4, <3>5 DEF InSize, Taken, k
    <3>7. QED BY <1>2, <3>2, <3>6 DEF ChunkedInv, Line
  <2>9. QED BY <2>7, <2>8
<1>7. CASE at = "eol"
  <2>1. PICK i \in DOMAIN msg.chunks : InEol(i)
    BY <1>1, <1>7 DEF ChunkedInv
  <2> DEFINE k == msg.chunks[i]
             d == msg.chunks[i + 1]
  <2>2. i # Len(msg.chunks)
    BY <2>1 DEF InEol
  <2>3. /\ k.data \in Nat /\ k.size \in Nat /\ i + 1 \in DOMAIN msg.chunks
        /\ IsLine(msg.text, k.data + k.size, d.line) /\ Empty(msg.text, k.data + k.size)
        /\ d.first = k.first + k.size
    BY <1>1, <1>5, <2>2, ChunksTyped, ChunkOf
  <2>4. d.line \in Nat /\ d.data \in Nat /\ IsLine(msg.text, d.line, d.data)
    BY <1>1, <1>5, <2>3, ChunksTyped, ChunkOf
  <2>5. /\ size = 0 /\ get = IF cr THEN d.line - 1 ELSE k.data + k.size
        /\ get < d.line /\ Taken(k.first + k.size)
    BY <2>1 DEF InEol
  <2> HIDE DEF k, d
  <2>6. get \in k.data + k.size .. d.line - 1
    BY <2>3, <2>4, <2>5 DEF IsLine
  <2>7. c = "LF" <=> get + 1 = d.line
    BY <2>3, <2>4, <2>6, LineEnds DEF c
  <2>8. c = "CR" => get + 1 = d.line - 1
    BY <2>3, <2>4, <2>6, LineEnds DEF c
  <2>9. CASE c = "LF"
    <3>1. get' = d.line /\ ~cr' /\ size' = 0 /\ at' = "size"
      BY <1>3, <1>7, <2>5, <2>7, <2>9 DEF EndLine, AfterLine
    <3>2. get' \in d.line .. d.data - 1 /\ ~Nonzero(msg.text, d.line, get')
      BY <2>4, <3>1 DEF IsLine, Nonzero
    <3>3. InSize(i + 1)'
      BY <1>2, <2>3, <2>5, <3>1, <3>2 DEF InSize, Taken, d
    <3>4. QED BY <1>2, <2>3, <3>1, <3>3 DEF ChunkedInv, Line
  <2>10. CASE c # "LF"
    <3>1. ~cr
      BY <2>4, <2>5, <2>7, <2>10
    <3>2. c = "CR"
      BY <2>3, <2>5, <2>10, <3>1 DEF Empty, c
    <3>3. get' = get + 1 /\ cr' /\ at' = "eol" /\ size' = size
      BY <1>4, <1>7, <2>10, <3>1, <3>2
    <3>4. get' = d.line - 1
      BY <2>8, <3>2, <3>3
    <3>5. InEol(i)'
      BY <1>2, <2>2, <2>4, <2>5, <3>3, <3>4 DEF InEol, Taken, k, d
    <3>6. QED BY <1>2, <3>3, <3>5 DEF ChunkedInv, Line
  <2>11. QED BY <2>9, <2>10
<1>8. CASE at \in {"trailer", "skip"}
  <2>1. PICK l \in DOMAIN msg.lines : InTrailer(l)
    BY <1>1, <1>8 DEF ChunkedInv
  <2> DEFINE g == msg.lines[l]
             e == NextLine(msg, l)
  <2>2. /\ g \in Nat /\ e \in Nat /\ IsLine(msg.text, g, e)
        /\ Empty(msg.text, g) <=> l = Len(msg.lines)
        /\ l # Len(msg.lines) => l + 1 \in DOMAIN msg.lines
    BY <1>1, <1>5, TrailerLineOf
  <2>3. get \in g .. e - 1 /\ chunked = msg.lines[1] /\ out = msg.content
    BY <2>1 DEF InTrailer
  <2>4. cr => get = e - 1
    BY <2>1 DEF InTrailer
  <2>5. at = "skip" => l # Len(msg.lines)
    BY <2>1 DEF InTrailer
  <2>6. at = "trailer" => IF cr THEN l = Len(msg.lines) ELSE get = g
    BY <2>1 DEF InTrailer
  <2>7. l = Len(msg.lines) => e = MsgEnd
    BY DEF NextLine, MsgEnd
  <2>8. l # Len(msg.lines) => e = msg.lines[l + 1]
    BY DEF NextLine
  <2> HIDE DEF g, e
  <2>9. c = "LF" <=> get + 1 = e
    BY <2>2, <2>3, LineEnds DEF c
  <2>10. c = "CR" => get + 1 = e - 1
    BY <2>2, <2>3, LineEnds DEF c
  <2>11. CASE c = "LF"
    <3>1. /\ get' = e /\ ~cr' /\ chunked' = chunked
          /\ at' = IF at = "trailer" THEN "ended" ELSE "trailer"
          /\ chunklen' = IF at = "trailer" THEN e - chunked ELSE chunklen
      BY <1>3, <1>8, <2>9, <2>11 DEF EndLine, AfterLine
    <3>2. CASE at = "trailer"
      <4>1. l = Len(msg.lines)
        BY <2>2, <2>6, <2>11, <3>2 DEF Empty, c
      <4>2. get' = MsgEnd' /\ chunklen' = MsgEnd' - chunked'
        BY <1>2, <2>7, <3>1, <3>2, <4>1 DEF MsgEnd
      <4>3. QED BY <1>2, <2>3, <3>1, <3>2, <4>2 DEF ChunkedInv, Line
    <3>3. CASE at = "skip"
      <4>1. l + 1 \in DOMAIN msg.lines /\ get' = msg.lines[l + 1]
        BY <2>2, <2>5, <2>8, <3>1, <3>3
      <4>2. get' \in msg.lines[l + 1] .. NextLine(msg, l + 1) - 1
        <5>1. /\ msg.lines[l + 1] \in 0 .. End(msg) /\ NextLine(msg, l + 1) \in 0 .. End(msg)
              /\ IsLine(msg.text, msg.lines[l + 1], NextLine(msg, l + 1))
          BY <1>1, <4>1, TrailerLineOf
        <5>2. QED BY <1>5, <4>1, <5>1 DEF IsLine
      <4>3. at' = "trailer"
        BY <3>1, <3>3
      <4>4. InTrailer(l + 1)'
        BY <1>2, <2>3, <3>1, <4>1, <4>2, <4>3 DEF InTrailer, NextLine
      <4>5. QED BY <1>2, <4>1, <4>3, <4>4 DEF ChunkedInv, Line
    <3>4. QED BY <1>8, <3>2, <3>3
  <2>12. CASE c # "LF"
    <3>1. ~cr
      BY <2>2, <2>4, <2>9, <2>12
    <3>2. /\ get' = get + 1 /\ cr' = (c = "CR") /\ chunked' = chunked
          /\ at' = IF c = "CR" THEN at ELSE "skip"
      BY <1>4, <1>8, <2>12, <3>1
    <3>3. get' \in g .. e - 1
      BY <2>2, <2>3, <2>9, <2>12, <3>2
    <3>4. cr' => get' = e - 1
      BY <2>10, <3>2
    <3>5. at = "trailer" => c = msg.text[g + 1]
      BY <2>6, <3>1 DEF c
    <3>6. at' = "skip" => l # Len(msg.lines)
      BY <1>8, <2>2, <2>5, <2>12, <3>2, <3>5 DEF Empty
    <3>7. at' = "trailer" => cr' /\ l = Len(msg.lines)
      BY <1>8, <2>2, <2>12, <3>2, <3>5 DEF Empty
    <3>8. InTrailer(l)'
      BY <1>2, <2>3, <3>2, <3>3, <3>4, <3>6, <3>7 DEF InTrailer, g, e, NextLine
    <3>9. at' \in {"trailer", "skip"}
      BY <1>8, <3>2
    <3>10. QED BY <1>2, <3>8, <3>9 DEF ChunkedInv, Line
  <2>13. QED BY <2>11, <2>12
<1>9. QED BY <1>1, <1>6, <1>7, <1>8 DEF Line

\* A part of a chunk brings the code on as it brings the message on.
LEMMA CopyChunkContent ==
  ASSUME ContentInv, Understood, msg.chunked, CopyChunk
  PROVE  ChunkedInv'
<1>1. /\ msg \in Message /\ msg.chunked /\ ~failed /\ ChunkedInv
      /\ get \in Nat /\ put \in Nat /\ get <= put /\ size \in Nat
  <2>1. at \in {"data", "rest"} /\ at # "header"
    BY DEF CopyChunk
  <2>2. HttpBodyInv /\ msg \in Message
    BY <2>1 DEF ContentInv
  <2>3. msg.chunked
    OBVIOUS
  <2>4. ~failed
    BY DEF Understood
  <2>5. QED
    BY <2>1, <2>2, <2>3, <2>4 DEF ContentInv, HttpBodyInv, HttpBodyTypeOK
<1>2. /\ out' = out \o SubSeq(msg.text, get + 1, get + CopyLen)
      /\ get' = get + CopyLen /\ size' = size - CopyLen
      /\ at' = IF size' = 0 THEN "eol" ELSE "rest"
      /\ UNCHANGED <<chunkedf, msg, sent, failed, put, cr, chunked, chunklen, xheaders>>
  BY DEF CopyChunk
<1>3. PICK i \in DOMAIN msg.chunks : InData(i)
  BY <1>1 DEF ChunkedInv, CopyChunk
<1> DEFINE k == msg.chunks[i]
           d == msg.chunks[i + 1]
           p == k.first + (k.size - size)
<1>4. size \in 1 .. k.size /\ get = k.data + (k.size - size)
  BY <1>3 DEF InData
<1>5. ~cr /\ i # Len(msg.chunks) /\ Taken(p)
  BY <1>3 DEF InData
<1>6. End(msg) \in Nat /\ msg.content \in Seq(Range(msg.text)) /\ Len(msg.content) \in Nat
  BY <1>1, MessageSeqs
<1>7. /\ k.data \in Nat /\ k.size \in Nat /\ k.first \in Nat /\ i + 1 \in DOMAIN msg.chunks
      /\ IsLine(msg.text, k.data + k.size, d.line)
      /\ \A l \in 1 .. k.size : msg.content[k.first + l] = msg.text[k.data + l]
      /\ d.first = k.first + k.size
  BY <1>1, <1>5, <1>6, ChunksTyped, ChunkOf
<1>8. d.first \in 0 .. Len(msg.content) /\ d.line \in Nat
  BY <1>1, <1>6, <1>7, ChunksTyped
<1>9. CopyLen \in 0 .. size
  BY <1>1 DEF CopyLen
<1> HIDE DEF k, d
<1>10. out' = SubSeq(msg.content, 1, p + CopyLen)
  <2>1. p \in Nat /\ p + CopyLen <= Len(msg.content)
    <3>1. k.size \in Nat /\ k.first \in Nat /\ k.first + k.size <= Len(msg.content)
      BY <1>6, <1>7, <1>8
    <3>2. size \in 1 .. k.size /\ CopyLen \in 0 .. size /\ Len(msg.content) \in Nat
      BY <1>4, <1>6, <1>9
    <3>3. QED BY ONLY <3>1, <3>2
  <2>2. \A l \in 1 .. CopyLen : msg.content[p + l] = msg.text[get + l]
    <3> SUFFICES ASSUME NEW l \in 1 .. CopyLen PROVE msg.content[p + l] = msg.text[get + l]
      OBVIOUS
    <3>1. (k.size - size) + l \in 1 .. k.size
      BY <1>4, <1>7, <1>9
    <3>2. msg.content[k.first + ((k.size - size) + l)] = msg.text[k.data + ((k.size - size) + l)]
      BY <1>7, <3>1
    <3>3. k.first + ((k.size - size) + l) = p + l /\ k.data + ((k.size - size) + l) = get + l
      BY <1>1, <1>4, <1>7, <1>9
    <3>4. QED BY <3>2, <3>3
  <2>3. CopyLen \in Nat /\ get \in Int /\ out = SubSeq(msg.content, 1, p)
    BY <1>1, <1>9, <1>5 DEF Taken
  <2> HIDE DEF p
  <2>4. SubSeq(msg.content, 1, p) \o SubSeq(msg.text, get + 1, get + CopyLen)
          = SubSeq(msg.content, 1, p + CopyLen)
    <3>1. p + CopyLen <= Len(msg.content) /\ p \in Nat /\ CopyLen \in Nat /\ get \in Int
      BY <2>1, <2>3
    <3> DEFINE S == Range(msg.text)
               content == msg.content
               q == CopyLen
               g == get
               text == msg.text
    <3>2. /\ content \in Seq(S) /\ p + q <= Len(content) /\ p \in Nat /\ q \in Nat /\ g \in Int
          /\ \A l \in 1 .. q : content[p + l] = text[g + l]
      BY <1>6, <2>2, <3>1
    <3> HIDE DEF S, content, q, g, text
    <3>3. SubSeq(content, 1, p) \o SubSeq(text, g + 1, g + q) = SubSeq(content, 1, p + q)
      BY ONLY <3>2, TakeMore, ZenonT(30)
    <3>4. QED BY ONLY <3>3, Zenon DEF content, q, g, text
  <2>5. out' = SubSeq(msg.content, 1, p) \o SubSeq(msg.text, get + 1, get + CopyLen)
    BY <1>2, <2>3
  <2>6. QED BY <2>4, <2>5
<1>11. CASE size' = 0
  <2>1. get' = k.data + k.size /\ p + CopyLen = k.first + k.size
    <3>1. size - CopyLen = 0 /\ get' = get + CopyLen
      BY <1>2, <1>11
    <3>2. size \in Nat /\ k.size \in Nat /\ k.first \in Nat /\ k.data \in Nat
      BY <1>1, <1>7
    <3>3. QED BY <1>4, <1>9, <3>1, <3>2
  <2>2. get' < d.line
    BY <2>1, <1>7 DEF IsLine
  <2>3. InEol(i)'
    BY <1>2, <1>5, <1>10, <1>11, <2>1, <2>2 DEF InEol, Taken, k, d
  <2>4. at' = "eol"
    BY <1>2, <1>11
  <2>5. QED BY <1>2, <1>3, <1>11, <2>3 DEF ChunkedInv, Line
<1>12. CASE size' # 0
  <2>1. /\ get' = k.data + (k.size - size') /\ p + CopyLen = k.first + (k.size - size')
        /\ size' \in 1 .. k.size
    <3>1. size' = size - CopyLen /\ get' = get + CopyLen
      BY <1>2
    <3>2. size \in Nat /\ k.size \in Nat /\ k.first \in Nat /\ k.data \in Nat
      BY <1>1, <1>7
    <3>3. QED BY <1>4, <1>9, <1>12, <3>1, <3>2
  <2>2. InData(i)'
    BY <1>2, <1>5, <1>10, <2>1 DEF InData, Taken, k
  <2>3. QED BY <1>2, <1>3, <1>12, <2>2 DEF ChunkedInv
<1>13. QED BY <1>11, <1>12

\* As long as a chunked message is being read its end is still ahead, and what
\* has come out is a first part of the content.
LEMMA EndAhead ==
  ASSUME ContentInv, Understood, msg.chunked, at \in Line \cup {"data", "rest"}
  PROVE  /\ get < MsgEnd /\ IsPrefix(out, msg.content)
         /\ at \in {"data", "rest"} => get + size < MsgEnd
<1>1. msg \in Message /\ ChunkedInv /\ get \in Nat /\ size \in Nat
  BY DEF ContentInv, HttpBodyInv, HttpBodyTypeOK, Line
<1>2. /\ End(msg) \in Nat /\ msg.content \in Seq(Range(msg.text))
      /\ Len(msg.content) \in Nat /\ MsgEnd = End(msg)
  BY <1>1, MessageSeqs DEF MsgEnd
<1>3. ASSUME NEW n \in 0 .. Len(msg.content), Taken(n) PROVE IsPrefix(out, msg.content)
  BY <1>2, <1>3, FirstPart DEF Taken
<1>4. CASE at = "size"
  <2>1. PICK i \in DOMAIN msg.chunks : InSize(i)
    BY <1>1, <1>4 DEF ChunkedInv
  <2>2. get \in msg.chunks[i].line .. msg.chunks[i].data - 1 /\ Taken(msg.chunks[i].first)
    BY <2>1 DEF InSize
  <2>3. /\ msg.chunks[i].line \in 0 .. End(msg) /\ msg.chunks[i].data \in 0 .. End(msg)
        /\ msg.chunks[i].first \in 0 .. Len(msg.content)
    BY <1>1, ChunksTyped
  <2>4. IsPrefix(out, msg.content)
    BY <1>3, <2>2, <2>3
  <2>5. QED BY <1>2, <1>4, <2>2, <2>3, <2>4
<1>5. CASE at \in {"data", "rest", "eol"}
  <2>1. PICK i \in DOMAIN msg.chunks : IF at = "eol" THEN InEol(i) ELSE InData(i)
    BY <1>1, <1>5 DEF ChunkedInv
  <2> DEFINE k == msg.chunks[i]
             d == msg.chunks[i + 1]
  <2>2. i # Len(msg.chunks)
    BY <1>5, <2>1 DEF InEol, InData
  <2>3. /\ k.data \in Nat /\ k.size \in Nat /\ k.first \in Nat /\ i + 1 \in DOMAIN msg.chunks
        /\ IsLine(msg.text, k.data + k.size, d.line) /\ d.first = k.first + k.size
    BY <1>1, <1>2, <2>2, ChunksTyped, ChunkOf
  <2>4. d.first \in 0 .. Len(msg.content) /\ d.line \in 0 .. End(msg)
    BY <1>1, <2>3, ChunksTyped
  <2>5. CASE at = "eol"
    <3>1. get < d.line /\ Taken(k.first + k.size)
      BY <2>1, <2>5 DEF InEol
    <3> HIDE DEF k, d
    <3>2. IsPrefix(out, msg.content)
      BY <1>3, <2>3, <2>4, <3>1
    <3>3. QED BY <1>1, <1>2, <2>4, <2>5, <3>1, <3>2
  <2>6. CASE at # "eol"
    <3>1. /\ size \in 1 .. k.size /\ get = k.data + (k.size - size)
          /\ Taken(k.first + (k.size - size))
      BY <2>1, <2>6 DEF InData
    <3> HIDE DEF k, d
    <3>2. k.first + (k.size - size) \in 0 .. Len(msg.content)
      <4>1. d.first \in 0 .. Len(msg.content) /\ Len(msg.content) \in Nat
        BY <2>4, <1>2
      <4>2. k.first \in Nat /\ k.size \in Nat /\ d.first = k.first + k.size
        BY <2>3
      <4>3. size \in 1 .. k.size
        BY <3>1
      <4>4. QED BY ONLY <4>1, <4>2, <4>3
    <3>3. IsPrefix(out, msg.content)
      BY <1>3, <3>1, <3>2
    <3>4. get + size = k.data + k.size /\ k.data + k.size < d.line
      BY <1>1, <2>3, <3>1 DEF IsLine
    <3>5. QED BY <1>1, <1>2, <2>4, <3>1, <3>3, <3>4
  <2>7. QED BY <2>5, <2>6
<1>6. CASE at \in {"trailer", "skip"}
  <2>1. PICK l \in DOMAIN msg.lines : InTrailer(l)
    BY <1>1, <1>6 DEF ChunkedInv
  <2>2. get \in msg.lines[l] .. NextLine(msg, l) - 1 /\ out = msg.content
    BY <2>1 DEF InTrailer
  <2>3. msg.lines[l] \in 0 .. End(msg) /\ NextLine(msg, l) \in 0 .. End(msg)
    BY <1>1, TrailerLineOf
  <2>4. IsPrefix(out, msg.content)
    <3>1. Taken(Len(msg.content))
      BY <1>2, <2>2, SubSeqFull DEF Taken
    <3>2. QED BY <1>2, <1>3, <3>1
  <2>5. QED BY <1>2, <1>6, <2>2, <2>3, <2>4
<1>7. QED BY <1>4, <1>5, <1>6 DEF Line

\* The numbers are well-ordered, which stands in for induction below.
LEMMA Least ==
  ASSUME NEW T, T \subseteq Nat, T # {}
  PROVE  \E x \in T : \A y \in T : x <= y
<1> DEFINE R == OpToRel(<, Nat)
<1>1. IsWellFoundedOn(R, Nat)
  BY NatLessThanWellFounded
<1> HIDE DEF R
<1>2. PICK x \in T : \A y \in T : ~(<<y, x>> \in R)
  BY <1>1, WFMin
<1>3. \A y \in T : ~(y < x)
  BY <1>2 DEF R, OpToRel
<1>4. QED BY <1>3

LEMMA Increasing ==
  ASSUME NEW f, NEW n \in Nat, \A i \in 1 .. n : f[i] \in Nat,
         \A i \in 1 .. n - 1 : f[i] < f[i + 1]
  PROVE  \A i, j \in 1 .. n : i < j => f[i] < f[j]
<1> SUFFICES ASSUME NEW i \in 1 .. n, NEW h \in i + 1 .. n, f[i] >= f[h] PROVE FALSE
  OBVIOUS
<1> DEFINE T == {j \in i + 1 .. n : f[i] >= f[j]}
<1>1. T \subseteq Nat /\ T # {}
  OBVIOUS
<1>2. PICK j \in T : \A y \in T : j <= y
  BY <1>1, Least
<1>3. j - 1 \notin T /\ j - 1 \in 1 .. n - 1 /\ j \in i + 1 .. n /\ f[i] >= f[j]
  BY <1>2
<1>4. f[j - 1] < f[j - 1 + 1] /\ j - 1 + 1 = j
  BY <1>3
<1>5. f[i] \in Nat /\ f[j] \in Nat /\ f[j - 1] \in Nat
  BY <1>3
<1>6. CASE j - 1 = i
  BY <1>3, <1>4, <1>5, <1>6
<1>7. CASE j - 1 # i
  <2>1. j - 1 \in i + 1 .. n
    BY <1>3, <1>7
  <2>2. f[i] < f[j - 1]
    BY <1>3, <1>5, <2>1
  <2>3. QED BY <1>3, <1>4, <1>5, <2>2
<1>8. QED BY <1>6, <1>7

\* With the trailer's offsets in hand getline finds its lines and no others.
LEMMA TrailerNames ==
  ASSUME msg \in Message, msg.chunked, put \in Nat, put >= MsgEnd,
         chunked = msg.lines[1], TrailerEnd = MsgEnd
  PROVE  {msg.text[g + 1] : g \in TrailerLines} = msg.trailers
<1> DEFINE n == Len(msg.lines)
           f == msg.lines
           E == MsgEnd
           starts == {g \in chunked .. put - 1 : g < TrailerEnd /\ (g = chunked \/ msg.text[g] = "LF")}
<1>1. n \in Nat \ {0} /\ DOMAIN f = 1 .. n /\ E \in Nat
  <2>1. msg.lines \in Seq(0 .. End(msg)) /\ msg.lines # <<>>
    BY MessagesWellFormed DEF TrailerOf
  <2>2. QED BY <2>1, EmptySeq, LenProperties, MessageSeqs DEF MsgEnd
<1>2. ASSUME NEW l \in 1 .. n
      PROVE  /\ f[l] \in Nat /\ IsLine(msg.text, f[l], NextLine(msg, l))
             /\ NextLine(msg, l) = IF l = n THEN E ELSE f[l + 1]
             /\ Empty(msg.text, f[l]) <=> l = n
  <2>1. /\ f[l] \in 0 .. End(msg) /\ IsLine(msg.text, f[l], NextLine(msg, l))
        /\ Empty(msg.text, f[l]) <=> l = n
    BY <1>1, TrailerLineOf
  <2>2. QED BY <1>1, <2>1 DEF NextLine, MsgEnd
<1>3. \A l \in 1 .. n - 1 : f[l] < f[l + 1]
  <2> SUFFICES ASSUME NEW l \in 1 .. n - 1 PROVE f[l] < f[l + 1]
    OBVIOUS
  <2>1. l \in 1 .. n /\ l # n
    BY <1>1
  <2>2. QED BY <1>2, <2>1 DEF IsLine
<1>4. \A i, j \in 1 .. n : i < j => f[i] < f[j]
  <2>1. \A l \in 1 .. n : f[l] \in Nat
    BY <1>2
  <2> HIDE DEF n, f
  <2>2. QED BY <1>1, <1>3, <2>1, Increasing
<1>5. f[n] < E
  BY <1>1, <1>2 DEF IsLine
<1>6. ASSUME NEW l \in 1 .. n PROVE f[l] \in starts
  <2>1. f[l] \in Nat /\ f[l] < E /\ f[1] <= f[l] /\ f[1] \in Nat
    <3>1. 1 \in 1 .. n /\ n \in 1 .. n
      BY <1>1
    <3>2. f[l] \in Nat /\ f[1] \in Nat /\ f[n] \in Nat
      BY <1>2, <3>1
    <3>3. f[1] <= f[l]
      BY <1>4, <3>1, <3>2
    <3>4. f[l] <= f[n]
      BY <1>4, <3>1, <3>2
    <3>5. QED BY <1>1, <1>5, <3>2, <3>3, <3>4
  <2>2. CASE l = 1
    BY <1>1, <2>1, <2>2
  <2>3. CASE l # 1
    <3>1. l - 1 \in 1 .. n /\ l - 1 # n /\ l - 1 + 1 = l
      BY <1>1, <2>3
    <3>2. IsLine(msg.text, f[l - 1], NextLine(msg, l - 1)) /\ NextLine(msg, l - 1) = f[l - 1 + 1]
      BY <1>2, <3>1
    <3>3. msg.text[f[l]] = "LF"
      BY <3>1, <3>2 DEF IsLine
    <3>4. QED BY <1>1, <2>1, <3>3
  <2>4. QED BY <2>2, <2>3
<1>7. ASSUME NEW g \in starts PROVE \E l \in 1 .. n : g = f[l]
  <2> DEFINE T == {l \in 1 .. n : g < NextLine(msg, l)}
  <2>0. 1 \in 1 .. n /\ n \in 1 .. n
    BY <1>1
  <2>1. g \in Nat /\ g < E /\ f[1] <= g /\ f[1] \in Nat
    BY <1>1, <1>2, <2>0
  <2>2. n \in T /\ T \subseteq Nat
    BY <1>1, <1>2, <2>0, <2>1
  <2>3. PICK l \in T : \A y \in T : l <= y
    BY <2>2, Least
  <2>4. l \in 1 .. n /\ g < NextLine(msg, l) /\ f[l] \in Nat
    BY <1>2, <2>3
  <2>5. f[l] <= g
    <3>1. CASE l = 1
      BY <2>1, <3>1
    <3>2. CASE l # 1
      <4>1. l - 1 \in 1 .. n /\ l - 1 # n /\ l - 1 \notin T /\ l - 1 + 1 = l
        BY <1>1, <2>3, <2>4, <3>2
      <4>2. ~(g < NextLine(msg, l - 1)) /\ NextLine(msg, l - 1) = f[l]
        BY <1>2, <4>1
      <4>3. QED BY <2>1, <2>4, <4>2
    <3>3. QED BY <3>1, <3>2
  <2>6. CASE g # f[l]
    <3>1. g > f[l] /\ f[1] <= f[l]
      <4>1. f[1] <= f[l]
        BY <1>4, <2>0, <2>1, <2>4
      <4>2. QED BY <2>1, <2>4, <2>5, <2>6, <4>1
    <3>2. g # chunked
      BY <2>1, <2>4, <3>1
    <3>3. msg.text[g] = "LF"
      BY <3>2
    <3>4. NextLine(msg, l) \in Nat
      BY <1>1, <1>2, <2>4
    <3>5. g \in f[l] + 1 .. NextLine(msg, l) - 1
      BY <2>1, <2>4, <3>1, <3>4
    <3>6. QED BY <1>2, <2>4, <3>3, <3>5 DEF IsLine
  <2>7. QED BY <2>4, <2>6
<1>8. TrailerLines = {f[l] : l \in 1 .. n - 1}
  <2>1. TrailerLines = {g \in starts : \A b \in starts : b <= g => ~Empty(msg.text, b)}
    BY DEF TrailerLines
  <2> HIDE DEF starts
  <2>2. ASSUME NEW l \in 1 .. n - 1 PROVE f[l] \in TrailerLines
    <3>1. l \in 1 .. n /\ l # n /\ n \in 1 .. n
      BY <1>1
    <3>2. ASSUME NEW b \in starts, b <= f[l] PROVE ~Empty(msg.text, b)
      <4>1. PICK i \in 1 .. n : b = f[i]
        BY <1>7
      <4>2. i # n
        BY <1>2, <1>4, <3>1, <3>2, <4>1
      <4>3. QED BY <1>2, <4>1, <4>2
    <3>3. QED BY <1>6, <2>1, <3>1, <3>2
  <2>3. ASSUME NEW g \in TrailerLines PROVE g \in {f[l] : l \in 1 .. n - 1}
    <3>1. g \in starts /\ ~Empty(msg.text, g)
      <4>1. g \in starts /\ \A b \in starts : b <= g => ~Empty(msg.text, b)
        BY <2>1
      <4>2. PICK i \in 1 .. n : g = f[i]
        BY <1>7, <4>1
      <4>3. g <= g
        BY <1>2, <4>2
      <4>4. QED BY <4>1, <4>3
    <3>2. PICK l \in 1 .. n : g = f[l]
      BY <1>7, <3>1
    <3>3. l # n
      BY <1>2, <3>1, <3>2
    <3>4. QED BY <1>1, <3>2, <3>3
  <2>4. QED BY <2>2, <2>3
<1>9. msg.trailers = {msg.text[f[i] + 1] : i \in 1 .. n - 1}
  BY MessagesWellFormed DEF TrailerOf
<1>10. QED BY <1>8, <1>9

\* The first part of a text from offset h on, and a longer one.
LEMMA PartOfText ==
  ASSUME NEW S, NEW t \in Seq(S), NEW h \in Nat, NEW p \in Nat, NEW q \in Nat,
         h <= p, p <= q, q <= Len(t)
  PROVE  IsPrefix(SubSeq(t, h + 1, p), SubSeq(t, h + 1, q))
<1> DEFINE a == SubSeq(t, h + 1, p)
           b == SubSeq(t, h + 1, q)
<1>1. Len(t) \in Nat /\ \A i \in 1 .. Len(t) : t[i] \in S
  BY LenProperties, ElementOfSeq
<1>2. a \in Seq(S) /\ Len(a) = p - h /\ \A i \in 1 .. p - h : a[i] = t[h + i]
  <2>1. \A i \in h + 1 .. p : t[i] \in S
    BY <1>1
  <2>2. /\ a \in Seq(S) /\ Len(a) = IF h + 1 <= p THEN p - (h + 1) + 1 ELSE 0
        /\ \A i \in 1 .. p - (h + 1) + 1 : a[i] = t[h + 1 + i - 1]
    BY <2>1, SubSeqProperties
  <2> HIDE DEF a
  <2>3. QED BY <2>2
<1>3. b \in Seq(S) /\ Len(b) = q - h /\ \A i \in 1 .. q - h : b[i] = t[h + i]
  <2>1. \A i \in h + 1 .. q : t[i] \in S
    BY <1>1
  <2>2. /\ b \in Seq(S) /\ Len(b) = IF h + 1 <= q THEN q - (h + 1) + 1 ELSE 0
        /\ \A i \in 1 .. q - (h + 1) + 1 : b[i] = t[h + 1 + i - 1]
    BY <2>1, SubSeqProperties
  <2> HIDE DEF b
  <2>3. QED BY <2>2
<1> HIDE DEF a, b
<1> DEFINE c == SubSeq(b, 1, p - h)
<1>4. c \in Seq(S) /\ Len(c) = p - h /\ \A i \in 1 .. p - h : c[i] = b[i]
  <2>1. \A i \in 1 .. p - h : b[i] \in S
    BY <1>3, ElementOfSeq
  <2>2. p - h \in Int
    OBVIOUS
  <2>3. QED BY <2>1, <2>2, SubSeqProperties
<1>5. IsPrefix(c, b)
  BY <1>3, FirstPart
<1> HIDE DEF c
<1>6. c = a
  <2>1. \A i \in 1 .. p - h : c[i] = a[i]
    <3>1. p - h <= q - h /\ p - h \in Nat /\ q - h \in Nat
      OBVIOUS
    <3>2. \A i \in 1 .. p - h : i \in 1 .. q - h
      BY <3>1
    <3>3. QED BY <1>2, <1>3, <1>4, <3>2
  <2>2. QED BY <1>2, <1>4, <2>1, SeqEqual
<1>7. QED BY <1>5, <1>6 DEF a, b

LEMMA ParseHeadersContent ==
  ASSUME ContentInv, HttpBodyInv', NEW m \in Message, NEW long \in BOOLEAN,
         NEW k \in 1 .. Len(m.text), ParseHeaders(m, k, long)
  PROVE  ContentInv'
<1>1. /\ at = "header" /\ ~cr /\ out = <<>> /\ k >= m.head
      /\ msg' = m /\ sent' = k /\ put' = k /\ get' = m.head /\ failed' = long
      /\ UNCHANGED <<cr, out, chunked, chunklen, xheaders>>
  BY DEF ContentInv, HttpBodyInv, ParseHeaders
<1>2. PICK known \in {TRUE, ~long} :
        /\ chunkedf' = (chunkedf \/ (known /\ m.chunked))
        /\ at' = IF chunkedf' THEN "size" ELSE "plain"
        /\ size' = IF known /\ ~chunkedf' THEN m.length ELSE 0
  BY DEF ParseHeaders, ChunkedOnce
<1>3. ASSUME ~long, m.chunked PROVE ChunkedInv'
  <2>1. at' = "size" /\ size' = 0
    BY <1>2, <1>3
  <2>2. 1 \in DOMAIN m.chunks /\ m.chunks[1].line = m.head /\ m.chunks[1].first = 0
    <3> DEFINE C == [line : 0 .. End(m), data : 0 .. End(m), first : 0 .. Len(m.content), size : Nat]
    <3>1. /\ m.chunks \in Seq(C) /\ m.chunks # <<>>
          /\ m.chunks[1].line = m.head /\ m.chunks[1].first = 0
      BY <1>3, MessagesWellFormed DEF ChunksOf
    <3> HIDE DEF C
    <3>2. QED BY <3>1, EmptySeq, LenProperties
  <2>3. m.head < m.chunks[1].data /\ m.chunks[1].data \in Int /\ m.head \in Int
    BY <1>3, <2>2, ChunkOf, ChunksTyped, MessageSeqs DEF IsLine
  <2>4. SubSeq(m.content, 1, 0) = <<>>
    BY SubSeqEmpty
  <2>5. ~Nonzero(m.text, m.head, m.head)
    BY <2>3 DEF Nonzero
  <2>6. InSize(1)'
    BY <1>1, <2>1, <2>2, <2>3, <2>4, <2>5 DEF InSize, Taken
  <2>7. QED BY <1>1, <2>1, <2>2, <2>6 DEF ChunkedInv, Line
<1>4. ASSUME ~long, ~m.chunked, ~chunkedf' PROVE LengthInv'
  BY <1>1, <1>2, <1>4 DEF LengthInv
<1>5. Understood' => ~long /\ chunkedf' = m.chunked
  BY <1>1 DEF Understood, ReadAsDeclared
<1>6. QED BY <1>1, <1>2, <1>3, <1>4, <1>5 DEF ContentInv

\* ContentInv is inductive.
LEMMA ContentInvStep ==
  ASSUME ContentInv,
         \/ HttpBodyNext \/ Reset \/ UNCHANGED httpBodyVars
         \/ \E m \in Message, long \in BOOLEAN : \E k \in 1 .. Len(m.text) : ParseHeaders(m, k, long)
  PROVE  ContentInv'
<1>1. HttpBodyInv'
  BY HttpBodyInvStep DEF ContentInv
<1>2. ASSUME NEW m \in Message, NEW long \in BOOLEAN, NEW k \in 1 .. Len(m.text),
             ParseHeaders(m, k, long)
      PROVE  ContentInv'
  BY <1>1, <1>2, ParseHeadersContent
<1>3. ASSUME at # "header", UNCHANGED <<chunkedf, msg, failed>>, at' # "header",
             ~failed => put' = sent',
             failed => at' \in {"size", "plain", "short", "eof", "parsed"},
             Understood => IF msg.chunked THEN ChunkedInv' ELSE LengthInv'
      PROVE  ContentInv'
  <2>1. Understood' => Understood
    BY <1>3 DEF Understood, ReadAsDeclared, Countable
  <2>2. QED BY <1>1, <1>3, <2>1 DEF ContentInv
<1>4. ASSUME at # "header"
      PROVE  /\ msg \in Message /\ HttpBodyInv
             /\ Understood => IF msg.chunked THEN ChunkedInv ELSE LengthInv
             /\ ~failed => put = sent
             /\ failed => at \in {"size", "plain", "short", "eof", "parsed"}
             /\ put \in Nat /\ sent \in Nat /\ get \in Nat /\ get <= put /\ size \in Nat
             /\ End(msg) \in Nat /\ MsgEnd = End(msg) /\ msg.head \in Nat
             /\ msg.chunked \in BOOLEAN /\ msg.length \in Nat
  <2>1. /\ msg \in Message /\ HttpBodyInv
        /\ Understood => IF msg.chunked THEN ChunkedInv ELSE LengthInv
        /\ ~failed => put = sent
        /\ failed => at \in {"size", "plain", "short", "eof", "parsed"}
    BY <1>4 DEF ContentInv
  <2>2. End(msg) \in Nat /\ MsgEnd = End(msg) /\ msg.head \in Nat
    BY <2>1, MessageSeqs DEF MsgEnd
  <2>3. /\ Len(msg.text) \in Nat /\ msg.chunked \in BOOLEAN /\ msg.length \in Nat
    BY <2>1, MessageTyped
  <2>4. put \in Nat /\ sent \in Nat /\ get \in Nat /\ get <= put /\ size \in Nat
    BY <2>1, <2>3 DEF HttpBodyInv, HttpBodyTypeOK
  <2>5. QED BY <2>1, <2>2, <2>3, <2>4
<1>5. ASSUME NEW k \in 1 .. ReadBlock, Read(k) PROVE ContentInv'
  <2>1. /\ at \in Line \cup {"rest", "plain"} /\ k \in Nat
        /\ sent' = sent + k /\ put' = IF failed THEN put ELSE put + k
        /\ UNCHANGED <<chunkedf, msg, failed, get, at, cr, size, out, chunked, chunklen, xheaders>>
    BY <1>5, HttpBodyAssumption DEF Read, ReadAhead
  <2>2. at # "header"
    BY <2>1 DEF Line
  <2>3. ~failed => put' = sent'
    BY <1>4, <2>1, <2>2
  <2>4. ASSUME Understood, msg.chunked PROVE ChunkedInv'
    <3>1. ChunkedInv
      BY <1>4, <2>2, <2>4
    <3>2. QED BY <2>1, <3>1 DEF ChunkedInv, InSize, InData, InEol, InTrailer, Taken, MsgEnd
  <2>5. ASSUME Understood, ~msg.chunked PROVE LengthInv'
    <3>1. LengthInv
      BY <1>4, <2>2, <2>5
    <3>2. at \notin {"short", "parsed"}
      BY <2>1 DEF Line
    <3>3. msg.head <= sent'
      BY <1>4, <2>1, <2>2, <3>1 DEF LengthInv
    <3>4. QED BY <2>1, <3>1, <3>2, <3>3 DEF LengthInv
  <2>6. QED BY <1>3, <1>4, <2>1, <2>2, <2>3, <2>4, <2>5
<1>6. CASE ReadFails
  <2>1. /\ ~ReadAhead /\ at \in Line \cup {"rest", "plain"}
        /\ at' = IF at = "plain" THEN "short" ELSE "eof"
        /\ UNCHANGED <<chunkedf, msg, sent, failed, put, get, cr, size, out, chunked, chunklen, xheaders>>
    BY <1>6 DEF ReadFails, ReadAhead
  <2>2. at # "header"
    BY <2>1 DEF Line
  <2>3. ASSUME Understood, msg.chunked PROVE ChunkedInv'
    <3>1. ChunkedInv
      BY <1>4, <2>2, <2>3
    <3>2. at # "plain" /\ at \in Line \cup {"data", "rest"}
      BY <2>1, <3>1 DEF ChunkedInv, Line
    <3>3. get < MsgEnd /\ IsPrefix(out, msg.content)
      BY <2>3, <3>2, EndAhead
    <3>4. QED BY <2>1, <3>2, <3>3 DEF ChunkedInv, MsgEnd
  <2>4. ASSUME Understood, ~msg.chunked PROVE LengthInv'
    <3>1. LengthInv
      BY <1>4, <2>2, <2>4
    <3>2. at = "plain" /\ size = msg.length
      BY <2>1, <3>1 DEF LengthInv, Line
    <3>3. ~(put >= msg.head + size)
      BY <2>1, <3>2 DEF ReadAhead, Line
    <3>4. End(msg) = msg.head + msg.length
      BY <1>4, <2>2, <2>4, MessagesWellFormed
    <3>5. sent < MsgEnd
      BY <1>4, <2>2, <2>4, <3>2, <3>3, <3>4 DEF Understood
    <3>6. QED BY <2>1, <3>1, <3>2, <3>5 DEF LengthInv, MsgEnd
  <2>5. QED BY <1>3, <1>4, <2>1, <2>2, <2>3, <2>4
<1>7. CASE TakeChar
  <2>1. at \in Line /\ ~failed /\ UNCHANGED <<chunkedf, msg, sent, failed, put>>
    BY <1>7 DEF TakeChar, ReadAhead, Line
  <2>2. at # "header"
    BY <2>1 DEF Line
  <2>3. ASSUME Understood PROVE msg.chunked /\ ChunkedInv'
    <3>1. msg.chunked
      BY <1>4, <2>1, <2>2, <2>3 DEF LengthInv, Line
    <3>2. QED BY <1>7, <2>3, <3>1, TakeCharContent
  <2>4. at' # "header"
    BY <1>7, <2>1 DEF TakeChar, EndLine, AfterLine, Line
  <2>5. QED BY <1>3, <1>4, <2>1, <2>2, <2>3, <2>4
<1>8. CASE CopyChunk
  <2>1. /\ at \in {"data", "rest"} /\ at' \in {"eol", "rest"}
        /\ UNCHANGED <<chunkedf, msg, sent, failed, put>>
    BY <1>8 DEF CopyChunk
  <2>2. at # "header" /\ ~failed
    BY <1>4, <2>1
  <2>3. ASSUME Understood PROVE msg.chunked /\ ChunkedInv'
    <3>1. msg.chunked
      BY <1>4, <2>1, <2>2, <2>3 DEF LengthInv
    <3>2. QED BY <1>8, <2>3, <3>1, CopyChunkContent
  <2>4. QED BY <1>3, <1>4, <2>1, <2>2, <2>3
<1>9. CASE TakeBody
  <2>1. /\ at \in {"plain", "short"} /\ at' = "parsed"
        /\ out' = IF failed THEN <<>> ELSE SubSeq(msg.text, msg.head + 1, put)
        /\ UNCHANGED <<chunkedf, msg, sent, failed, put>>
    BY <1>9 DEF TakeBody
  <2>2. at # "header"
    BY <2>1
  <2>3. Understood => ~msg.chunked /\ ~failed
    BY <1>4, <2>1, <2>2 DEF ChunkedInv, Line, Understood
  <2>4. ASSUME Understood PROVE LengthInv'
    <3>1. LengthInv /\ put = sent /\ ~failed
      BY <1>4, <2>2, <2>3, <2>4
    <3>2. QED BY <2>1, <3>1 DEF LengthInv
  <2>5. QED BY <1>3, <1>4, <2>1, <2>2, <2>3, <2>4
<1>10. CASE ParseXheaders
  <2>1. /\ at \in {"ended", "eof"} /\ at' = "parsed"
        /\ xheaders' = IF failed \/ chunked <= 0 THEN {}
                       ELSE {msg.text[g + 1] : g \in TrailerLines} \ Forbidden
        /\ UNCHANGED <<chunkedf, msg, sent, failed, put, get, cr, size, out, chunked, chunklen>>
    BY <1>10 DEF ParseXheaders
  <2>2. at # "header"
    BY <2>1
  <2>3. Understood => msg.chunked
    BY <1>4, <2>1, <2>2 DEF LengthInv
  <2>4. ASSUME Understood PROVE ChunkedInv'
    <3>1. ChunkedInv /\ msg \in Message /\ msg.chunked /\ ~failed
      BY <1>4, <2>2, <2>3, <2>4 DEF Understood
    <3>2. IsPrefix(out, msg.content)
      <4>1. CASE at = "eof"
        BY <3>1, <4>1 DEF ChunkedInv
      <4>2. CASE at = "ended"
        <5>1. out = msg.content /\ msg.content \in Seq(Range(msg.text))
          BY <3>1, <4>2, MessageSeqs DEF ChunkedInv
        <5>2. IsPrefix(msg.content, msg.content)
          BY <5>1, WholeIsPrefix
        <5>3. QED BY <5>1, <5>2
      <4>3. QED BY <2>1, <4>1, <4>2
    <3>3. ASSUME get = MsgEnd PROVE xheaders' = msg.trailers \ Forbidden
      <4>1. at = "ended"
        BY <1>4, <2>1, <2>2, <3>1, <3>3 DEF ChunkedInv
      <4>2. chunked = msg.lines[1] /\ chunklen = MsgEnd - chunked /\ chunked \in Nat
        BY <1>4, <2>2, <3>1, <4>1 DEF ChunkedInv, HttpBodyInv, HttpBodyTypeOK
      <4>3. TrailerEnd = MsgEnd
        BY <1>4, <2>2, <4>2 DEF TrailerEnd
      <4>4. {msg.text[g + 1] : g \in TrailerLines} = msg.trailers
        BY <1>4, <2>2, <3>1, <3>3, <4>2, <4>3, TrailerNames
      <4>5. chunked > 0
        <5>1. Len(msg.chunks) \in DOMAIN msg.chunks
          <6> DEFINE C == [line : 0 .. End(msg), data : 0 .. End(msg),
                           first : 0 .. Len(msg.content), size : Nat]
          <6>1. msg.chunks \in Seq(C) /\ msg.chunks # <<>>
            BY <3>1, MessagesWellFormed DEF ChunksOf
          <6> HIDE DEF C
          <6>2. QED BY <6>1, EmptySeq, LenProperties
        <5> DEFINE k == msg.chunks[Len(msg.chunks)]
        <5>2. /\ k.line \in Nat /\ k.data \in Nat
              /\ IsLine(msg.text, k.line, k.data) /\ k.data = msg.lines[1]
          BY <1>4, <2>2, <3>1, <5>1, ChunksTyped, ChunkOf
        <5>3. QED BY <4>2, <5>2 DEF IsLine
      <4>6. ~(failed \/ chunked <= 0)
        BY <3>1, <4>2, <4>5
      <4>7. QED BY <2>1, <4>4, <4>6
    <3>4. QED BY <2>1, <3>2, <3>3 DEF ChunkedInv, MsgEnd
  <2>5. QED BY <1>3, <1>4, <2>1, <2>2, <2>3, <2>4
<1>11. CASE Reset
  BY <1>1, <1>11 DEF Reset, ContentInv, Understood
<1>12. CASE UNCHANGED httpBodyVars
  BY <1>1, <1>12 DEF httpBodyVars, ContentInv, ChunkedInv, LengthInv, InSize, InData, InEol,
     InTrailer, Taken, MsgEnd, Understood, ReadAsDeclared, Countable
<1>13. QED
  BY <1>2, <1>5, <1>6, <1>7, <1>8, <1>9, <1>10, <1>11, <1>12 DEF HttpBodyNext

\* The invariant gives the three promises about bodies.
LEMMA ContentInvSuffices ==
  ASSUME ContentInv
  PROVE  BodyIsContent /\ NeverWaitsForMore /\ XheadersAreTrailer
<1>1. ASSUME Understood
      PROVE  /\ at # "header" /\ ~failed /\ msg \in Message /\ put = sent /\ put \in Nat /\ sent \in Nat /\ get \in Nat /\ size \in Nat
             /\ sent <= Len(msg.text)
             /\ IF msg.chunked THEN ChunkedInv ELSE LengthInv
             /\ End(msg) \in Nat /\ MsgEnd = End(msg) /\ msg.head \in 1 .. End(msg)
             /\ End(msg) <= Len(msg.text) /\ Len(msg.text) \in Nat
             /\ msg.text \in Seq(Range(msg.text)) /\ msg.content \in Seq(Range(msg.text))
  <2>1. at # "header" /\ ~failed /\ msg \in Message /\ put = sent /\ HttpBodyInv
    BY <1>1 DEF ContentInv, Understood
  <2>2. IF msg.chunked THEN ChunkedInv ELSE LengthInv
    BY <1>1 DEF ContentInv
  <2>3. Len(msg.text) \in Nat
    BY <2>1, MessageTyped
  <2>4. put \in Nat /\ sent \in Nat /\ get \in Nat /\ size \in Nat /\ sent <= Len(msg.text)
    BY <2>1, <2>3 DEF HttpBodyInv, HttpBodyTypeOK
  <2>5. QED BY <2>1, <2>2, <2>3, <2>4, MessageSeqs DEF MsgEnd
<1>2. BodyIsContent
  <2> SUFFICES ASSUME Understood
               PROVE  IF msg.chunked
                      THEN /\ IsPrefix(out, msg.content)
                           /\ at = "ended" => out = msg.content /\ get = MsgEnd
                      ELSE at = "parsed" =>
                             IF sent < MsgEnd THEN IsPrefix(out, msg.content)
                             ELSE IsPrefix(msg.content, out)
    BY DEF BodyIsContent
  <2>1. CASE msg.chunked
    <3>1. ChunkedInv
      BY <1>1, <2>1
    <3>2. at = "ended" => out = msg.content /\ get = MsgEnd
      BY <3>1 DEF ChunkedInv
    <3>3. CASE at = "ended"
      <4>1. IsPrefix(msg.content, msg.content)
        BY <1>1, WholeIsPrefix
      <4>2. QED BY <2>1, <3>2, <3>3, <4>1
    <3>4. CASE at \in {"eof", "parsed"}
      <4>1. IsPrefix(out, msg.content)
        BY <3>1, <3>4 DEF ChunkedInv
      <4>2. QED BY <2>1, <3>4, <4>1
    <3>5. CASE at \in Line \cup {"data", "rest"}
      <4>1. IsPrefix(out, msg.content) /\ at # "ended"
        BY <2>1, <3>5, EndAhead DEF Line
      <4>2. QED BY <2>1, <4>1
    <3>6. QED BY <3>1, <3>3, <3>4, <3>5 DEF ChunkedInv
  <2>2. ASSUME ~msg.chunked, at = "parsed"
        PROVE  IF sent < MsgEnd THEN IsPrefix(out, msg.content) ELSE IsPrefix(msg.content, out)
    <3>1. out = SubSeq(msg.text, msg.head + 1, sent) /\ msg.head <= sent
      BY <1>1, <2>2 DEF LengthInv
    <3>2. msg.content = SubSeq(msg.text, msg.head + 1, End(msg))
      BY <1>1, <2>2, MessagesWellFormed
    <3>3. CASE sent < MsgEnd
      <4>1. IsPrefix(out, msg.content)
        BY <1>1, <3>1, <3>2, <3>3, PartOfText
      <4>2. QED BY <3>3, <4>1
    <3>4. CASE ~(sent < MsgEnd)
      <4>1. IsPrefix(msg.content, out)
        BY <1>1, <3>1, <3>2, <3>4, PartOfText
      <4>2. QED BY <3>4, <4>1
    <3>5. QED BY <3>3, <3>4
  <2>3. QED BY <2>1, <2>2
<1>3. NeverWaitsForMore
  <2> SUFFICES ASSUME Understood, ~ReadAhead PROVE sent < MsgEnd
    BY DEF NeverWaitsForMore
  <2>1. at \in Line \cup {"rest", "plain"}
    BY DEF ReadAhead
  <2>2. CASE msg.chunked
    <3>1. at # "plain"
      BY <1>1, <2>2 DEF ChunkedInv, Line
    <3>2. get < MsgEnd
      BY <2>1, <2>2, <3>1, EndAhead
    <3>3. at = "rest" => get + size < MsgEnd
      BY <2>2, EndAhead
    <3>4. CASE at \in Line
      <4>1. ~(put > get)
        BY <1>1, <3>4 DEF ReadAhead, Line
      <4>2. QED BY <1>1, <3>2, <4>1
    <3>5. CASE at = "rest"
      <4>1. ~(put - get >= size)
        BY <3>5 DEF ReadAhead, Line
      <4>2. QED BY <1>1, <3>3, <3>5, <4>1
    <3>6. QED BY <2>1, <3>1, <3>4, <3>5
  <2>3. CASE ~msg.chunked
    <3>1. at = "plain" /\ size = msg.length
      BY <1>1, <2>1, <2>3 DEF LengthInv, Line
    <3>2. ~(put >= msg.head + size)
      BY <3>1 DEF ReadAhead, Line
    <3>3. End(msg) = msg.head + msg.length
      BY <1>1, <2>3, MessagesWellFormed
    <3>4. msg.length \in Nat
      BY <1>1, MessageTyped
    <3>5. QED BY <1>1, <3>1, <3>2, <3>3, <3>4
  <2>4. QED BY <2>2, <2>3
<1>4. XheadersAreTrailer
  BY <1>1 DEF XheadersAreTrailer, ChunkedInv
<1>5. QED BY <1>2, <1>3, <1>4
===============================================================================
