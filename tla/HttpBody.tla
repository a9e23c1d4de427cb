-------------------------------- MODULE HttpBody --------------------------------
(***************************************************************************)
(* httpbuf.cpp after the header: read_body and body, read_chunked and      *)
(* parse_xheaders, on a stream that the client fills in parts of any size  *)
(* and may stop filling, and the choice between them in sock_func.         *)
(* Offsets are offsets in the stream: the header is its first msg.head     *)
(* characters.  Of the characters only those that the code tells apart are *)
(* told apart.                                                             *)
(***************************************************************************)
EXTENDS Integers, SequencesExt

CONSTANTS Message,    \* what clients send
          ReadBlock,  \* sizeof buf: the most a read brings
          Forbidden   \* verboten_xheaders

Digit == {"0", "1", "2", "a"}
Line == {"size", "eol", "trailer", "skip"}
NoMessage == [head |-> 0, chunked |-> FALSE, next |-> 0, length |-> 0, text |-> <<>>,
              content |-> <<>>, chunks |-> <<>>, lines |-> <<>>, trailers |-> {}]

\* text: all that is sent.  length: its CONTENT-LENGTH.  content, trailers: what
\* the client means.  next: how many characters of the text are after its end.
ASSUME HttpBodyAssumption ==
  /\ ReadBlock \in Nat \ {0}
  /\ \A m \in Message :
       /\ Len(m.text) \in Nat
       /\ m.head \in 1 .. Len(m.text) /\ m.next \in 0 .. Len(m.text) - m.head
       /\ m.length \in Nat /\ m.chunked \in BOOLEAN

End(m) == Len(m.text) - m.next

\* From offset i to offset j of t is a line, with its end.
IsLine(t, i, j) ==
  /\ i < j /\ t[j] = "LF"
  /\ \A k \in i + 1 .. j - 1 : t[k] # "LF" /\ (t[k] = "CR" => k = j - 1)
Empty(t, i) == t[i + 1] \in {"CR", "LF"}

\* What a digit says.
Worth == [d \in Digit |-> CASE d = "0" -> 0 [] d = "1" -> 1 [] d = "2" -> 2 [] d = "a" -> 10]

\* The line from offset i to j of t starts with the hexadecimal number n, and what
\* follows it in the line, an extension, is anything.
SizeIs(t, i, j, n) ==
  \E k \in i + 1 .. j - 1 :
    LET number[l \in i .. k] == IF l = i THEN 0 ELSE 16 * number[l - 1] + Worth[t[l]]
    IN  /\ \A l \in i + 1 .. k : t[l] \in Digit
        /\ t[k + 1] \notin Digit
        /\ n = number[k]

\* chunks: of each the offsets of its size line and of its data, how much of the
\* content is in those before it, its size; the last one has none.
ChunksOf(m) ==
  /\ m.chunks \in Seq([line : 0 .. End(m), data : 0 .. End(m),
                       first : 0 .. Len(m.content), size : Nat])
  /\ m.chunks # <<>> /\ m.chunks[1].line = m.head /\ m.chunks[1].first = 0
  /\ \A i \in DOMAIN m.chunks :
       LET c == m.chunks[i] IN
       /\ IsLine(m.text, c.line, c.data) /\ SizeIs(m.text, c.line, c.data, c.size)
       /\ c.size = 0 <=> i = Len(m.chunks)
       /\ IF i = Len(m.chunks) THEN c.first = Len(m.content)
          ELSE LET d == m.chunks[i + 1] IN
               /\ \A k \in 1 .. c.size : m.content[c.first + k] = m.text[c.data + k]
               /\ d.first = c.first + c.size
               /\ IsLine(m.text, c.data + c.size, d.line) /\ Empty(m.text, c.data + c.size)

\* lines: the offsets of the lines of the trailer, of which the last is empty.
TrailerOf(m) ==
  /\ m.lines \in Seq(0 .. End(m))
  /\ m.lines # <<>> /\ m.lines[1] = m.chunks[Len(m.chunks)].data
  /\ \A i \in DOMAIN m.lines :
       /\ IsLine(m.text, m.lines[i],
                 IF i = Len(m.lines) THEN End(m) ELSE m.lines[i + 1])
       /\ Empty(m.text, m.lines[i]) <=> i = Len(m.lines)
  /\ m.trailers = {m.text[m.lines[i] + 1] : i \in 1 .. Len(m.lines) - 1}

\* What a client sends is its content in one of the two ways.
ASSUME MessagesWellFormed ==
  \A m \in Message :
    /\ m.text \in Seq(Range(m.text)) /\ m.content \in Seq(Range(m.text))
    /\ IF m.chunked THEN ChunksOf(m) /\ TrailerOf(m)
       ELSE /\ End(m) = m.head + m.length
            /\ m.content = SubSeq(m.text, m.head + 1, End(m))

VARIABLES
  chunkedf,  \* of sock_func: a request of the connection was chunked
  msg,       \* the message
  sent,      \* how much of it the reads have brought
  failed,    \* the stream's failbit: nothing gets into it
  put,       \* tellp
  get,       \* tellg
  at,        \* where in the code
  cr,        \* got_eol has a \r and waits for the character after it
  size,      \* chunk_size, of which what is copied is taken off
  out,       \* unchunked, or what body() returns
  chunked,   \* hdr_chunked
  chunklen,  \* hdr_chunklen
  xheaders   \* the headers parse_xheaders inserts

httpBodyVars ==
  <<chunkedf, msg, sent, failed, put, get, at, cr, size, out, chunked, chunklen, xheaders>>

HttpBodyInit ==
  /\ chunkedf = FALSE
  /\ msg = NoMessage
  /\ sent = 0 /\ put = 0 /\ get = 0
  /\ failed = FALSE /\ cr = FALSE
  /\ at = "header"
  /\ size = 0 /\ out = <<>> /\ xheaders = {}
  /\ chunked = 0 /\ chunklen = 0

\* chunkedf with the header of another request, which may declare a chunked body.
\* Neither chunkedf nor the words it is looked up in are reset between requests.
ChunkedOnce(declared) == chunkedf \/ declared

\* parse_headers, with k characters of the message m in the stream, and the choice
\* that sock_func makes behind it.  A header line that is longer than its buffer
\* sets failbit, and what that line and those after it say is lost.
ParseHeaders(m, k, long) ==
  /\ at = "header"
  /\ k \in m.head .. Len(m.text)
  /\ msg' = m
  /\ sent' = k /\ put' = k
  /\ get' = m.head
  /\ failed' = long
  /\ \E known \in {TRUE, ~long} :
       /\ chunkedf' = ChunkedOnce(known /\ m.chunked)
       /\ at' = IF chunkedf' THEN "size" ELSE "plain"
       /\ size' = IF known /\ ~chunkedf' THEN m.length ELSE 0
  /\ UNCHANGED <<cr, out, chunked, chunklen, xheaders>>

\* The most that a read may bring: the rest of a chunk is read by itself.
Room == IF at = "rest" /\ size - (put - get) < ReadBlock
        THEN size - (put - get) ELSE ReadBlock

\* Mutant of ReadAhead: a body is read until there is something after it.
ReadAheadPast ==
  CASE at \in Line -> ~failed /\ put > get
    [] at = "rest" -> put - get >= size
    [] at = "plain" -> failed \/ size = 0 \/ put > msg.head + size
    [] OTHER -> TRUE

\* What is in the stream is enough to go on.
ReadAhead ==
  CASE at \in Line -> ~failed /\ put > get
    [] at = "rest" -> put - get >= size
    [] at = "plain" -> failed \/ size = 0 \/ put >= msg.head + size
    [] OTHER -> TRUE

\* A read brings n characters; a stream that failed takes none of them.
Read(n) ==
  /\ ~ReadAhead
  /\ n <= Room /\ sent + n <= Len(msg.text)
  /\ sent' = sent + n
  /\ put' = IF failed THEN put ELSE put + n
  /\ UNCHANGED <<chunkedf, msg, failed, get, at, cr, size, out, chunked, chunklen, xheaders>>

\* EOF or an error: the callback's result is returned.
ReadFails ==
  /\ ~ReadAhead
  /\ at' = IF at = "plain" THEN "short" ELSE "eof"
  /\ UNCHANGED <<chunkedf, msg, sent, failed, put, get, cr, size, out, chunked, chunklen, xheaders>>

\* Mutant of Value: a letter's low bits are its value.
LowBits(c) == CASE c = "0" -> 0 [] c = "1" -> 1 [] c = "2" -> 2 [] c = "a" -> 1

Value(c) == CASE c = "0" -> 0 [] c = "1" -> 1 [] c = "2" -> 2 [] c = "a" -> 10

\* What comes after the end of a line.
AfterLine ==
  CASE at = "size" -> IF size = 0 THEN "trailer" ELSE "data"
    [] at = "eol" -> "size"
    [] at = "trailer" -> "ended"
    [] at = "skip" -> "trailer"

\* A line has ended, the next character is at g.
EndLine(g) ==
  /\ get' = g
  /\ at' = AfterLine
  /\ cr' = FALSE
  /\ chunked' = IF at = "size" /\ size = 0 THEN g ELSE chunked
  /\ chunklen' = IF at = "trailer" THEN g - chunked ELSE chunklen
  /\ UNCHANGED size

\* get_char and got_eol.  Of a size line the digits count, whatever is between
\* them; after a chunk any character passes for the end of a line.
TakeChar ==
  LET c == msg.text[get + 1] IN
  /\ at \in Line /\ ReadAhead
  /\ IF c = "LF" THEN EndLine(get + 1)
     ELSE IF cr THEN EndLine(get)  \* unget
     ELSE /\ get' = get + 1
          /\ cr' = (c = "CR")
          /\ at' = IF c = "CR" THEN at
                   ELSE CASE at = "eol" -> "size" [] at = "size" -> at [] OTHER -> "skip"
          /\ size' = IF at = "size" /\ c \in Digit THEN 10 * size + Value(c) ELSE size
          /\ UNCHANGED <<chunked, chunklen>>
  /\ UNCHANGED <<chunkedf, msg, sent, failed, put, out, xheaders>>

\* Mutant of CopyLen: the chunk is taken to be in the stream.
CopyAll == size

CopyLen == IF put - get < size THEN put - get ELSE size

\* What is in the stream of a chunk, then, after read_dat, the rest of it.
CopyChunk ==
  /\ at \in {"data", "rest"} /\ ReadAhead
  /\ out' = out \o SubSeq(msg.text, get + 1, get + CopyLen)
  /\ get' = get + CopyLen
  /\ size' = size - CopyLen
  /\ at' = IF size' = 0 THEN "eol" ELSE "rest"
  /\ UNCHANGED <<chunkedf, msg, sent, failed, put, cr, chunked, chunklen, xheaders>>

\* body(): all that the stream has after the header, of a failed one nothing.
TakeBody ==
  /\ at = "short" \/ (at = "plain" /\ ReadAhead)
  /\ out' = IF failed THEN <<>> ELSE SubSeq(msg.text, msg.head + 1, put)
  /\ get' = put
  /\ at' = "parsed"
  /\ UNCHANGED <<chunkedf, msg, sent, failed, put, cr, size, chunked, chunklen, xheaders>>

\* Mutant of TrailerEnd: the length is taken for the end.
TrailerEndAtLength == chunklen

\* endpos
TrailerEnd == chunked + chunklen

\* The offsets at which getline starts a line, up to one that is empty or the end.
TrailerLines ==
  LET starts == {g \in chunked .. put - 1 :
                   g < TrailerEnd /\ (g = chunked \/ msg.text[g] = "LF")}
  IN  {g \in starts : \A b \in starts : b <= g => ~Empty(msg.text, b)}

ParseXheaders ==
  /\ at \in {"ended", "eof"}
  /\ xheaders' = IF failed \/ chunked <= 0 THEN {}
                 ELSE {msg.text[g + 1] : g \in TrailerLines} \ Forbidden
  /\ at' = "parsed"
  /\ UNCHANGED <<chunkedf, msg, sent, failed, put, get, cr, size, out, chunked, chunklen>>

\* reset, for the next request: the stream is emptied and its state cleared,
\* hdr_chunked and hdr_chunklen stay, and chunkedf is not the stream's.
Reset ==
  /\ at = "parsed"
  /\ msg' = NoMessage
  /\ sent' = 0 /\ put' = 0 /\ get' = 0
  /\ failed' = FALSE /\ cr' = FALSE
  /\ at' = "header"
  /\ size' = 0 /\ out' = <<>> /\ xheaders' = {}
  /\ UNCHANGED <<chunkedf, chunked, chunklen>>

HttpBodyNext ==
  \/ \E n \in 1 .. ReadBlock : Read(n)
  \/ ReadFails \/ TakeChar \/ CopyChunk \/ TakeBody \/ ParseXheaders
-------------------------------------------------------------------------------
HttpBodyTypeOK ==
  /\ chunkedf \in BOOLEAN
  /\ msg \in Message \cup {NoMessage}
  /\ sent \in 0 .. Len(msg.text)
  /\ get \in 0 .. put /\ put \in 0 .. sent
  /\ failed \in BOOLEAN /\ cr \in BOOLEAN
  /\ at \in Line \cup {"header", "plain", "short", "data", "rest", "ended", "eof", "parsed"}
  /\ size \in Nat /\ chunked \in Nat /\ chunklen \in Nat
  /\ IsPrefix(out, SubSeq(msg.text, msg.head + 1, put)) \/ chunkedf

\* The offset of the end of the message.
MsgEnd == End(msg)

\* The body is read as the header of its request declares it.  It is not when it has
\* a length and an earlier request of the connection was chunked.
ReadAsDeclared == chunkedf = msg.chunked

\* The number n of a size line that also all digits of the line give, counted in tens:
\* of them, those of an extension included, only the last is not zero, and says n.
CountedInTens(t, i, j, n) ==
  LET nonzero == {k \in i + 1 .. j : t[k] \in Digit \ {"0"}} IN
  /\ n # 0 => nonzero # {}
  /\ \A k \in nonzero : Worth[t[k]] = n /\ \A l \in k + 1 .. j : t[l] \notin Digit

Countable(m) ==
  \A i \in DOMAIN m.chunks :
    LET c == m.chunks[i] IN CountedInTens(m.text, c.line, c.data, c.size)

\* What the three properties below are about: the stream did not fail, the reader is
\* the one that the header asks for, and the sizes are those it can count.
Understood == at # "header" /\ ~failed /\ ReadAsDeclared /\ Countable(msg)

\* A chunked body comes out as the client meant it, however its lines end and the
\* reads cut it, and of one that is cut short comes out a first part.  The next
\* request starts where read_chunked leaves the get position.  A body with a
\* length comes out with what followed it in the stream.
BodyIsContent ==
  Understood =>
    IF msg.chunked
    THEN /\ IsPrefix(out, msg.content)
         /\ at = "ended" => out = msg.content /\ get = MsgEnd
    ELSE at = "parsed" =>
           IF sent < MsgEnd THEN IsPrefix(out, msg.content) ELSE IsPrefix(msg.content, out)

\* No read is waited for once the message is there: its client would wait for
\* the response.
NeverWaitsForMore == Understood /\ ~ReadAhead => sent < MsgEnd

\* The extended headers of a chunked message are the permitted ones among the
\* trailer's, whatever an earlier request left in hdr_chunked and hdr_chunklen.
XheadersAreTrailer ==
  Understood /\ at = "parsed" /\ msg.chunked /\ get = MsgEnd =>
    xheaders = msg.trailers \ Forbidden

\* "Read in the chunk's size" (httpbuf.cpp:235): where the data of a chunk begins the
\* code's size is that of the chunk.
ChunkSizeRead ==
  at = "data" /\ msg.chunked =>
    \A i \in DOMAIN msg.chunks : msg.chunks[i].data = get => msg.chunks[i].size = size
===============================================================================
