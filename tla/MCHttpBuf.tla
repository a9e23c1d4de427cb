------------------------------ MODULE MCHttpBuf -------------------------------
(***************************************************************************)
(* HttpBuf for TLC: every text of a header up to a length, requests with   *)
(* bodies of each kind, cut in every way or cut short, and every way in    *)
(* which the socket takes the response.                                    *)
(***************************************************************************)
EXTENDS HttpBuf

CrLf == <<"CR", "LF">>
Lf == <<"LF">>

\* A message with a body of the length it gives, and one in chunks: data is the
\* chunks with their size as it is written, trailer the names of its headers.
Plain(head, content, more) ==
  [head |-> head, chunked |-> FALSE, next |-> Len(more), length |-> Len(content),
   text |-> [i \in 1 .. head |-> "h"] \o content \o more, content |-> content,
   chunks |-> <<>>, lines |-> <<>>, trailers |-> {}]

Chunks(head, eol, data, trailer, more) ==
  LET count == Len(data)
      h == [i \in 1 .. head |-> "h"]
      chunk(c) == c.digits \o eol \o c.data \o eol
      \* What is before the i-th chunk, and before the i-th line of the trailer.
      before(i) == h \o FlattenSeq([j \in 1 .. i - 1 |-> chunk(data[j])])
      above(i) == before(count + 1) \o <<"0">> \o eol
                  \o FlattenSeq([j \in 1 .. i - 1 |-> <<trailer[j]>> \o eol])
      content(i) == FlattenSeq([j \in 1 .. i - 1 |-> data[j].data])
  IN  [head |-> head, chunked |-> TRUE, next |-> Len(more), length |-> 0,
       text |-> above(Len(trailer) + 1) \o eol \o more,
       content |-> content(count + 1),
       chunks |-> [i \in 1 .. count + 1 |->
                     [line |-> Len(before(i)), first |-> Len(content(i)),
                      data |-> Len(before(i)) + Len(eol)
                               + (IF i > count THEN 1 ELSE Len(data[i].digits)),
                      size |-> IF i > count THEN 0 ELSE Len(data[i].data)]],
       lines |-> [i \in 1 .. Len(trailer) + 1 |-> Len(above(i))],
       trailers |-> {trailer[i] : i \in 1 .. Len(trailer)}]

Of(digits, data) == [digits |-> digits, data |-> data]
Xs(count) == [i \in 1 .. count |-> "x"]

\* Data that looks like a size or the end of a line, sizes with a leading zero, an
\* extension or a letter, of two digits or with a digit in the extension, trailers of
\* both kinds, a next request.
MCMessage ==
  LET two == <<Of(<<"2">>, <<"CR", "LF">>), Of(<<"0", "1", "x">>, <<"1">>)>>
  IN  {Plain(1, c, m) : c \in {<<>>, <<"x", "CR", "LF", "1">>}, m \in {<<>>, <<"x", "x">>}}
      \cup {Chunks(2, CrLf, d, <<"bad", "ext">>, <<"x">>) : d \in {<<>>, two}}
      \cup {Chunks(2, Lf, <<>>, <<>>, <<"x">>), Chunks(1, Lf, two, <<"ext">>, <<>>)}
      \cup {Chunks(1, CrLf, <<c>>, <<>>, <<>>) :
              c \in {Of(<<"a">>, Xs(10)), Of(<<"1", "0">>, Xs(16)), Of(<<"1", "x", "a">>, Xs(1))}}
===============================================================================
