------------------------------- MODULE MCServer -------------------------------
(***************************************************************************)
(* Server for TLC: a listener, one or two connections, and clients that    *)
(* send one or two requests.                                               *)
(***************************************************************************)
EXTENDS Server

H == [kind |-> "h"]
B == [kind |-> "b"]
Z == [kind |-> "z"]
End(body, chunk, keep) ==
  [kind |-> "end", body |-> body, chunked |-> chunk, keep |-> keep]

\* A header in two pieces, then a body: Content-Length or chunked.
PlainRequest(keep) == <<H, End(1, FALSE, keep), B>>
ChunkedRequest(keep) == <<End(0, TRUE, keep), B, Z>>

OneRequest == [c \in Client |-> {PlainRequest(FALSE), ChunkedRequest(FALSE)}]
OnePlain == [c \in Client |-> {PlainRequest(FALSE)}]
KeepAlive == [c \in Client |-> {PlainRequest(TRUE) \o PlainRequest(FALSE),
                               ChunkedRequest(TRUE) \o ChunkedRequest(FALSE)}]
ChunkedFirst == [c \in Client |-> {ChunkedRequest(TRUE) \o PlainRequest(FALSE)}]

\* For liveness, which costs more: the clients that may end their connection send
\* nothing, the others a request.
OneSilent ==
  [c \in Client |-> IF c \in MayEnd THEN {<<>>} ELSE {PlainRequest(FALSE)}]

\* The slow clients send one chunked request
\* without content, the others keep their connection for a second request.
KeptAndSlow ==
  [c \in Client |-> IF c \in TxFills THEN {<<End(0, TRUE, FALSE), Z>>}
                   ELSE {<<End(0, FALSE, TRUE), End(0, FALSE, FALSE)>>}]
===============================================================================
