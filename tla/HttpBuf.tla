-------------------------------- MODULE HttpBuf --------------------------------
(***************************************************************************)
(* The buffers of sock_func over the requests of a connection: one takes   *)
(* in a request, its header and then its body, another gives the response  *)
(* out, and both are reset for the next request.                           *)
(***************************************************************************)
EXTENDS HeaderEnd, HttpBody, HttpWrite

httpBufVars == <<headerEndVars, httpBodyVars, httpWriteVars>>

HttpBufInit == HeaderEndInit /\ HttpBodyInit /\ HttpWriteInit

ReadHeader ==
  /\ at = "header" /\ elen = 0 /\ outcome = "idle"
  /\ HeaderEndNext
  /\ UNCHANGED <<httpBodyVars, httpWriteVars>>

\* With the end of the header known the scanner is done: its reset is here.
ParseHeader ==
  /\ elen # 0
  /\ \E m \in Message, long \in BOOLEAN : \E k \in 1 .. Len(m.text) : ParseHeaders(m, k, long)
  /\ ResetScan
  /\ UNCHANGED httpWriteVars

ReadBody == HttpBodyNext /\ UNCHANGED <<headerEndVars, httpWriteVars>>

\* The request has been copied out of its buffer: the reset is here.
Respond ==
  /\ StartWrite
  /\ Reset
  /\ UNCHANGED headerEndVars

WriteResponse ==
  /\ outcome # "idle"
  /\ HttpWriteNext
  /\ UNCHANGED <<headerEndVars, httpBodyVars>>

HttpBufNext == ReadHeader \/ ParseHeader \/ ReadBody \/ Respond \/ WriteResponse

HttpBufSpec == HttpBufInit /\ [][HttpBufNext]_httpBufVars
===============================================================================
