------------------------------- MODULE HttpWrite -------------------------------
(***************************************************************************)
(* httpbuf.cpp, HttpBuf::write: a buffer is written to a socket in blocks, *)
(* each by one call of the write callback, which may take a part of the    *)
(* block or fail.  Bytes are their offsets in the buffer.                  *)
(***************************************************************************)
EXTENDS Integers, Sequences

CONSTANTS Sizes,       \* lengths of the buffer: tellp()
          WriteBlock,  \* sizeof buf
          MaxWire      \* bound on the bytes written

ASSUME HttpWriteAssumption ==
  /\ Sizes \subseteq Nat
  /\ WriteBlock \in Nat \ {0}
  /\ MaxWire \in Nat

VARIABLES
  ppos,    \* length of the buffer
  gpos,    \* the get position when write was called
  rget,    \* the stream's get position: tellg()
  wire,    \* what the socket took, in order
  outcome  \* "idle", "writing", or what write returned: "success" or "failed"

httpWriteVars == <<ppos, gpos, rget, wire, outcome>>

HttpWriteInit ==
  /\ ppos = 0 /\ gpos = 0 /\ rget = 0
  /\ wire = <<>>
  /\ outcome = "idle"

\* write is called, with the get position where reset left it.
StartWrite ==
  /\ outcome = "idle"
  /\ ppos' \in Sizes
  /\ outcome' = "writing"
  /\ UNCHANGED <<gpos, rget, wire>>

\* reset, when the next request is taken up.
ResetWrite ==
  /\ outcome \in {"success", "failed"}
  /\ ppos' = 0 /\ gpos' = 0 /\ rget' = 0
  /\ wire' = <<>>
  /\ outcome' = "idle"

\* Mutant of BlockLen: one block is all there is.
OneBlock ==
  IF rget > 0 THEN 0 ELSE IF ppos < WriteBlock THEN ppos ELSE WriteBlock

\* readsome: what there is from the get position on, as far as it fits.
BlockLen == IF ppos - rget < WriteBlock THEN ppos - rget ELSE WriteBlock

\* Mutant of NextGet: counted from the end of the buffer.
GetPastEnd(rc) == ppos + rc

\* seekg(gpos + rc): counted from where write was called.
NextGet(rc) == gpos + rc

\* The callback takes rc bytes of the block.
Write(rc) ==
  /\ outcome = "writing"
  /\ gpos < ppos
  /\ rc <= BlockLen
  /\ wire' = wire \o [i \in 1 .. rc |-> rget + i - 1]
  /\ rget' = NextGet(rc)
  /\ UNCHANGED <<ppos, gpos, outcome>>

Fail ==
  /\ outcome = "writing"
  /\ gpos < ppos /\ BlockLen > 0
  /\ rget' = gpos
  /\ outcome' = "failed"
  /\ UNCHANGED <<ppos, gpos, wire>>

Finish ==
  /\ outcome = "writing"
  /\ gpos >= ppos \/ BlockLen = 0
  /\ outcome' = "success"
  /\ UNCHANGED <<ppos, gpos, rget, wire>>

HttpWriteNext ==
  \/ StartWrite
  \/ Len(wire) + WriteBlock <= MaxWire /\ \E rc \in 1 .. WriteBlock : Write(rc)
  \/ Fail
  \/ Finish
  \/ ResetWrite

HttpWriteSpec == HttpWriteInit /\ [][HttpWriteNext]_httpWriteVars
-------------------------------------------------------------------------------
Buffer == [i \in 1 .. ppos |-> i - 1]

HttpWriteTypeOK ==
  /\ ppos \in Sizes \cup {0}
  /\ gpos = 0
  /\ rget \in 0 .. ppos
  /\ wire \in Seq(0 .. ppos)
  /\ outcome \in {"idle", "writing", "success", "failed"}

\* "Success" is not returned for a part of the buffer, or for a garbled one,
\* whatever the socket took at each call.
SuccessIsComplete == outcome = "success" => wire = Buffer

\* "Write buffer contents out to socket" (httpbuf.cpp:452): what is on the wire
\* is the contents, as far as they got.
WireIsContents == Len(wire) <= ppos /\ wire = SubSeq(Buffer, 1, Len(wire))
===============================================================================
