--------------------------------- MODULE Gzip ----------------------------------
(***************************************************************************)
(* gzip.cpp: the functions of namespace Gzip on class Zlib, which moves    *)
(* the caller's bytes through an input buffer, zlib and an output buffer   *)
(* to a callback.  Bytes are counted; zlib itself is external and does     *)
(* whatever zlib.h allows it to do.                                        *)
(***************************************************************************)
EXTENDS Integers

CONSTANTS
  InSize, OutSize,  \* Zlib(inbufsiz, outbufsiz, write_cb)
  Small, Slack,     \* out_threshold is Slack, or 0 for a buffer smaller than Small
  CallSize,         \* sizeof buf of the functions that read a stringstream
  Job,              \* the calls: [mode, given: bytes passed, len: of the whole
                    \* stream, once: decompress(data, bytes), corrupt: the stream]
  MaxMade           \* bound of the bytes zlib makes

ASSUME GzipAssumption ==
  /\ {InSize, OutSize, CallSize} \subseteq Nat \ {0} /\ {Small, Slack, MaxMade} \subseteq Nat
  /\ Job \subseteq [mode : {"Compress", "Decompress"}, given : Nat, len : Nat,
                     once : BOOLEAN, corrupt : BOOLEAN]

VARIABLES
  job, rest,         \* the call, its bytes not yet passed on
  at,                \* where: "call" (the function), "loop", "code", "fill" (compress or
                     \* decompress), "drain", "push" (finish), "done" or "aborted"
  mode,
  bytes,             \* argument of compress or decompress: bytes not yet copied
  nexti, availi,     \* zstream.next_in - inbuf, zstream.avail_in
  used,              \* zstream.next_out - outbuf
  rc,
  eaten, made,       \* zstream.total_in, total_out
  written            \* bytes the callback was given

gzipVars == <<job, rest, at, mode, bytes, nexti, availi, used, rc, eaten, made, written>>

Least(a, b) == IF a < b THEN a ELSE b

GzipAt(place) ==
  /\ job \in Job /\ rest = job.given
  /\ at = place /\ mode = "Gzip" /\ rc = "OK"
  /\ bytes = 0 /\ nexti = 0 /\ availi = 0 /\ used = 0
  /\ eaten = 0 /\ made = 0 /\ written = 0

GzipInit == GzipAt("call")

\* What zlib returns.
Result == {"OK", "END", "BUF_ERROR", "STREAM_ERROR", "DATA_ERROR"}

\* What deflate (finish: with Z_FINISH) may do: eat e bytes, make g and return r.
Deflate(finish, e, g, r) ==
  LET room == OutSize - used IN
  CASE room = 0 -> e = 0 /\ g = 0 /\ r = "BUF_ERROR"
    [] finish   -> e = 0 /\ (r = "END" \/ (r = "OK" /\ g = room))
    [] OTHER    -> r = "OK" /\ e + g > 0 /\ (e = availi \/ g = room)

\* inflate eats nothing after the stream, whose last byte comes after its output;
\* Z_FINISH is an error if the stream does not end.  What is corrupt in a stream is
\* noticed anywhere, at the latest by the check at its end.
Inflate(finish, e, g, r) ==
  LET open == Least(availi, job.len - eaten) IN
  IF eaten = job.len /\ eaten > 0 THEN e = 0 /\ g = 0 /\ r = "END"
  ELSE /\ e <= open
       /\ \/ job.corrupt /\ r = "DATA_ERROR"
          \/ /\ e = open \/ g = OutSize - used
             /\ r = CASE e > 0 /\ eaten + e = job.len -> "END"
                      [] finish \/ e + g = 0          -> "BUF_ERROR"
                      [] OTHER                        -> "OK"
             /\ ~(job.corrupt /\ r = "END")

\* An uninitialised stream is refused: its zalloc is Z_NULL.
Zlib(finish, e, g, r) ==
  CASE mode = "Compress"   -> Deflate(finish, e, g, r)
    [] mode = "Decompress" -> Inflate(finish, e, g, r)
    [] OTHER               -> e = 0 /\ g = 0 /\ r = "STREAM_ERROR"

\* Mutant of Rewound: the input buffer is not rewound.
NotRewound(next, avail) == next

\* An empty input buffer is filled from its start again.
Rewound(next, avail) == IF avail <= 0 THEN 0 ELSE next

\* deflate or inflate, and the assertion on what it returned.
Code(finish, rewind, next) ==
  \E e \in 0 .. availi, g \in 0 .. Least(OutSize - used, MaxMade - made),
     r \in Result :
       /\ Zlib(finish, e, g, r)
       /\ availi' = availi - e /\ eaten' = eaten + e
       /\ nexti' = IF rewind THEN Rewound(nexti + e, availi') ELSE nexti + e
       /\ used' = used + g /\ made' = made + g
       /\ rc' = r
       /\ at' = IF r \in {"OK", "END"} THEN next ELSE "aborted"

\* Mutant of WriteCallback: nothing is written.
KeepOutput == UNCHANGED <<used, written>>

\* write_callback: the output buffer is emptied.
WriteCallback == written' = written + used /\ used' = 0

\* Gzip::compress or decompress passes the next bytes on.
Call ==
  /\ at = "call" /\ (rest > 0 \/ (job.once /\ mode = "Gzip"))
  /\ bytes' = IF job.once THEN rest ELSE Least(rest, CallSize)
  /\ rest' = rest - bytes'
  /\ mode' = job.mode /\ at' = "loop"
  /\ UNCHANGED <<job, nexti, availi, used, rc, eaten, made, written>>

\* Mutant of Full: the output buffer is emptied by finish only.
NeverFull(free) == FALSE

\* avail_out is at most out_threshold.
Full(free) == free <= IF OutSize < Small THEN 0 ELSE Slack

Loop ==
  /\ at = "loop"
  /\ IF Full(OutSize - used) THEN WriteCallback ELSE UNCHANGED <<used, written>>
  /\ at' = IF availi > 0 THEN "code" ELSE "fill"
  /\ UNCHANGED <<job, rest, mode, bytes, nexti, availi, rc, eaten, made>>

Run ==
  /\ at = "code" /\ Code(FALSE, TRUE, "fill")
  /\ UNCHANGED <<job, rest, mode, bytes, written>>

\* Mutant of FillLen: the end of the buffer is not looked at.
FillAll == bytes

\* The bytes that fit in behind those that are in the input buffer.
FillLen == Least(InSize - (nexti + availi), bytes)

Fill ==
  /\ at = "fill"
  /\ IF bytes = 0 THEN at' = "call" /\ UNCHANGED <<bytes, availi>>
     ELSE at' = "loop" /\ bytes' = bytes - FillLen /\ availi' = availi + FillLen
  /\ UNCHANGED <<job, rest, mode, nexti, used, rc, eaten, made, written>>

\* finish is called and empties the output buffer.
Finish ==
  /\ at = "call" /\ rest = 0 /\ ~(job.once /\ mode = "Gzip")
  /\ WriteCallback
  /\ rc' = "OK" /\ at' = "drain"
  /\ UNCHANGED <<job, rest, mode, bytes, nexti, availi, eaten, made>>

\* The loops of finish: the input that is left, then Z_FINISH, until the end.
Drain ==
  /\ at = "drain" /\ rc # "END"
  /\ Code(availi = 0, FALSE, "push")
  /\ UNCHANGED <<job, rest, mode, bytes, written>>

Push ==
  /\ at = "push" /\ at' = "drain"
  /\ WriteCallback
  /\ UNCHANGED <<job, rest, mode, bytes, nexti, availi, rc, eaten, made>>

\* deflateEnd or inflateEnd, and the functions return.
End ==
  /\ at = "drain" /\ rc = "END" /\ at' = "done"
  /\ UNCHANGED <<job, rest, mode, bytes, nexti, availi, used, rc, eaten, made, written>>

GzipNext == Call \/ Loop \/ Run \/ Fill \/ Finish \/ Drain \/ Push \/ End

\* The functions run on until they return or wait for nothing.
GzipSpec == GzipInit /\ [][GzipNext]_gzipVars /\ WF_gzipVars(GzipNext)
-------------------------------------------------------------------------------
\* The buffers are not left, and no byte is lost on the way.
GzipTypeOK ==
  /\ at \in {"call", "loop", "code", "fill", "drain", "push", "done", "aborted"}
  /\ mode \in {"Gzip", "Compress", "Decompress"} /\ rc \in Result
  /\ nexti \in Nat /\ availi \in Nat /\ used \in Nat /\ bytes \in Nat /\ rest \in Nat
  /\ nexti + availi <= InSize /\ used <= OutSize
  /\ eaten + availi + bytes + rest = job.given
  /\ made = written + used

\* Something to compress, or a stream with nothing wrong in it and nothing behind it.
Proper == job.given > 0 /\ job.given = job.len /\ ~job.corrupt

\* The assertions on what zlib returns (gzip.cpp:91, 147, 192, 202) hold for proper
\* calls: zlib is never called without input to eat and without room.
AssertionsHold == Proper => at # "aborted"

\* When finish returns, the callback was given all that zlib made of all the input
\* (of the stream, whatever follows it).
AllDelivered == at = "done" => /\ written = made
                               /\ eaten = IF job.mode = "Compress" THEN job.given ELSE job.len

\* Every call returns (or aborts), however the bytes fall into the buffers, unless
\* something follows the stream.
GzipEnds == job.given <= job.len => <>(at \in {"done", "aborted"})
===============================================================================
