------------------------------ MODULE GzipProofs -------------------------------
(***************************************************************************)
(* For every size of the buffers, every division of the bytes into calls   *)
(* and whatever zlib does with them: nothing is lost or overrun, zlib is   *)
(* never called in vain for a proper call, and all its output is           *)
(* delivered.                                                              *)
(***************************************************************************)
EXTENDS Gzip, TLAPS

\* What holds at each place: zlib is initialised once bytes are passed; compress
\* and decompress call it with input and room; finish with all of the input passed
\* and, after the end, eaten.
Places ==
  /\ job \in Job /\ eaten \in Nat /\ made \in Nat /\ written \in Nat
  /\ mode \in {"Gzip", job.mode}
  /\ mode = "Gzip" => at = "aborted" \/ (eaten = 0 /\ availi = 0 /\ bytes = 0 /\ used = 0
                                        /\ (rest = job.given))
  /\ at \in {"loop", "code", "fill"} => mode = job.mode
  /\ at = "code" => availi > 0 /\ used < OutSize
  /\ at = "call" => bytes = 0
  /\ at \in {"drain", "push", "done"} => bytes = 0 /\ rest = 0
  /\ at \in {"drain", "done"} => used = 0
  /\ at \in {"drain", "push"} /\ mode = "Gzip" => job.given = 0 /\ rc # "END"
  /\ at = "done" => rc = "END"
  /\ at \in {"drain", "push", "done"} /\ rc = "END" =>
       eaten = IF job.mode = "Compress" THEN job.given ELSE job.len
  /\ Proper => at # "aborted"

GzipInv == GzipTypeOK /\ Places

LEMMA GzipInvInit == GzipInit => GzipInv
BY GzipAssumption DEF GzipInit, GzipAt, GzipInv, GzipTypeOK, Places, Proper, Result

\* What a call of zlib leaves, wherever it is.
LEMMA CodeKeeps ==
  ASSUME GzipInv, NEW finish \in BOOLEAN, NEW rewind \in BOOLEAN, NEW next,
         Code(finish, rewind, next)
  PROVE  /\ nexti' \in Nat /\ availi' \in Nat /\ used' \in Nat /\ eaten' \in Nat /\ made' \in Nat
         /\ nexti' + availi' <= InSize /\ used' <= OutSize
         /\ eaten' + availi' + bytes + rest = job.given /\ made' = written + used'
         /\ rc' \in Result
         /\ \/ rc' \in {"OK", "END"} /\ at' = next
            \/ rc' \in Result \ {"OK", "END"} /\ at' = "aborted"
<1>1. PICK e \in 0 .. availi, g \in 0 .. Least(OutSize - used, MaxMade - made),
           r \in Result :
        /\ Zlib(finish, e, g, r)
        /\ availi' = availi - e /\ eaten' = eaten + e
        /\ nexti' = IF rewind THEN Rewound(nexti + e, availi') ELSE nexti + e
        /\ used' = used + g /\ made' = made + g
        /\ rc' = r
        /\ at' = IF r \in {"OK", "END"} THEN next ELSE "aborted"
  BY DEF Code
<1>2. /\ nexti \in Nat /\ availi \in Nat /\ used \in Nat /\ eaten \in Nat /\ made \in Nat
      /\ nexti + availi <= InSize /\ used <= OutSize /\ InSize \in Nat /\ OutSize \in Nat
      /\ MaxMade \in Nat /\ written \in Nat /\ bytes \in Nat /\ rest \in Nat
      /\ eaten + availi + bytes + rest = job.given /\ made = written + used
  BY GzipAssumption DEF GzipInv, GzipTypeOK, Places
<1>3. e \in Nat /\ e <= availi /\ g \in Nat /\ g <= OutSize - used
  BY <1>1, <1>2 DEF Least
<1>4. nexti' \in Nat /\ nexti' + availi' <= InSize
  BY <1>1, <1>2, <1>3 DEF Rewound
<1>5. QED BY <1>1, <1>2, <1>3, <1>4

\* A proper stream: an error is no outcome if there is input and room, or if
\* nothing is left to eat and zlib is to finish.
LEMMA CodeSucceeds ==
  ASSUME GzipInv, Proper, NEW finish \in BOOLEAN, NEW rewind \in BOOLEAN, NEW next,
         Code(finish, rewind, next), mode = job.mode, used < OutSize,
         ~finish => availi > 0,
         finish => availi = 0 /\ eaten = job.len
  PROVE  at' = next
<1>1. PICK e \in 0 .. availi, g \in 0 .. Least(OutSize - used, MaxMade - made),
           r \in Result :
        /\ Zlib(finish, e, g, r)
        /\ at' = IF r \in {"OK", "END"} THEN next ELSE "aborted"
  BY DEF Code
<1>2. /\ availi \in Nat /\ used \in Nat /\ eaten \in Nat /\ OutSize \in Nat
      /\ job.mode \in {"Compress", "Decompress"} /\ job.len \in Nat /\ job.len > 0
      /\ job.given = job.len /\ ~job.corrupt /\ bytes \in Nat /\ rest \in Nat
      /\ eaten + availi + bytes + rest = job.len
  BY GzipAssumption DEF GzipInv, GzipTypeOK, Places, Proper
<1>3. CASE job.mode = "Compress"
  <2>1. Deflate(finish, e, g, r)
    BY <1>1, <1>3 DEF Zlib
  <2>2. r \in {"OK", "END"}
    BY <1>2, <2>1 DEF Deflate
  <2>3. QED BY <1>1, <2>2
<1>4. CASE job.mode = "Decompress"
  <2>1. Inflate(finish, e, g, r)
    BY <1>1, <1>4 DEF Zlib
  <2>2. CASE eaten = job.len
    BY <1>1, <1>2, <2>1, <2>2 DEF Inflate
  <2>3. CASE eaten # job.len
    <3>1. ~finish /\ availi > 0 /\ Least(availi, job.len - eaten) > 0
      BY <1>2, <2>3 DEF Least
    <3>2. e + g > 0
      BY <1>1, <1>2, <2>1, <2>3, <3>1 DEF Inflate, Least
    <3>3. r \in {"OK", "END"}
      BY <1>1, <1>2, <2>1, <2>3, <3>1, <3>2 DEF Inflate
    <3>4. QED BY <1>1, <3>3
  <2>4. QED BY <2>2, <2>3
<1>5. QED BY <1>2, <1>3, <1>4

\* In finish the end is reached when all the input is eaten.
LEMMA EndMeansEaten ==
  ASSUME GzipInv, NEW finish \in BOOLEAN, NEW rewind \in BOOLEAN, NEW next,
         Code(finish, rewind, next), rc' = "END", at = "drain", finish <=> availi = 0
  PROVE  /\ eaten' = IF job.mode = "Compress" THEN job.given ELSE job.len
         /\ mode # "Gzip"
<1>1. PICK e \in 0 .. availi, g \in 0 .. Least(OutSize - used, MaxMade - made) :
        Zlib(finish, e, g, "END") /\ eaten' = eaten + e
  BY DEF Code
<1>2. /\ availi \in Nat /\ eaten \in Nat /\ bytes = 0 /\ rest = 0 /\ job.given \in Nat
      /\ job.len \in Nat /\ eaten + availi = job.given /\ mode \in {"Gzip", job.mode}
      /\ job.mode \in {"Compress", "Decompress"}
  BY GzipAssumption DEF GzipInv, GzipTypeOK, Places
<1>3. CASE mode = "Compress"
  BY <1>1, <1>2, <1>3 DEF Zlib, Deflate
<1>4. CASE mode = "Decompress"
  BY <1>1, <1>2, <1>4 DEF Zlib, Inflate
<1>5. mode # "Gzip"
  BY <1>1 DEF Zlib
<1>6. QED BY <1>2, <1>3, <1>4, <1>5

LEMMA GzipInvStep == GzipInv /\ [GzipNext]_gzipVars => GzipInv'
<1> SUFFICES ASSUME GzipInv, [GzipNext]_gzipVars PROVE GzipInv'
  OBVIOUS
<1>types. /\ nexti \in Nat /\ availi \in Nat /\ used \in Nat /\ bytes \in Nat /\ rest \in Nat
      /\ eaten \in Nat /\ made \in Nat /\ written \in Nat
  BY DEF GzipInv, GzipTypeOK, Places
<1>sums. eaten + availi + bytes + rest = job.given /\ made = written + used
  BY DEF GzipInv, GzipTypeOK
<1>1. /\ job.given \in Nat /\ job.len \in Nat /\ job.mode \in {"Compress", "Decompress"}
      /\ InSize \in Nat \ {0} /\ OutSize \in Nat \ {0} /\ CallSize \in Nat \ {0}
      /\ Slack \in Nat /\ nexti + availi <= InSize /\ used <= OutSize
      /\ mode \in {"Gzip", "Compress", "Decompress"}
      /\ rc \in Result
      /\ at \in {"call", "loop", "code", "fill", "drain", "push", "done", "aborted"}
      /\ GzipTypeOK /\ Places
  BY GzipAssumption DEF GzipInv, GzipTypeOK, Places
<1>2. CASE Call
  <2>1. PICK n \in Nat : n <= rest /\ bytes' = n /\ rest' = rest - n
    BY <1>types, <1>1, <1>2 DEF Call, Least
  <2>2. UNCHANGED <<job, nexti, availi, used, rc, eaten, made, written>> /\ mode' = job.mode /\ at' = "loop"
    BY <1>2 DEF Call
  <2>3. rest - n \in Nat /\ n + (rest - n) = rest
    BY <1>types, <2>1
  <2>none. bytes = 0
    BY <1>1, <1>2 DEF Call, Places
  <2>sum. eaten' + availi' + bytes' + rest' = job'.given
    BY <1>types, <1>sums, <2>1, <2>2, <2>3, <2>none
  <2>4. GzipTypeOK'
    BY <1>types, <1>sums, <1>1, <2>1, <2>2, <2>3, <2>sum DEF GzipTypeOK
  <2>5. Places'
    BY <1>types, <1>sums, <1>1, <2>2, <2>3 DEF Places, Proper
  <2>6. QED BY <2>4, <2>5 DEF GzipInv
<1>3. CASE Loop
  <2>1. UNCHANGED <<job, rest, mode, bytes, nexti, availi, rc, eaten, made>> /\ mode = job.mode
        /\ at' = IF availi > 0 THEN "code" ELSE "fill"
    BY <1>types, <1>sums, <1>1, <1>3 DEF Loop, Places
  <2>2. /\ used' \in Nat /\ written' \in Nat /\ used' < OutSize /\ used' <= OutSize /\ made = written' + used'
    <3>1. CASE Full(OutSize - used)
      BY <1>types, <1>sums, <1>1, <1>3, <3>1 DEF Loop, WriteCallback
    <3>2. CASE ~Full(OutSize - used)
      <4>1. OutSize - used > 0
        BY <1>types, <1>sums, <1>1, <3>2 DEF Full
      <4>2. QED BY <1>types, <1>sums, <1>1, <1>3, <3>2, <4>1 DEF Loop
    <3>3. QED BY <3>1, <3>2
  <2>3. GzipTypeOK'
    BY <1>types, <1>sums, <1>1, <2>1, <2>2 DEF GzipTypeOK
  <2>4. Places'
    BY <1>types, <1>sums, <1>1, <1>3, <2>1, <2>2 DEF Places, Proper, Loop
  <2>5. QED BY <2>3, <2>4 DEF GzipInv
<1>4. CASE Run
  <2>1. Code(FALSE, TRUE, "fill") /\ UNCHANGED <<job, rest, mode, bytes, written>> /\ at = "code"
    BY <1>4 DEF Run
  <2>2. /\ nexti' \in Nat /\ availi' \in Nat /\ used' \in Nat /\ eaten' \in Nat /\ made' \in Nat
        /\ nexti' + availi' <= InSize /\ used' <= OutSize
        /\ eaten' + availi' + bytes + rest = job.given /\ made' = written + used'
        /\ rc' \in Result
        /\ at' = "fill" \/ at' = "aborted"
    BY <2>1, CodeKeeps
  <2>3. mode = job.mode /\ availi > 0 /\ used < OutSize
    BY <1>types, <1>sums, <1>1, <2>1 DEF Places
  <2>4. Proper => at' = "fill"
    BY <2>1, <2>3, CodeSucceeds
  <2>5. eaten' + availi' + bytes' + rest' = job'.given /\ made' = written' + used'
    BY <2>1, <2>2
  <2>6. GzipTypeOK'
    BY <1>types, <1>sums, <1>1, <2>1, <2>2, <2>5 DEF GzipTypeOK
  <2>7. Places'
    BY <1>types, <1>sums, <1>1, <2>1, <2>2, <2>3, <2>4 DEF Places, Proper
  <2>8. QED BY <2>6, <2>7 DEF GzipInv
<1>5. CASE Fill
  <2>1. CASE bytes = 0
    BY <1>types, <1>sums, <1>1, <1>5, <2>1 DEF Fill, GzipInv, GzipTypeOK, Places, Proper
  <2>2. CASE bytes # 0
    <3>1. FillLen \in Nat /\ FillLen <= bytes /\ nexti + availi + FillLen <= InSize
      BY <1>types, <1>1 DEF FillLen, Least
    <3>2. /\ at' = "loop" /\ bytes' = bytes - FillLen /\ availi' = availi + FillLen
          /\ UNCHANGED <<job, rest, mode, nexti, used, rc, eaten, made, written>>
      BY <1>5, <2>2 DEF Fill
    <3>3. bytes' \in Nat /\ availi' \in Nat /\ availi' + bytes' = availi + bytes
      BY <1>types, <1>sums, <1>1, <3>1, <3>2
    <3>4. GzipTypeOK'
      BY <1>types, <1>sums, <1>1, <3>1, <3>2, <3>3 DEF GzipTypeOK
    <3>5. mode = job.mode
      BY <1>types, <1>sums, <1>1, <1>5 DEF Fill, Places
    <3>6. Places'
      BY <1>types, <1>sums, <1>1, <3>2, <3>3, <3>5 DEF Places, Proper
    <3>7. QED BY <3>4, <3>6 DEF GzipInv
  <2>3. QED BY <2>1, <2>2
<1>6. CASE Finish
  <2>1. /\ rest = 0 /\ bytes = 0 /\ written' = written + used /\ used' = 0 /\ rc' = "OK"
        /\ at' = "drain" /\ UNCHANGED <<job, rest, mode, bytes, nexti, availi, eaten, made>>
    BY <1>types, <1>sums, <1>1, <1>6 DEF Finish, WriteCallback, Places
  <2>2. GzipTypeOK'
    BY <1>types, <1>sums, <1>1, <2>1 DEF GzipTypeOK, Result
  <2>3. mode = "Gzip" => job.given = 0
    BY <1>types, <1>sums, <1>1, <1>6, <2>1 DEF Finish, Places
  <2>4. Places'
    BY <1>types, <1>sums, <1>1, <2>1, <2>3 DEF Places, Proper
  <2>5. QED BY <2>2, <2>4 DEF GzipInv
<1>7. CASE Drain
  <2>1. /\ Code(availi = 0, FALSE, "push") /\ UNCHANGED <<job, rest, mode, bytes, written>>
        /\ at = "drain" /\ used = 0 /\ bytes = 0 /\ rest = 0 /\ (availi = 0) \in BOOLEAN
    BY <1>types, <1>sums, <1>1, <1>7 DEF Drain, Places
  <2>2. /\ nexti' \in Nat /\ availi' \in Nat /\ used' \in Nat /\ eaten' \in Nat /\ made' \in Nat
        /\ nexti' + availi' <= InSize /\ used' <= OutSize
        /\ eaten' + availi' + bytes + rest = job.given /\ made' = written + used'
        /\ \/ rc' \in {"OK", "END"} /\ at' = "push"
           \/ rc' \in Result \ {"OK", "END"} /\ at' = "aborted"
    BY <2>1, CodeKeeps
  <2>3. Proper => at' = "push"
    <3>1. Proper => mode = job.mode
      BY <1>types, <1>sums, <1>1, <2>1 DEF Places, Proper
    <3>2. Proper /\ availi = 0 => eaten = job.len
      BY <1>types, <1>sums, <1>1, <2>1 DEF Proper
    <3>3. used < OutSize /\ (~(availi = 0) => availi > 0)
      BY <1>types, <1>sums, <1>1, <2>1
    <3>4. QED BY <2>1, <3>1, <3>2, <3>3, CodeSucceeds
  <2>4. rc' = "END" => /\ eaten' = IF job.mode = "Compress" THEN job.given ELSE job.len
                       /\ mode # "Gzip"
    BY <2>1, EndMeansEaten
  <2>5. mode = "Gzip" => at' = "aborted"
    BY <2>1 DEF Code, Zlib
  <2>6. eaten' + availi' + bytes' + rest' = job'.given /\ made' = written' + used'
    BY <2>1, <2>2
  <2>7. GzipTypeOK'
    BY <1>types, <1>sums, <1>1, <2>1, <2>2, <2>6 DEF GzipTypeOK, Result
  <2>8. Places'
    BY <1>types, <1>sums, <1>1, <2>1, <2>2, <2>3, <2>4, <2>5 DEF Places, Proper
  <2>9. QED BY <2>7, <2>8 DEF GzipInv
<1>8. CASE Push
  <2>1. /\ at = "push" /\ at' = "drain" /\ written' = written + used /\ used' = 0
        /\ UNCHANGED <<job, rest, mode, bytes, nexti, availi, rc, eaten, made>>
    BY <1>8 DEF Push, WriteCallback
  <2>2. GzipTypeOK'
    BY <1>types, <1>sums, <1>1, <2>1 DEF GzipTypeOK
  <2>3. Places'
    BY <1>types, <1>sums, <1>1, <2>1 DEF Places, Proper
  <2>4. QED BY <2>2, <2>3 DEF GzipInv
<1>9. CASE End
  BY <1>types, <1>sums, <1>1, <1>9 DEF End, GzipInv, GzipTypeOK, Places, Proper
<1>10. CASE UNCHANGED gzipVars
  BY <1>10 DEF gzipVars, GzipInv, GzipTypeOK, Places, Proper
<1>11. QED BY <1>2, <1>3, <1>4, <1>5, <1>6, <1>7, <1>8, <1>9, <1>10 DEF GzipNext

\* The buffers are not left, and no byte is lost on the way.
THEOREM GzipTypeCorrect == GzipSpec => []GzipTypeOK
<1>1. GzipInv => GzipTypeOK
  BY DEF GzipInv
<1>2. QED BY <1>1, GzipInvInit, GzipInvStep, PTL DEF GzipSpec

\* For something to compress, and for a stream with nothing behind it, the
\* assertions on what zlib returns hold.
THEOREM ProperCallsSucceed == GzipSpec => []AssertionsHold
<1>1. GzipInv => AssertionsHold
  BY DEF GzipInv, Places, AssertionsHold
<1>2. QED BY <1>1, GzipInvInit, GzipInvStep, PTL DEF GzipSpec

\* When finish returns, the callback was given all that zlib made of all the input.
THEOREM FinishDelivers == GzipSpec => []AllDelivered
<1>1. GzipInv => AllDelivered
  BY DEF GzipInv, GzipTypeOK, Places, AllDelivered
<1>2. QED BY <1>1, GzipInvInit, GzipInvStep, PTL DEF GzipSpec
===============================================================================
