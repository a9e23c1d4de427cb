----------------------------- MODULE StartUpProofs -----------------------------
(***************************************************************************)
(* For every command line and every failure of a system call: the server   *)
(* that runs has its sockets, listens nowhere else, and listen leaks none. *)
(***************************************************************************)
EXTENDS StartUp, SequenceTheorems, TLAPS

Ips == {"any"} \cup UNION {{a[i] : i \in DOMAIN a} : a \in Args}
Sock == [ip : Ips, state : {"made", "bound", "listening", "closed"}]
Calls == {"setsockopt", "bind", "listen"}

ListensOn(a) == \E i \in DOMAIN socks : socks[i] = [ip |-> args[a], state |-> "listening"]

\* Between the calls of listen each socket is listening or closed; during one its
\* own is the last.
Settled(i) == socks[i].state \in {"listening", "closed"}

StartUpInv ==
  /\ args \in Args /\ argx \in 1 .. Len(args)
  /\ doing \in Calls \cup {"import", "socket", "check", "running", "aborted"}
  /\ socks \in Seq(Sock) /\ lfd \in Int
  /\ ip \in Ips
  /\ doing \in Calls \cup {"socket"} => (af # 0 => ip = args[argx])
  /\ doing \in Calls =>
       /\ af # 0 /\ socks # <<>>
       /\ socks[Len(socks)].state = IF doing = "listen" THEN "bound" ELSE "made"
       /\ doing = "listen" => socks[Len(socks)].ip = ip
  /\ \A i \in 1 .. Len(socks) : Settled(i) \/ (doing \in Calls /\ i = Len(socks))
  /\ \A a \in 1 .. argx - 1 : ListensOn(a)
  /\ doing = "check" /\ lfd >= 0 => ListensOn(argx)
  /\ doing = "running" => argx = Len(args) /\ ListensOn(argx)
  /\ NeverAnyAddress

LEMMA StartUpInvInit == StartUpInit => StartUpInv
BY StartUpAssumption
DEF StartUpInit, StartUpInv, Ips, Sock, Calls, NeverAnyAddress

\* What a call that changes the last socket keeps.
LEMMA LastChanges ==
  ASSUME StartUpInv, doing \in Calls, NEW s \in Sock,
         socks' = [socks EXCEPT ![Len(socks)] = s], UNCHANGED <<args, argx>>
  PROVE  /\ socks' \in Seq(Sock) /\ Len(socks') = Len(socks) /\ Len(socks) \in 1 .. Len(socks)
         /\ socks'[Len(socks)] = s
         /\ \A i \in 1 .. Len(socks) : i # Len(socks) => socks'[i] = socks[i] /\ Settled(i)
         /\ \A a \in 1 .. Len(args) : ListensOn(a) => ListensOn(a)'
<1>1. Len(socks) \in 1 .. Len(socks) /\ DOMAIN socks = 1 .. Len(socks)
  <2>1. socks \in Seq(Sock) /\ socks # <<>>
    BY DEF StartUpInv
  <2>2. Len(socks) \in Nat \ {0} /\ DOMAIN socks = 1 .. Len(socks)
    BY <2>1, EmptySeq, LenProperties
  <2>3. QED BY <2>2
<1>2. socks' \in Seq(Sock) /\ Len(socks') = Len(socks) /\ DOMAIN socks' = DOMAIN socks
  <2>1. socks \in Seq(Sock)
    BY DEF StartUpInv
  <2>2. [socks EXCEPT ![Len(socks)] = s] \in Seq(Sock)
        /\ Len([socks EXCEPT ![Len(socks)] = s]) = Len(socks)
    BY <1>1, <2>1, ExceptSeq
  <2>3. QED BY <1>1, <2>2
<1>3. \A i \in 1 .. Len(socks) : socks'[i] = IF i = Len(socks) THEN s ELSE socks[i]
  BY <1>1
<1>4. socks[Len(socks)].state # "listening"
  BY DEF StartUpInv
<1>5. \A a \in 1 .. Len(args) : ListensOn(a) => ListensOn(a)'
  BY <1>1, <1>2, <1>3, <1>4 DEF ListensOn
<1>6. QED BY <1>1, <1>2, <1>3, <1>5 DEF StartUpInv

\* A call of listen that fails.
LEMMA RefusedKeeps ==
  ASSUME StartUpInv, doing \in Calls, NEW rc \in Int, rc < 0, Refused(rc),
         doing' = "check", UNCHANGED <<args, argx, af, ip>>
  PROVE  StartUpInv'
<1> DEFINE s == [socks[Len(socks)] EXCEPT !.state = "closed"]
<1>1. socks[Len(socks)] \in Sock
  BY EmptySeq, LenProperties, ElementOfSeq DEF StartUpInv, Calls
<1>2. s \in Sock /\ s.state = "closed"
  BY <1>1 DEF Sock
<1>3. socks' = [socks EXCEPT ![Len(socks)] = s]
  BY DEF Refused
<1> HIDE DEF s
<1>4. /\ socks' \in Seq(Sock) /\ Len(socks') = Len(socks) /\ Len(socks) \in 1 .. Len(socks)
      /\ socks'[Len(socks)] = s
      /\ \A i \in 1 .. Len(socks) : i # Len(socks) => socks'[i] = socks[i] /\ Settled(i)
      /\ \A a \in 1 .. Len(args) : ListensOn(a) => ListensOn(a)'
  BY <1>2, <1>3, LastChanges
<1>5. \A i \in 1 .. Len(socks') : Settled(i)'
  BY <1>2, <1>4 DEF Settled
<1>6. NeverAnyAddress'
  BY <1>2, <1>4, LenProperties DEF NeverAnyAddress, StartUpInv
<1>7. \A a \in 1 .. argx' - 1 : ListensOn(a)'
  BY <1>4 DEF StartUpInv
<1>8. QED BY <1>4, <1>5, <1>6, <1>7 DEF Refused, StartUpInv, Calls

LEMMA StartUpInvStep == StartUpInv /\ [StartUpNext]_startUpVars => StartUpInv'
<1> SUFFICES ASSUME StartUpInv, [StartUpNext]_startUpVars PROVE StartUpInv'
  OBVIOUS
<1>1. CASE Import
  <2>1. args[argx] \in Ips
    BY StartUpAssumption DEF StartUpInv, Ips
  <2>2. QED
    BY <1>1, <2>1 DEF Import, Family, StartUpInv, Settled, ListensOn, Calls, Ips, NeverAnyAddress
<1>2. CASE Socket
  <2>1. CASE af # 0 /\ doing' = "setsockopt"
             /\ socks' = Append(socks, [ip |-> "any", state |-> "made"]) /\ UNCHANGED lfd
    <3>1. [ip |-> "any", state |-> "made"] \in Sock
      BY DEF Sock, Ips
    <3>2. /\ socks' \in Seq(Sock) /\ Len(socks') = Len(socks) + 1
          /\ \A i \in 1 .. Len(socks) : socks'[i] = socks[i]
          /\ socks'[Len(socks')] = [ip |-> "any", state |-> "made"]
      BY <2>1, <3>1, AppendProperties DEF StartUpInv
    <3>3. Len(socks) \in Nat /\ DOMAIN socks = 1 .. Len(socks) /\ DOMAIN socks' = 1 .. Len(socks')
      BY <3>2, LenProperties DEF StartUpInv
    <3>4. \A i \in 1 .. Len(socks) : Settled(i)
      BY <1>2 DEF Socket, StartUpInv, Calls
    <3>5. \A i \in 1 .. Len(socks') : Settled(i)' \/ i = Len(socks')
      BY <3>2, <3>3, <3>4 DEF Settled
    <3>6. \A a \in 1 .. argx' - 1 : ListensOn(a)'
      <4>1. UNCHANGED <<args, argx>> /\ \A a \in 1 .. argx - 1 : ListensOn(a)
        BY <1>2 DEF StartUpInv, Socket
      <4>2. DOMAIN socks \subseteq DOMAIN socks' /\ \A i \in DOMAIN socks : socks'[i] = socks[i]
        BY <3>2, <3>3
      <4>3. QED BY <4>1, <4>2 DEF ListensOn
    <3>7. NeverAnyAddress'
      <4>1. UNCHANGED args /\ NeverAnyAddress
        BY <1>2 DEF StartUpInv, Socket
      <4>2. \A i \in DOMAIN socks' : i \in DOMAIN socks \/ i = Len(socks')
        BY <3>2, <3>3
      <4>3. QED BY <3>2, <3>3, <4>1, <4>2 DEF NeverAnyAddress
    <3>8. socks' # <<>>
      BY <3>2, <3>3, EmptySeq
    <3>9. QED
      BY <1>2, <2>1, <3>2, <3>3, <3>5, <3>6, <3>7, <3>8 DEF Socket, StartUpInv, Calls
  <2>2. CASE doing' = "check" /\ lfd' = -1 /\ UNCHANGED socks
    BY <1>2, <2>2 DEF Socket, StartUpInv, Settled, ListensOn, NeverAnyAddress, Calls
  <2>3. QED BY <1>2, <2>1, <2>2 DEF Socket
<1>3. CASE SetSockOpt
  <2>1. CASE doing' = "bind" /\ UNCHANGED <<socks, lfd>>
    BY <1>3, <2>1 DEF SetSockOpt, StartUpInv, Settled, ListensOn, NeverAnyAddress, Calls
  <2>2. CASE doing' = "check" /\ Refused(-2)
    BY <1>3, <2>2, RefusedKeeps DEF SetSockOpt, Calls
  <2>3. QED BY <1>3, <2>1, <2>2 DEF SetSockOpt
<1>4. CASE Bind
  <2> DEFINE s == [ip |-> ip, state |-> "bound"]
  <2>1. CASE /\ doing' = "listen" /\ UNCHANGED lfd
             /\ socks' = [socks EXCEPT ![Len(socks)] = s]
    <3>1. s \in Sock
      BY DEF Sock, StartUpInv
    <3>2. /\ socks' \in Seq(Sock) /\ Len(socks') = Len(socks) /\ Len(socks) \in 1 .. Len(socks)
          /\ socks'[Len(socks)] = s
          /\ \A i \in 1 .. Len(socks) : i # Len(socks) => socks'[i] = socks[i] /\ Settled(i)
          /\ \A a \in 1 .. Len(args) : ListensOn(a) => ListensOn(a)'
      BY <1>4, <2>1, <3>1, LastChanges DEF Bind, Calls
    <3>3. \A i \in 1 .. Len(socks') : Settled(i)' \/ i = Len(socks')
      BY <3>2 DEF Settled
    <3>4. ip = args[argx] /\ argx \in DOMAIN args
      BY <1>4, StartUpAssumption DEF Bind, StartUpInv, Calls
    <3>5. NeverAnyAddress'
      <4>1. UNCHANGED args /\ NeverAnyAddress
        BY <1>4 DEF StartUpInv, Bind
      <4>2. /\ DOMAIN socks = 1 .. Len(socks) /\ DOMAIN socks' = 1 .. Len(socks)
            /\ Len(socks) \in DOMAIN socks
        BY <3>2, LenProperties DEF StartUpInv
      <4>3. \A i \in DOMAIN socks' : socks'[i].ip = s.ip \/ socks'[i] = socks[i]
        BY <3>2, <4>2
      <4>4. s.ip = ip
        OBVIOUS
      <4>5. QED BY <3>4, <4>1, <4>2, <4>3, <4>4 DEF NeverAnyAddress
    <3>6. \A a \in 1 .. argx' - 1 : ListensOn(a)'
      BY <1>4, <3>2 DEF StartUpInv, Bind
    <3>7. socks' # <<>>
      BY <3>2, EmptySeq
    <3>8. QED
      <4>1. /\ UNCHANGED <<args, argx, af, ip, lfd>> /\ doing = "bind" /\ doing' = "listen"
            /\ af # 0 /\ ip = args[argx]
            /\ args \in Args /\ argx \in 1 .. Len(args) /\ ip \in Ips /\ lfd \in Int
        BY <1>4, <2>1 DEF Bind, StartUpInv, Calls
      <4>2. socks'[Len(socks')] = s
        BY <3>2
      <4>3. QED BY <3>2, <3>3, <3>5, <3>6, <3>7, <4>1, <4>2 DEF StartUpInv, Calls
  <2>2. CASE doing' = "check" /\ Refused(-3)
    BY <1>4, <2>2, RefusedKeeps DEF Bind, Calls
  <2>3. QED BY <1>4, <2>1, <2>2 DEF Bind
<1>5. CASE Listen
  <2>1. CASE lfd' = Len(socks) /\ socks' = [socks EXCEPT ![Len(socks)].state = "listening"]
    <3> DEFINE s == [ip |-> ip, state |-> "listening"]
    <3>1. socks[Len(socks)] \in Sock
      BY <1>5, EmptySeq, LenProperties, ElementOfSeq DEF StartUpInv, Calls, Listen
    <3>2. s \in Sock /\ [socks[Len(socks)] EXCEPT !.state = "listening"] = s
      BY <1>5, <3>1 DEF Sock, StartUpInv, Listen, Calls
    <3>3. socks' = [socks EXCEPT ![Len(socks)] = s]
      BY <2>1, <3>2
    <3>4. /\ socks' \in Seq(Sock) /\ Len(socks') = Len(socks) /\ Len(socks) \in 1 .. Len(socks)
          /\ socks'[Len(socks)] = s
          /\ \A i \in 1 .. Len(socks) : i # Len(socks) => socks'[i] = socks[i] /\ Settled(i)
          /\ \A a \in 1 .. Len(args) : ListensOn(a) => ListensOn(a)'
      BY <1>5, <3>2, <3>3, LastChanges DEF Listen, Calls
    <3>5. \A i \in 1 .. Len(socks') : Settled(i)'
      BY <3>4 DEF Settled
    <3>6. ip = args[argx] /\ argx \in DOMAIN args
      BY <1>5, StartUpAssumption DEF Listen, StartUpInv, Calls
    <3>7. NeverAnyAddress'
      <4>1. UNCHANGED args /\ NeverAnyAddress
        BY <1>5 DEF StartUpInv, Listen
      <4>2. /\ DOMAIN socks = 1 .. Len(socks) /\ DOMAIN socks' = 1 .. Len(socks)
            /\ Len(socks) \in DOMAIN socks
        BY <3>4, LenProperties DEF StartUpInv
      <4>3. \A i \in DOMAIN socks' : socks'[i].ip = s.ip \/ socks'[i] = socks[i]
        BY <3>4, <4>2
      <4>4. s.ip = ip
        OBVIOUS
      <4>5. QED BY <3>6, <4>1, <4>2, <4>3, <4>4 DEF NeverAnyAddress
    <3>8. \A a \in 1 .. argx' - 1 : ListensOn(a)'
      BY <1>5, <3>4 DEF StartUpInv, Listen
    <3>9. ListensOn(argx)'
      BY <1>5, <3>4, <3>6, LenProperties DEF ListensOn, Listen
    <3>10. QED
      BY <1>5, <2>1, <3>4, <3>5, <3>7, <3>8, <3>9 DEF Listen, StartUpInv, Calls
  <2>2. CASE Refused(-4)
    BY <1>5, <2>2, RefusedKeeps DEF Listen, Calls
  <2>3. QED BY <1>5, <2>1, <2>2 DEF Listen
<1>6. CASE Check
  <2>1. Len(args) \in Nat /\ argx \in Nat
    BY StartUpAssumption DEF StartUpInv
  <2>2. QED
    BY <1>6, <2>1 DEF Check, Passes, StartUpInv, Settled, ListensOn, NeverAnyAddress, Calls
<1>7. CASE UNCHANGED startUpVars
  BY <1>7 DEF startUpVars, StartUpInv, Settled, ListensOn, NeverAnyAddress
<1>8. QED BY <1>1, <1>2, <1>3, <1>4, <1>5, <1>6, <1>7 DEF StartUpNext

\* At each step of main the sockets that listen are those of the addresses done with.
THEOREM StartUpInvariant == StartUpSpec => []StartUpInv
BY StartUpInvInit, StartUpInvStep, PTL DEF StartUpSpec

\* run() starts only with a socket on each address of the command line (main's
\* assertions).
THEOREM RunsListening == StartUpSpec => []AllListening
<1>1. StartUpInv => AllListening
  <2> SUFFICES ASSUME StartUpInv, doing = "running", NEW a \in DOMAIN args
               PROVE  ListensOn(a)
    BY DEF AllListening, ListensOn
  <2>1. a \in 1 .. argx - 1 \/ a = argx
    BY StartUpAssumption DEF StartUpInv
  <2>2. QED BY <2>1 DEF StartUpInv
<1>2. QED BY <1>1, StartUpInvariant, PTL

\* No socket is bound to an address that the command line does not have, although
\* the result of import_ip is ignored.
THEOREM OnlyGivenAddresses == StartUpSpec => []NeverAnyAddress
<1>1. StartUpInv => NeverAnyAddress
  BY DEF StartUpInv
<1>2. QED BY <1>1, StartUpInvariant, PTL

\* Sockets::listen leaves no socket open when it fails.
THEOREM NoSocketLeaks == StartUpSpec => []FailureCloses
<1>1. StartUpInv => FailureCloses
  BY LenProperties DEF StartUpInv, FailureCloses, Settled, Calls
<1>2. QED BY <1>1, StartUpInvariant, PTL
===============================================================================
