-------------------------------- MODULE Server --------------------------------
(***************************************************************************)
(* server.cpp on top of the Scheduler: the listener coroutine listen_func, *)
(* one sock_func coroutine per connection with the HttpBuf reads and       *)
(* writes it makes, the clients, and the sockets between them.             *)
(*                                                                         *)
(* A step of a coroutine is one call: a system call with what the code     *)
(* does with its result, or a call of the Scheduler's interface, taken     *)
(* from module Scheduler.  The bytes of a connection are tokens, each a    *)
(* piece that the code tells from the others.                              *)
(***************************************************************************)
EXTENDS Scheduler, Sequences

CONSTANTS
  Client,       \* one connection each
  NoClient,
  Listener,     \* the listener's Service
  Scripts,      \* what each client may send in all: sequences of tokens
  WholeOnly,    \* TRUE: a client sends whole requests only, never a part
  MayEnd,       \* clients that may end their connection, by a FIN or a reset
  TxFills,      \* clients that may be slow, so that the send buffer fills up
  ShortWrites,  \* TRUE: write(2) may take a part of a buffer
  AddFails      \* TRUE: epoll_ctl(EPOLL_CTL_ADD) may fail for a connection

\* A piece of a header, or of a body ("b"), the end of a header with what
\* parse_headers finds in it, or the end of a chunked body ("z").
Token == [kind : {"h", "b", "z"}] \cup
         [kind : {"end"}, body : Nat, chunked : BOOLEAN, keep : BOOLEAN]

ASSUME ServerAssumption ==
  /\ {"IN", "OUT"} \subseteq Flag \ ErrFlag
  /\ ErrFlag = {"HUP", "RDHUP", "ERR"}
  /\ Forced = {"HUP", "ERR"}
  /\ NTimers > 0
  /\ Listener \in Svc
  /\ NoClient \notin Client
  /\ TxFills \subseteq Client
  /\ Fd \subseteq Nat
  /\ \A c \in Client : Scripts[c] \subseteq Seq(Token)

VARIABLES
  at,       \* where a coroutine is in its function, see Place
  hbuf,     \* sock_func's hbuf: the tokens of this request read so far
  chunked,  \* sock_func's chunkedf
  short,    \* the HttpBuf::write in progress has seen a short write
  peer,     \* a client's end of its connection, see Peer
  rx,       \* tokens received and not read
  txfull,   \* the send buffer is full
  todo,     \* what the client has still to send
  backlog,  \* connections waiting for accept4, in order
  conn,     \* the connection of a descriptor, or NoClient
  killed,   \* SIGPIPE has ended the process
  blocked   \* a system call of the running coroutine would block: it is to yield

bodyVars == <<at, hbuf, chunked, short>>
clientVars == <<peer, rx, txfull, todo, backlog>>
serverVars == <<bodyVars, clientVars, conn, killed>>
allVars == <<vars, serverVars, blocked>>

\* The listener is always at "accept".  A connection's coroutine starts at
\* "entry", reads ("hdr", "body", "chunk"), prepares to write ("resp", "arm"),
\* writes ("rhdr", "rbody"), finishes a response ("after"), leaves ("exit").
Reading == {"hdr", "body", "chunk"}
Writing == {"rhdr", "rbody"}
Place == {"none", "accept", "entry", "resp", "arm", "after", "exit"}
         \cup Reading \cup Writing

\* Mutant of Caught: the try block of read_body and read_chunked is missing.
CaughtButBody == {"hdr"} \cup Writing

\* The statements of sock_func inside a try block that catches Timeout.
Caught == Reading \cup Writing

\* "fin": the client sent FIN.  "rst": a reset arrived and was not reported
\* yet.  "dead": it was.  "gone": the server closed the connection.
Peer == {"none", "open", "fin", "rst", "dead", "gone"}

\* EPOLLIN|EPOLLHUP|EPOLLRDHUP|EPOLLERR
ReadEv == {"IN"} \cup ErrFlag

\* Mutant of ListenEv: the listener waits for nothing.
NoEv == {}

\* What add_listen_port asks for: EPOLLIN.
ListenEv == {"IN"}

\* Mutant of OutputTimer: an index no timer has.
Untimed == NoTimer

\* The timer that listen_func arms for a connection and the one that
\* sock_func arms for its response.
FirstTimer == 0
OutputTimer == 0

Sock(s) == conn[sock[s]]
-------------------------------------------------------------------------------
(***************************************************************************)
(* Reading a request: HttpBuf::read_header, read_body and read_chunked     *)
(* with parse_headers, and Service::read_sock under them.                  *)
(***************************************************************************)
HasEnd(b) == \E i \in DOMAIN b : b[i].kind = "end"

\* The first header end in b: have_end's hdr_epos.
EndPos(b) == CHOOSE i \in DOMAIN b :
  /\ b[i].kind = "end"
  /\ \A j \in 1 .. i - 1 : b[j].kind # "end"

Header(b) == b[EndPos(b)]
AfterHeader(b) == SubSeq(b, EndPos(b) + 1, Len(b))

\* The end of a chunked body has been read: read_chunked returns.
HasEndZ(b) == \E i \in DOMAIN AfterHeader(b) : AfterHeader(b)[i].kind = "z"

\* chunkedf once the header is parsed: set, never cleared.
ChunkedNow(s, b) == chunked[s] \/ (HasEnd(b) /\ Header(b).chunked)

\* Where the loops that read stop when hbuf holds b.
ReadTo(s, b) ==
  CASE ~HasEnd(b) -> "hdr"
    [] HasEnd(b) /\ ChunkedNow(s, b) ->
         IF HasEndZ(b) THEN "resp" ELSE "chunk"
    [] HasEnd(b) /\ ~ChunkedNow(s, b) ->
         IF Len(AfterHeader(b)) >= Header(b).body THEN "resp" ELSE "body"

\* A running coroutine that is at one of the places P and has no Timeout to
\* handle.
In(s, P) == Runs(s) /\ at[s] \in P /\ thrown = NoTimer /\ ~blocked

\* A system call would block.
Blocks ==
  /\ blocked' = TRUE
  /\ UNCHANGED <<vars, serverVars>>

\* The coroutine yields for it, whatever has happened to the socket since.
Yields(s) ==
  /\ blocked
  /\ Yield(s)
  /\ blocked' = FALSE
  /\ UNCHANGED serverVars

\* read(2) returns data.
ReadData(s) ==
  LET c == Sock(s) IN
  /\ In(s, Reading)
  /\ \E n \in 1 .. Len(rx[c]) :
       LET b == hbuf[s] \o SubSeq(rx[c], 1, n) IN
       /\ hbuf' = [hbuf EXCEPT ![s] = b]
       /\ rx' = [rx EXCEPT ![c] = SubSeq(@, n + 1, Len(@))]
       /\ chunked' = [chunked EXCEPT ![s] = ChunkedNow(s, b)]
       /\ at' = [at EXCEPT ![s] = ReadTo(s, b)]
  /\ UNCHANGED <<vars, short, peer, txfull, todo, backlog, conn, killed, blocked>>

\* read(2) would block: read_sock is to yield.
ReadWaits(s) ==
  /\ In(s, Reading)
  /\ rx[Sock(s)] = <<>>
  /\ peer[Sock(s)] = "open"
  /\ Blocks

\* Mutants of AfterEof: the result of read_header is ignored too; reading is
\* taken up again.
AnswerAnyway(p) == "resp"
ReadAgain(p) == p

\* Where sock_func goes from p when read(2) returned 0 or an error: it gives up
\* on a header; it ignores what read_body and read_chunked return and answers.
AfterEof(p) == IF p = "hdr" THEN "exit" ELSE "resp"

ReadEnds(s) ==
  LET c == Sock(s) IN
  /\ In(s, Reading)
  /\ rx[c] = <<>>
  /\ peer[c] \in {"fin", "rst", "dead"}
  /\ peer' = [peer EXCEPT ![c] = IF @ = "rst" THEN "dead" ELSE @]
  /\ at' = [at EXCEPT ![s] = AfterEof(@)]
  /\ UNCHANGED <<vars, hbuf, chunked, short, rx, txfull, todo, backlog, conn, killed, blocked>>
-------------------------------------------------------------------------------
(***************************************************************************)
(* Writing the response: HttpBuf::write of rhdr, then of rbody, and        *)
(* Service::write_sock under it.                                           *)
(***************************************************************************)
Written(s) == [at EXCEPT ![s] = IF @ = "rhdr" THEN "rbody" ELSE "after"]

\* write(2) takes bytes.  HttpBuf::write returns when one call took all that
\* the buffer holds; after a short write its get position never reaches the
\* end again, and it goes on writing.
WriteData(s) ==
  LET c == Sock(s) IN
  /\ In(s, Writing)
  /\ peer[c] \in {"open", "fin"}
  /\ ~txfull[c]
  /\ \E full \in {FALSE, (c \in TxFills)} : txfull' = [txfull EXCEPT ![c] = full]
  /\ \E part \in {FALSE} \cup {ShortWrites} :
       IF part \/ short[s]
       THEN short' = [short EXCEPT ![s] = TRUE] /\ UNCHANGED at
       ELSE at' = Written(s) /\ UNCHANGED short
  /\ UNCHANGED <<vars, hbuf, chunked, peer, rx, todo, backlog, conn, killed, blocked>>

\* write(2) would block: write_sock is to yield.
WriteWaits(s) ==
  /\ In(s, Writing)
  /\ peer[Sock(s)] \in {"open", "fin"}
  /\ txfull[Sock(s)]
  /\ Blocks

\* write(2) reports the reset.  write returns the error, which sock_func
\* ignores.
WriteFails(s) ==
  LET c == Sock(s) IN
  /\ In(s, Writing)
  /\ peer[c] = "rst"
  /\ peer' = [peer EXCEPT ![c] = "dead"]
  /\ at' = Written(s)
  /\ short' = [short EXCEPT ![s] = FALSE]
  /\ UNCHANGED <<vars, hbuf, chunked, rx, txfull, todo, backlog, conn, killed, blocked>>

\* write(2) on a connection whose reset was already reported raises SIGPIPE,
\* which the program neither ignores nor handles.
WriteKills(s) ==
  /\ In(s, Writing)
  /\ peer[Sock(s)] = "dead"
  /\ killed' = TRUE
  /\ UNCHANGED <<vars, bodyVars, clientVars, conn, blocked>>
-------------------------------------------------------------------------------
(***************************************************************************)
(* The rest of sock_func.                                                  *)
(***************************************************************************)
Enter(s) ==
  /\ In(s, {"entry"})
  /\ Request(s, ReadEv)
  /\ at' = [at EXCEPT ![s] = "hdr"]
  /\ UNCHANGED <<hbuf, chunked, short, clientVars, conn, killed, blocked>>

Respond(s) ==
  /\ In(s, {"resp"})
  /\ Switch(s, {"IN"}, {"OUT"})
  /\ at' = [at EXCEPT ![s] = "arm"]
  /\ UNCHANGED <<hbuf, chunked, short, clientVars, conn, killed, blocked>>

ArmOutput(s) ==
  /\ In(s, {"arm"})
  /\ Arm(s, OutputTimer)
  /\ at' = [at EXCEPT ![s] = "rhdr"]
  /\ UNCHANGED <<hbuf, chunked, short, clientVars, conn, killed, blocked>>

\* Back to the top of the keep-alive loop, where hbuf is reset, or out of it.
\* The output timer stays armed.
EndResponse(s) ==
  LET again == Header(hbuf[s]).keep /\ er[s] \cap ErrFlag = {} IN
  /\ In(s, {"after"})
  /\ Switch(s, {"OUT"}, {"IN"})
  /\ at' = [at EXCEPT ![s] = IF again THEN "hdr" ELSE "exit"]
  /\ hbuf' = [hbuf EXCEPT ![s] = <<>>]
  /\ UNCHANGED <<chunked, short, clientVars, conn, killed, blocked>>

\* catch ( Service::Timeout& ): all four handlers leave.
CatchTimeout(s) ==
  /\ Runs(s)
  /\ thrown # NoTimer
  /\ at[s] \in Caught
  /\ at' = [at EXCEPT ![s] = "exit"]
  /\ UNCHANGED <<vars, hbuf, chunked, short, clientVars, conn, killed, blocked>>

\* exit_coroutine.
Leave(s) ==
  /\ at[s] = "exit"
  /\ ExitDel(s)
  /\ UNCHANGED <<serverVars, blocked>>

Hangup(s) ==
  LET c == Sock(s) IN
  /\ ExitClose(s)
  /\ conn' = [conn EXCEPT ![sock[s]] = NoClient]
  /\ peer' = [peer EXCEPT ![c] = "gone"]
  /\ rx' = [rx EXCEPT ![c] = <<>>]
  /\ todo' = [todo EXCEPT ![c] = <<>>]
  /\ txfull' = [txfull EXCEPT ![c] = FALSE]
  /\ UNCHANGED <<bodyVars, backlog, killed, blocked>>

Delete(s) ==
  /\ Terminate(s)
  /\ at' = [at EXCEPT ![s] = "none"]
  /\ hbuf' = [hbuf EXCEPT ![s] = <<>>]
  /\ chunked' = [chunked EXCEPT ![s] = FALSE]
  /\ short' = [short EXCEPT ![s] = FALSE]
  /\ UNCHANGED <<clientVars, conn, killed, blocked>>
-------------------------------------------------------------------------------
(***************************************************************************)
(* listen_func and main.                                                   *)
(***************************************************************************)
\* socket(2) and accept4 return the lowest descriptor that is not open.
Lowest(f) == \A g \in Fd \ open : f <= g

AddListenPort(f) ==
  /\ Heap = {}
  /\ Lowest(f)
  /\ AddListener(Listener, f, ListenEv)
  /\ at' = [at EXCEPT ![Listener] = "accept"]
  /\ UNCHANGED <<hbuf, chunked, short, clientVars, conn, killed, blocked>>

\* accept4 returns descriptor f for the first connection of the backlog.
Accept(s, t, f) ==
  /\ In(s, {"accept"})
  /\ backlog # <<>>
  /\ Lowest(f)
  /\ Spawn(s, t, f, ReadEv, FirstTimer)
  /\ AddFails \/ epPtr'[f] = t
  /\ at' = [at EXCEPT ![t] = "entry"]
  /\ conn' = [conn EXCEPT ![f] = Head(backlog)]
  /\ backlog' = Tail(backlog)
  /\ UNCHANGED <<hbuf, chunked, short, peer, rx, txfull, todo, killed, blocked>>

\* accept4 fails: no connection waits, or no descriptor is left (EMFILE).
\* listen_func is to yield.
AcceptFails(s) ==
  /\ In(s, {"accept"})
  /\ backlog = <<>> \/ Fd \subseteq open
  /\ Blocks
-------------------------------------------------------------------------------
(***************************************************************************)
(* epoll and the clients, as the program sees them.                        *)
(***************************************************************************)
Condition(f) ==
  IF \E s \in Heap : sock[s] = f /\ at[s] = "accept"
  THEN IF backlog = <<>> THEN {} ELSE {"IN"}
  ELSE LET c == conn[f] IN
       (IF rx[c] # <<>> \/ peer[c] \in {"fin", "rst", "dead"} THEN {"IN"} ELSE {})
       \cup (IF ~txfull[c] \/ peer[c] \in {"rst", "dead"} THEN {"OUT"} ELSE {})
       \cup (IF peer[c] \in {"fin", "rst", "dead"} THEN {"RDHUP"} ELSE {})
       \cup (IF peer[c] \in {"rst", "dead"} THEN {"HUP"} ELSE {})
       \cup (IF peer[c] = "rst" THEN {"ERR"} ELSE {})

Events(f) == Condition(f) \cap Reportable(f)
Ready == {f \in Fd : epPtr[f] # NoSvc /\ Events(f) # {}}

\* Everything that is ready is reported: run() leaves room for 8192 events.
Wait ==
  /\ EpollWait([f \in Ready |-> Events(f)])
  /\ UNCHANGED <<serverVars, blocked>>

\* Nothing is ready for 10 ms.
WaitTimesOut ==
  /\ Ready = {}
  /\ EpollIdle
  /\ UNCHANGED <<serverVars, blocked>>

Connect(c) ==
  /\ peer[c] = "none"
  /\ peer' = [peer EXCEPT ![c] = "open"]
  /\ todo' \in {[todo EXCEPT ![c] = script] : script \in Scripts[c]}
  /\ backlog' = Append(backlog, c)
  /\ UNCHANGED <<vars, bodyVars, rx, txfull, conn, killed, blocked>>

\* A request is whole when a script may end there or its next header starts.
RequestEnds(q, n) ==
  /\ q[n].kind # "h"
  /\ \A m \in DOMAIN q : m = n + 1 => q[m].kind \in {"h", "end"}

Send(c, n) ==
  /\ peer[c] = "open"
  /\ n \in DOMAIN todo[c]
  /\ WholeOnly => RequestEnds(todo[c], n)
  /\ rx' = [rx EXCEPT ![c] = @ \o SubSeq(todo[c], 1, n)]
  /\ todo' = [todo EXCEPT ![c] = SubSeq(@, n + 1, Len(@))]
  /\ UNCHANGED <<vars, bodyVars, peer, txfull, backlog, conn, killed, blocked>>

Finish(c) ==
  /\ c \in MayEnd
  /\ peer[c] = "open"
  /\ peer' = [peer EXCEPT ![c] = "fin"]
  /\ todo' = [todo EXCEPT ![c] = <<>>]
  /\ UNCHANGED <<vars, bodyVars, rx, txfull, backlog, conn, killed, blocked>>

\* A reset.  After a FIN the kernel reports it to write(2) as EPIPE at once.
Reset(c) ==
  /\ c \in MayEnd
  /\ peer[c] \in {"open", "fin"}
  /\ peer' = [peer EXCEPT ![c] = IF @ = "open" THEN "rst" ELSE "dead"]
  /\ todo' = [todo EXCEPT ![c] = <<>>]
  /\ UNCHANGED <<vars, bodyVars, rx, txfull, backlog, conn, killed, blocked>>

Drain(c) ==
  /\ txfull[c]
  /\ txfull' = [txfull EXCEPT ![c] = FALSE]
  /\ UNCHANGED <<vars, bodyVars, peer, rx, todo, backlog, conn, killed, blocked>>
-------------------------------------------------------------------------------
ServerInit ==
  /\ Init
  /\ at = [s \in Svc |-> "none"]
  /\ hbuf = [s \in Svc |-> <<>>]
  /\ chunked = [s \in Svc |-> FALSE]
  /\ short = [s \in Svc |-> FALSE]
  /\ peer = [c \in Client |-> "none"]
  /\ rx = [c \in Client |-> <<>>]
  /\ txfull = [c \in Client |-> FALSE]
  /\ todo = [c \in Client |-> <<>>]
  /\ backlog = <<>>
  /\ conn = [f \in Fd |-> NoClient]
  /\ killed = FALSE
  /\ blocked = FALSE

\* A coroutine's own code, while it has the processor.
Coroutine(s) ==
  /\ cpu = s
  /\ \/ Enter(s) \/ ReadData(s) \/ ReadWaits(s) \/ ReadEnds(s)
     \/ Respond(s) \/ ArmOutput(s)
     \/ WriteData(s) \/ WriteWaits(s) \/ WriteFails(s) \/ WriteKills(s)
     \/ EndResponse(s) \/ CatchTimeout(s) \/ Leave(s) \/ Hangup(s) \/ Delete(s)
     \/ \E t \in Svc, f \in Fd : Accept(s, t, f)
     \/ AcceptFails(s)
     \/ Yields(s)

\* main and run(), in the process's own context.
Loop ==
  /\ cpu = Main
  /\ \/ \E f \in Fd : AddListenPort(f)
     \/ (StartRun \/ ExpireDone \/ DispatchDone) /\ UNCHANGED <<serverVars, blocked>>
     \/ \E s \in Svc : (Expire(s) \/ Dispatch(s)) /\ UNCHANGED <<serverVars, blocked>>
     \/ Wait

\* The one thread of the process: it takes a step whenever it can.
Thread == ~killed /\ (Loop \/ \E s \in Svc : Coroutine(s))

Clock == \E s \in Svc : ~killed /\ Lapse(s) /\ UNCHANGED <<serverVars, blocked>>

Environment ==
  \E c \in Client :
    \/ Connect(c) \/ Finish(c) \/ Reset(c) \/ Drain(c)
    \/ \E n \in DOMAIN todo[c] : Send(c, n)

ServerNext == Thread \/ Clock \/ WaitTimesOut \/ Environment

ServerSpec == ServerInit /\ [][ServerNext]_allVars

\* The thread runs; the clock, the clients and the network owe it nothing.
FairServerSpec == ServerSpec /\ WF_allVars(Thread)
-------------------------------------------------------------------------------
\* Places where a whole header has been read and parsed.
Parsed == {"body", "chunk", "resp", "arm", "after"} \cup Writing

ServerTypeOK ==
  /\ at \in [Svc -> Place]
  /\ hbuf \in [Svc -> Seq(Token)]
  /\ \A s \in Svc : at[s] \in Parsed => HasEnd(hbuf[s])
  /\ chunked \in [Svc -> BOOLEAN]
  /\ short \in [Svc -> BOOLEAN]
  /\ peer \in [Client -> Peer]
  /\ rx \in [Client -> Seq(Token)] /\ todo \in [Client -> Seq(Token)]
  /\ txfull \in [Client -> BOOLEAN]
  /\ backlog \in Seq(Client)
  /\ conn \in [Fd -> Client \cup {NoClient}]
  /\ killed \in BOOLEAN /\ blocked \in BOOLEAN

\* The services use the scheduler as module Scheduler lets any service do.
ImplementsScheduler == Spec

\* A Timeout is only thrown where sock_func catches it: an exception that left
\* a coroutine's function would end the process.  The listener yields outside
\* any try block, and any service may be woken by a mark left over.
NoUncaughtTimeout ==
  \A s \in Svc : Runs(s) /\ thrown # NoTimer => at[s] \in Caught \cup {"exit"}

\* A response that is held up is timed: a coroutine that waits to write has the
\* output timer armed, whatever it was woken by before.
WriterTimed ==
  \A s \in Svc : Suspended(s) /\ at[s] \in Writing => tmr[s] = 0

\* A coroutine that waits is registered for what it waits for, unless errors
\* were seen on its connection ("Desired epoll(2) events", scheduler.hpp:32).
InterestAsAsked ==
  \A s \in Svc : Suspended(s) /\ er[s] = {} /\ epPtr[sock[s]] = s =>
    /\ at[s] \in Reading => "IN" \in epMask[sock[s]]
    /\ at[s] \in Writing => "OUT" \in epMask[sock[s]]

\* "True when body is chunked" (server.cpp:40).
ChunkedAsDeclared ==
  \A s \in Svc : at[s] = "chunk" => Header(hbuf[s]).chunked

\* A write that fails is a value that write_sock returns ("Fail..",
\* scheduler.cpp:184), not the end of the process.
WriteFailureReturned == ~killed

Served(c) == \E f \in Fd : conn[f] = c

\* A connection that was reset is closed, whatever its coroutine was doing and
\* whatever its mask has become.
ResetReclaimed ==
  \A c \in Client :
    Served(c) /\ peer[c] \in {"rst", "dead"} ~> ~Served(c) \/ killed

\* The coroutine of c waits, but is not registered for what it waits for: epoll
\* refused to add its descriptor, or a second yield on the same wait took the
\* interest away (InterestAsAsked).
Unheard(c) ==
  \E s \in Svc :
    /\ cpu # s /\ co[s] \in {"new", "entered", "active"}
    /\ at[s] # "accept" /\ conn[sock[s]] = c
    /\ \/ at[s] \in {"entry"} \cup Reading /\ "IN" \notin epMask[sock[s]]
       \/ at[s] \in Writing /\ "OUT" \notin epMask[sock[s]]

\* Input does not wait forever, also input that arrives between the read(2) that
\* found none and the epoll_ctl after the yield, and whatever other clients do: it
\* is read, or the connection is closed, or the client does not take the response
\* to an earlier request.  Excepted is what epoll has not been asked to report.
InputServed ==
  \A c \in Client :
    Served(c) /\ rx[c] # <<>> ~>
      rx[c] = <<>> \/ ~Served(c) \/ txfull[c] \/ Unheard(c) \/ killed

\* A slot that lapsed strikes in the next round in which epoll has anything to
\* report (scheduler.cpp:94 looks at the timers in no other): also if the callbacks
\* of other services come first, which leave, arm timers or let these lapse.
LapsedStrikes ==
  \A s \in Svc :
    s \in lapsed /\ phase = "wait" /\ Ready # {} ~> s \notin lapsed \/ killed

\* A connection in the backlog is accepted, unless descriptors run out.
BacklogServed ==
  \A c \in Client :
    (\E i \in DOMAIN backlog : backlog[i] = c)
      ~> \/ \A i \in DOMAIN backlog : backlog[i] # c
         \/ Fd \subseteq open
         \/ killed
-------------------------------------------------------------------------------
\* s has the connection of c and has not closed it.
Serves(s, c) ==
  co[s] \notin {"free", "closed"} /\ at[s] # "accept" /\ conn[sock[s]] = c

ServerOf(c) == CHOOSE s \in Svc : Serves(s, c)

\* What a coroutine at p does for its client.
DoesAt(p) ==
  CASE p \in {"entry"} \cup Reading -> "reading"
    [] p \in {"resp", "arm", "after"} \cup Writing -> "answering"
    [] p = "exit" -> "closing"

ExchangeStage ==
  [c \in Client |->
     CASE peer[c] = "none" -> "none"
       [] peer[c] = "gone" -> "over"
       [] peer[c] \notin {"none", "gone"} ->
            IF \E s \in Svc : Serves(s, c) THEN DoesAt(at[ServerOf(c)]) ELSE "waiting"]

RequestRead ==
  [c \in Client |-> IF \E s \in Svc : Serves(s, c) THEN hbuf[ServerOf(c)] ELSE <<>>]

ClientEnded == [c \in Client |-> peer[c] \in {"fin", "rst", "dead", "gone"}]

\* A request is whole as its header says.
HeadedRequest == {b \in Seq(Token) : HasEnd(b)}
WholeRequest ==
  {b \in HeadedRequest :
     HasEndZ(b) \/ (~Header(b).chunked /\ Len(AfterHeader(b)) >= Header(b).body)}
KeptRequest == {b \in HeadedRequest : Header(b).keep}

\* What clients are promised.
Exchange == INSTANCE Connections WITH
  Headed <- HeadedRequest, Whole <- WholeRequest, Kept <- KeptRequest,
  waiting <- backlog, stage <- ExchangeStage, ended <- ClientEnded,
  unread <- rx, request <- RequestRead

\* With services and descriptors used again, timers that cut in anywhere and
\* requests that come in pieces, each client is served as module Connections
\* promises: in turn, from its own input, one whole request at a time.
ImplementsConnections == Exchange!ConnectionsSpec
-------------------------------------------------------------------------------
(***************************************************************************)
(* The inductive invariant behind the safety properties: what Scheduler    *)
(* keeps for any services, and what is particular to these.                *)
(***************************************************************************)
ListenerUntimed ==
  \A s \in Svc : at[s] = "accept" => timerx[s] = NoTimer /\ tmr[s] = NoTimer

\* A system call that blocks is one after which the code yields.
BlockedInCall ==
  blocked => /\ cpu \in Svc /\ Runs(cpu) /\ thrown = NoTimer
             /\ at[cpu] \in Caught \cup {"accept"}

\* Every yield but the listener's is inside a try block.
WaitsInTry ==
  \A s \in Svc : Suspended(s) => at[s] \in Caught \cup {"accept"}

NewAtStart == \A s \in Svc : co[s] = "new" => at[s] \in {"entry", "accept"}

WriterArmed ==
  \A s \in Svc : at[s] \in Writing => tmr[s] = 0 \/ (cpu = s /\ thrown # NoTimer)

ServerInv ==
  /\ IInv
  /\ at \in [Svc -> Place]
  /\ BlockedInCall /\ ListenerUntimed /\ WaitsInTry /\ NewAtStart /\ WriterArmed
  /\ NoUncaughtTimeout
===============================================================================
