-------------------------------- MODULE StartUp --------------------------------
(***************************************************************************)
(* server.cpp's main and sockets.cpp: for each address of the command line *)
(* a socket is made to listen and a Service is added to the Scheduler.     *)
(* Every system call may fail.                                             *)
(***************************************************************************)
EXTENDS Integers, Sequences

CONSTANTS
  Args,    \* the command lines: sequences of addresses
  Parses   \* the addresses that inet_aton or inet_pton takes

\* At least one address: without arguments main takes the loopback's.
ASSUME StartUpAssumption ==
  \A a \in Args : Len(a) \in Nat \ {0} /\ DOMAIN a = 1 .. Len(a)

VARIABLES
  args,
  argx,    \* the argument add_listen_port is called with
  doing,   \* its next step, "running" or "aborted" (an assertion)
  af,      \* address family: 0, or that of the address
  ip,      \* the address in addr: of the command line, or "any", which is all zeroes
  socks,   \* history: for each socket() that succeeded [ip, state]
  lfd      \* what listen returned: an index of socks, or negative

startUpVars == <<args, argx, doing, af, ip, socks, lfd>>

StartUpInit ==
  /\ args \in Args /\ argx = 1 /\ doing = "import"
  /\ af = 0 /\ ip = "any" /\ socks = <<>> /\ lfd = -1

\* Mutant of Family: set before the text is parsed.
FamilyFirst(a) == 1

\* import_ip sets the family last, so that it is left 0 when it returns false.
Family(a) == IF a \in Parses THEN 1 ELSE 0

\* import_ip, on zeroed memory.  Its result is ignored.
Import ==
  /\ doing = "import" /\ doing' = "socket"
  /\ af' = Family(args[argx])
  /\ ip' = IF args[argx] \in Parses THEN args[argx] ELSE "any"
  /\ UNCHANGED <<args, argx, socks, lfd>>

\* Mutant of Refused: the socket is left open.
LeftOpen(rc) == lfd' = rc /\ UNCHANGED socks

\* A call on the socket fails: listen closes it and returns rc.
Refused(rc) == lfd' = rc /\ socks' = [socks EXCEPT ![Len(socks)].state = "closed"]

\* socket(); there is no family 0.
Socket ==
  /\ doing = "socket"
  /\ \/ af # 0 /\ doing' = "setsockopt"
        /\ socks' = Append(socks, [ip |-> "any", state |-> "made"]) /\ UNCHANGED lfd
     \/ doing' = "check" /\ lfd' = -1 /\ UNCHANGED socks
  /\ UNCHANGED <<args, argx, af, ip>>

\* SO_REUSEADDR; the server does not ask for SO_REUSEPORT.
SetSockOpt ==
  /\ doing = "setsockopt"
  /\ \/ doing' = "bind" /\ UNCHANGED <<socks, lfd>>
     \/ doing' = "check" /\ Refused(-2)
  /\ UNCHANGED <<args, argx, af, ip>>

\* bind(), to an address that no other socket listens on.
Bind ==
  /\ doing = "bind"
  /\ \/ /\ \A i \in DOMAIN socks : socks[i].state = "listening" => socks[i].ip # ip
        /\ doing' = "listen" /\ UNCHANGED lfd
        /\ socks' = [socks EXCEPT ![Len(socks)] = [ip |-> ip, state |-> "bound"]]
     \/ doing' = "check" /\ Refused(-3)
  /\ UNCHANGED <<args, argx, af, ip>>

Listen ==
  /\ doing = "listen" /\ doing' = "check"
  /\ \/ lfd' = Len(socks) /\ socks' = [socks EXCEPT ![Len(socks)].state = "listening"]
     \/ Refused(-4)
  /\ UNCHANGED <<args, argx, af, ip>>

\* Mutant of Passes: a negative result is taken for a socket.
AnyResult == TRUE

\* assert(lfd >= 0)
Passes == lfd >= 0

\* The assertions; Scheduler::add may fail, too.  After the last argument, run().
Check ==
  /\ doing = "check"
  /\ \/ Passes /\ IF argx < Len(args) THEN doing' = "import" /\ argx' = argx + 1
                                      ELSE doing' = "running" /\ UNCHANGED argx
     \/ doing' = "aborted" /\ UNCHANGED argx
  /\ UNCHANGED <<args, af, ip, socks, lfd>>

StartUpNext == Import \/ Socket \/ SetSockOpt \/ Bind \/ Listen \/ Check

StartUpSpec == StartUpInit /\ [][StartUpNext]_startUpVars
-------------------------------------------------------------------------------
\* When run() starts the server listens on each address it was given.
AllListening ==
  doing = "running" => \A a \in DOMAIN args : \E i \in DOMAIN socks :
                         socks[i] = [ip |-> args[a], state |-> "listening"]

\* An address that cannot be parsed leaves zeroes, which would be any address; no
\* socket is bound to it although import_ip's result is ignored.
NeverAnyAddress == \A i \in DOMAIN socks : socks[i].state \in {"bound", "listening"} =>
                                              \E a \in DOMAIN args : socks[i].ip = args[a]

\* A call of listen that fails leaves no socket open.
FailureCloses ==
  doing = "check" /\ lfd < 0 => \A i \in DOMAIN socks : socks[i].state \in {"listening", "closed"}
===============================================================================
