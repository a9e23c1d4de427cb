------------------------------ MODULE Scheduler -------------------------------
(***************************************************************************)
(* scheduler.hpp, scheduler.cpp: Scheduler::run and the Services it        *)
(* resumes, for service coroutines that call the interface in any order.   *)
(*                                                                         *)
(* One thread runs everything, so between two steps either the scheduler   *)
(* (Main) or one service has the processor (cpu).  A step is what runs     *)
(* between two points at which the kernel or another coroutine can change  *)
(* what the program sees: one call of the interface, or one transfer of    *)
(* control together with what the side that gets it does first.            *)
(*                                                                         *)
(* A Service is its address.  Addresses and descriptors are reused, as     *)
(* operator new and the kernel reuse them.                                 *)
(***************************************************************************)
EXTENDS Events, Integers

CONSTANTS Svc,      \* addresses at which a Service may be allocated
          Fd,       \* descriptors the process may hold
          NTimers,  \* calls of add_timer made before run()
          Main,     \* the scheduler's own context
          NoFd, NoSvc

ASSUME SchedulerAssumption ==
  /\ NTimers \in Nat
  /\ Main \notin Svc
  /\ NoFd \notin Fd
  /\ NoSvc \notin Svc

Timer == 0 .. NTimers - 1

\* Scheduler::no_timer, ~size_t(0): an index no timer has.
NoTimer == NTimers

VARIABLES
  open,    \* descriptors open in the process
  epPtr,   \* epoll instance: data.ptr of a registered descriptor, or NoSvc
  epMask,  \* epoll instance: the events it is registered for
  fdset,   \* Scheduler::fdset, the descriptors del() believes registered
  phase,   \* where run() is: "setup", "wait", "expire" or "dispatch"
  tx,      \* timer_parms.timerx, the timer being expired
  ready,   \* run()'s service_list; see EpollWait for why a set is enough
  cpu,     \* Main or the service that is running
  co,      \* life of each service's coroutine, see Stage
  sock,    \* Service::sock
  ev,      \* Service::ev
  er,      \* Service::er_flags
  timerx,  \* Service::timerx, set by the timer callback
  tmr,     \* the timer whose list holds Service::tmrnode, or NoTimer
  lapsed,  \* services whose slot of the timer lies in the past
  thrown   \* index in the Service::Timeout the running service is handling

kernelVars == <<open, epPtr, epMask>>
runVars == <<phase, tx, ready, cpu>>
objVars == <<co, sock, ev, er, timerx, tmr, lapsed, thrown>>
vars == <<kernelVars, fdset, runVars, objVars>>

\* "free": no object at this address.  "new": constructed, its function not
\* entered.  "entered": entered, not resumed since.  "active": has come back
\* from a yield.  "exiting", "closed": inside exit_coroutine, after
\* scheduler.del and after close.
Stage == {"free", "new", "entered", "active", "exiting", "closed"}

Heap == {s \in Svc : co[s] # "free"}

\* Running its own code, not leaving.
Runs(s) == cpu = s /\ co[s] \in {"entered", "active"}

\* Has been entered and waits in Service::yield.
Suspended(s) == cpu # s /\ co[s] \in {"entered", "active"}

Linked == {s \in Svc : tmr[s] # NoTimer}
-------------------------------------------------------------------------------
(***************************************************************************)
(* Creation: new Service(func,fd) and scheduler.add(fd,mask,svc).  In add, *)
(* epoll_ctl may refuse; main() asserts that it did not, the listener      *)
(* ignores the result.  add does not record fd in fdset.                   *)
(***************************************************************************)
Construct(t, f) ==
  /\ co[t] = "free"
  /\ f \notin open
  /\ co' = [co EXCEPT ![t] = "new"]
  /\ sock' = [sock EXCEPT ![t] = f]
  /\ open' = open \cup {f}

Add(t, f, mask) ==
  /\ epPtr' = [epPtr EXCEPT ![f] = t]
  /\ epMask' = [epMask EXCEPT ![f] = mask]
  /\ UNCHANGED fdset

AddRefused == UNCHANGED <<epPtr, epMask, fdset>>

\* main(): add_listen_port, before run().
AddListener(t, f, mask) ==
  /\ phase = "setup"
  /\ Construct(t, f)
  /\ Add(t, f, mask)
  /\ UNCHANGED <<runVars, ev, er, timerx, tmr, lapsed, thrown>>

\* main() calls run() once it has at least one listener.
StartRun ==
  /\ phase = "setup"
  /\ Heap # {}
  /\ phase' = "wait"
  /\ UNCHANGED <<kernelVars, fdset, tx, ready, cpu, objVars>>

\* Scheduler::set_timer on a service: EvTimer::insert unlinks the node and
\* links it into the list of its new slot, which may be one that expire(now)
\* is emptying or has yet to reach.
SetTimer(t, x) ==
  /\ tmr' = [tmr EXCEPT ![t] = x]
  /\ \/ lapsed' = lapsed \ {t}
     \/ x \in Timer /\ lapsed' = lapsed \cup {t}

\* A running service (the listener) accepts f, makes a service for it, adds
\* it and, as x is a timer or NoTimer, arms its timer or not.
Spawn(s, t, f, mask, x) ==
  /\ Runs(s)
  /\ Construct(t, f)
  /\ Add(t, f, mask) \/ AddRefused
  /\ SetTimer(t, x)
  /\ UNCHANGED <<runVars, ev, er, timerx, thrown>>

\* A running service arms its own timer.
Arm(s, x) ==
  /\ Runs(s)
  /\ SetTimer(s, x)
  /\ UNCHANGED <<kernelVars, fdset, runVars, co, sock, ev, er, timerx, thrown>>

\* A running service changes the events it wants: set_ev, or disable_ev(off)
\* followed by enable_ev(on).
Request(s, f) ==
  /\ Runs(s)
  /\ ev' = [ev EXCEPT ![s] = SetEv(@, f)]
  /\ UNCHANGED <<kernelVars, fdset, runVars, co, sock, er, timerx, tmr, lapsed, thrown>>

Switch(s, off, on) ==
  /\ Runs(s)
  /\ ev' = [ev EXCEPT ![s] = EnableEv(DisableEv(@, off), on)]
  /\ UNCHANGED <<kernelVars, fdset, runVars, co, sock, er, timerx, tmr, lapsed, thrown>>
-------------------------------------------------------------------------------
(***************************************************************************)
(* Scheduler::run.                                                         *)
(***************************************************************************)

\* What epoll may report for a registered descriptor.
Reportable(f) == epMask[f] \cup Forced

\* Mutant of SeenErrors: er_flags |= ev_flags.
SeenFlags(report, s) ==
  UNION {report[f] : f \in {g \in DOMAIN report : epPtr[g] = s}}

\* svc.ev_flags & (EPOLLERR|EPOLLHUP|EPOLLRDHUP): the errors in what epoll
\* reports of a service's descriptors.
SeenErrors(report, s) ==
  ErrFlag \cap UNION {report[f] : f \in {g \in DOMAIN report : epPtr[g] = s}}

\* epoll_wait returns n > 0 events and run() queues their services.  report
\* maps each reported descriptor to the flags seen.  A descriptor is reported
\* at most once and in an order the kernel chooses; the whole list is drained
\* before the next wait, and an element leaves it only from the front or by
\* its destructor: the set of its elements is all that matters.
EpollWait(report) ==
  /\ phase = "wait"
  /\ cpu = Main
  /\ DOMAIN report # {}
  /\ DOMAIN report \subseteq {f \in Fd : epPtr[f] # NoSvc}
  /\ \A f \in DOMAIN report : report[f] # {} /\ report[f] \subseteq Reportable(f)
  /\ ready' = {epPtr[f] : f \in DOMAIN report}
  /\ er' = [s \in Svc |-> er[s] \cup SeenErrors(report, s)]
  /\ phase' = "expire"
  /\ tx' = 0
  /\ UNCHANGED <<kernelVars, fdset, cpu, co, sock, ev, timerx, tmr, lapsed, thrown>>

\* epoll_wait returns 0 after 10 ms, or fails: run() waits again, and looks at
\* no timer.
EpollIdle ==
  /\ phase = "wait"
  /\ cpu = Main
  /\ UNCHANGED vars

\* The clock moves.  run() reads it once a round, when epoll_wait returned, so
\* the slots that reading passes lapse while the program waits.
Lapse(s) ==
  /\ phase = "wait"
  /\ s \in Linked \ lapsed
  /\ lapsed' = lapsed \cup {s}
  /\ UNCHANGED <<kernelVars, fdset, runVars, co, sock, ev, er, timerx, tmr, thrown>>

\* Mutant of TakeTimeout: timerx is left set.
LeaveTimeout(s, x) ==
  /\ timerx' = [timerx EXCEPT ![s] = x]
  /\ thrown' = x

\* Service::yield clears timerx before it throws.
TakeTimeout(s, x) ==
  /\ timerx' = [timerx EXCEPT ![s] = NoTimer]
  /\ thrown' = x

\* Control passes to s, whose Service::timerx is then x.  A coroutine that was
\* never entered starts at the top of its function and leaves timerx alone; any
\* other returns from CoroutineBase::yield inside Service::yield, which clears
\* timerx and throws Timeout when it was set.
Resume(s, x) ==
  /\ cpu' = s
  /\ IF co[s] = "new"
     THEN /\ co' = [co EXCEPT ![s] = "entered"]
          /\ timerx' = [timerx EXCEPT ![s] = x]
          /\ thrown' = NoTimer
     ELSE /\ co' = [co EXCEPT ![s] = "active"]
          /\ TakeTimeout(s, x)

\* EvTimer::expire pops one service whose time has come; the callback marks it
\* with the timer's index and resumes it.
Expire(s) ==
  /\ phase = "expire"
  /\ cpu = Main
  /\ s \in lapsed
  /\ tmr[s] = tx
  /\ tmr' = [tmr EXCEPT ![s] = NoTimer]
  /\ lapsed' = lapsed \ {s}
  /\ Resume(s, tx)
  /\ UNCHANGED <<kernelVars, fdset, phase, tx, ready, sock, ev, er>>

\* Mutant of ExpireDone: expire calls back for the first of a list only.
ExpireOne ==
  /\ phase = "expire"
  /\ cpu = Main
  /\ IF tx + 1 < NTimers
     THEN tx' = tx + 1 /\ UNCHANGED phase
     ELSE tx' = 0 /\ phase' = "dispatch"
  /\ UNCHANGED <<kernelVars, fdset, ready, cpu, objVars>>

\* No service of timer tx is due: go on with the next timer, or dispatch.
ExpireDone ==
  /\ phase = "expire"
  /\ cpu = Main
  /\ \A s \in lapsed : tmr[s] # tx
  /\ IF tx + 1 < NTimers
     THEN tx' = tx + 1 /\ UNCHANGED phase
     ELSE tx' = 0 /\ phase' = "dispatch"
  /\ UNCHANGED <<kernelVars, fdset, ready, cpu, objVars>>

\* while ( !service_list.empty() ): pop the front and resume it.
Dispatch(s) ==
  /\ phase = "dispatch"
  /\ cpu = Main
  /\ s \in ready
  /\ ready' = ready \ {s}
  /\ Resume(s, timerx[s])
  /\ UNCHANGED <<kernelVars, fdset, phase, tx, sock, ev, er, tmr, lapsed>>

DispatchDone ==
  /\ phase = "dispatch"
  /\ cpu = Main
  /\ ready = {}
  /\ phase' = "wait"
  /\ UNCHANGED <<kernelVars, fdset, tx, ready, cpu, objVars>>
-------------------------------------------------------------------------------
(***************************************************************************)
(* The running service gives control back.                                 *)
(***************************************************************************)

\* Mutant of Chg: the mask of before sync_ev.
ChgUnsynced(s, e) ==
  IF HasChanges(e) /\ epPtr[sock[s]] # NoSvc
  THEN epMask' = [epMask EXCEPT ![sock[s]] = e.events] /\ UNCHANGED epPtr
  ELSE UNCHANGED <<epMask, epPtr>>

\* Scheduler::chg, called when sync_ev reported changes: EPOLL_CTL_MOD, which
\* fails without effect on a descriptor that is not registered.
Chg(s, e) ==
  IF HasChanges(e) /\ epPtr[sock[s]] # NoSvc
  THEN /\ epMask' = [epMask EXCEPT ![sock[s]] = SyncEv(e).events]
       /\ epPtr' = [epPtr EXCEPT ![sock[s]] = s]
  ELSE UNCHANGED <<epMask, epPtr>>

\* Service::yield up to the transfer, then run() after its call of yield:
\* the dispatch loop stops asking for errors already seen, the timer callback
\* does not; both sync and apply the changes.
Yield(s) ==
  LET e == IF phase = "dispatch" THEN DisableEv(ev[s], er[s]) ELSE ev[s]
  IN /\ Runs(s)
     /\ cpu' = Main
     /\ thrown' = NoTimer
     /\ ev' = [ev EXCEPT ![s] = SyncEv(e)]
     /\ Chg(s, e)
     /\ UNCHANGED <<open, fdset, phase, tx, ready, co, sock, er, timerx, tmr, lapsed>>

\* exit_coroutine, first call: scheduler.del, which gives up when fdset does
\* not hold the descriptor.
ExitDel(s) ==
  /\ Runs(s)
  /\ co' = [co EXCEPT ![s] = "exiting"]
  /\ IF sock[s] \in fdset
     THEN /\ fdset' = fdset \ {sock[s]}
          /\ epPtr' = [epPtr EXCEPT ![sock[s]] = NoSvc]
          /\ epMask' = [epMask EXCEPT ![sock[s]] = {}]
     ELSE UNCHANGED <<fdset, epPtr, epMask>>
  /\ UNCHANGED <<open, runVars, sock, ev, er, timerx, tmr, lapsed, thrown>>

\* Mutant of Close: the descriptor stays open.
NoClose(f) == UNCHANGED kernelVars

\* ::close; the kernel drops the registration of a descriptor that is closed.
Close(f) ==
  /\ open' = open \ {f}
  /\ epPtr' = [epPtr EXCEPT ![f] = NoSvc]
  /\ epMask' = [epMask EXCEPT ![f] = {}]

\* exit_coroutine, second call.
ExitClose(s) ==
  /\ cpu = s
  /\ co[s] = "exiting"
  /\ co' = [co EXCEPT ![s] = "closed"]
  /\ Close(sock[s])
  /\ UNCHANGED <<fdset, runVars, sock, ev, er, timerx, tmr, lapsed, thrown>>

\* Mutant of Unhook: hooks that do not unlink themselves.
KeepHooks(s) == UNCHANGED <<ready, tmr, lapsed>>

\* ~Service: its auto_unlink hooks leave service_list and the timer's list.
Unhook(s) ==
  /\ ready' = ready \ {s}
  /\ tmr' = [tmr EXCEPT ![s] = NoTimer]
  /\ lapsed' = lapsed \ {s}

\* exit_coroutine, third call: terminate() passes nullptr to run(), which
\* deletes the service.
Terminate(s) ==
  /\ cpu = s
  /\ co[s] = "closed"
  /\ cpu' = Main
  /\ thrown' = NoTimer
  /\ co' = [co EXCEPT ![s] = "free"]
  /\ Unhook(s)
  /\ sock' = [sock EXCEPT ![s] = NoFd]
  /\ ev' = [ev EXCEPT ![s] = EventsInit]
  /\ er' = [er EXCEPT ![s] = {}]
  /\ timerx' = [timerx EXCEPT ![s] = NoTimer]
  /\ UNCHANGED <<kernelVars, fdset, phase, tx>>
-------------------------------------------------------------------------------
Init ==
  /\ open = {}
  /\ epPtr = [f \in Fd |-> NoSvc]
  /\ epMask = [f \in Fd |-> {}]
  /\ fdset = {}
  /\ phase = "setup"
  /\ tx = 0
  /\ ready = {}
  /\ cpu = Main
  /\ co = [s \in Svc |-> "free"]
  /\ sock = [s \in Svc |-> NoFd]
  /\ ev = [s \in Svc |-> EventsInit]
  /\ er = [s \in Svc |-> {}]
  /\ timerx = [s \in Svc |-> NoTimer]
  /\ tmr = [s \in Svc |-> NoTimer]
  /\ lapsed = {}
  /\ thrown = NoTimer

Setup ==
  /\ phase = "setup"
  /\ \/ \E t \in Svc, f \in Fd, mask \in SUBSET Flag : AddListener(t, f, mask)
     \/ StartRun

\* What run() and the kernel do.
RunLoop ==
  \/ /\ cpu = Main
     /\ \/ phase = "wait" /\ \E F \in SUBSET Fd : \E report \in [F -> SUBSET Flag] :
             EpollWait(report)
        \/ EpollIdle \/ ExpireDone \/ DispatchDone
        \/ \E s \in Svc : Expire(s) \/ Dispatch(s)
  \/ \E s \in Svc : Lapse(s)

\* What the coroutine of a service may do while it runs.
Body(s) ==
  /\ cpu = s
  /\ \/ \E t \in Svc, f \in Fd, mask \in SUBSET Flag, x \in Timer \cup {NoTimer} :
          Spawn(s, t, f, mask, x)
     \/ \E x \in Timer : Arm(s, x)
     \/ \E f \in SUBSET Flag : Request(s, f)
     \/ \E off, on \in SUBSET Flag : Switch(s, off, on)
     \/ Yield(s)
     \/ ExitDel(s)
     \/ ExitClose(s)
     \/ Terminate(s)

Next == Setup \/ RunLoop \/ \E s \in Svc : Body(s)

Spec == Init /\ [][Next]_vars
-------------------------------------------------------------------------------
TypeOK ==
  /\ open \subseteq Fd
  /\ epPtr \in [Fd -> Svc \cup {NoSvc}]
  /\ epMask \in [Fd -> SUBSET Flag]
  /\ fdset \subseteq Fd
  /\ phase \in {"setup", "wait", "expire", "dispatch"}
  /\ tx \in Nat
  /\ ready \subseteq Svc
  /\ cpu \in Svc \cup {Main}
  /\ co \in [Svc -> Stage]
  /\ sock \in [Svc -> Fd \cup {NoFd}]
  /\ ev \in [Svc -> EventsObj]
  /\ er \in [Svc -> SUBSET ErrFlag]
  /\ timerx \in [Svc -> Timer \cup {NoTimer}]
  /\ tmr \in [Svc -> Timer \cup {NoTimer}]
  /\ lapsed \subseteq Svc
  /\ thrown \in Timer \cup {NoTimer}

\* run() follows pointers it got from epoll, from service_list and from the
\* timer lists, and deletes services while other pointers to them may remain:
\* none it can still follow leads to a deleted service, and the one epoll
\* keeps for a descriptor leads to the service that owns the descriptor.
NoDangling ==
  /\ ready \subseteq Heap
  /\ Linked \subseteq Heap
  /\ cpu # Main => cpu \in Heap
  /\ \A f \in Fd : epPtr[f] # NoSvc => epPtr[f] \in Heap /\ sock[epPtr[f]] = f

\* Descriptors are reused as soon as they are closed: no open descriptor is
\* without a service that will close it, and no two services share one.
FdsOwned ==
  /\ \A f \in open : \E s \in Heap : sock[s] = f /\ co[s] # "closed"
  /\ \A s, t \in Heap : sock[s] = sock[t] => s = t

\* A timer that fires marks the service and resumes it, and Service::yield
\* takes the mark.  Only a service that the timer started, and that has not
\* been resumed since, waits with a mark left over: its next resumption, even
\* one by epoll, throws Timeout.
LeftoverTimeoutOnlyAtStart ==
  \A s \in Svc : Suspended(s) /\ timerx[s] # NoTimer => co[s] = "entered"

\* The kernel's mask of a suspended service is the one its Events object
\* holds, unless the object was never synced: what chg hands over and what
\* sync_ev applied do not drift apart, on the dispatch path or the timer's.
MaskInStep ==
  \A s \in Svc : Suspended(s) /\ epPtr[sock[s]] = s =>
    epMask[sock[s]] = ev[s].events \/ ev[s] = EventsInit

\* Services whose function has been entered.
Begun == {s \in Svc : co[s] \notin {"free", "new"}}

\* How many Timeouts of a timer a service may get: from the list its node is in,
\* and from the mark.
Owed ==
  [s \in Svc |-> [x \in Timer |-> (IF tmr[s] = x THEN 1 ELSE 0)
                               + (IF timerx[s] = x THEN 1 ELSE 0)]]

\* What the functions of services are promised.
Promise == INSTANCE Services WITH
  running <- cpu, alive <- Heap, started <- Begun, called <- ready, holds <- sock,
  owed <- Owed

\* With epoll's pointers, hooks and marks in objects that are deleted, run() keeps what
\* module Services promises: a service is resumed for a report or a timer of its own,
\* gets each Timeout once and none that was armed for another at its address, and
\* nobody else has its descriptor.
ImplementsServices == Promise!ServicesSpec

\* After exit_coroutine's scheduler.del the socket is out of epoll ("Remove
\* our socket from Epoll", server.cpp:63).
DelDeregisters == \A s \in Svc : co[s] = "exiting" => epPtr[sock[s]] = NoSvc
-------------------------------------------------------------------------------
(***************************************************************************)
(* The inductive invariant behind the invariants above.                    *)
(***************************************************************************)

\* Only live services are queued, linked into a timer or resumed, and none
\* runs while main() sets up or run() waits.
LiveRefs ==
  /\ phase \in {"setup", "wait"} => cpu = Main
  /\ ready \subseteq Heap
  /\ lapsed \subseteq Linked
  /\ Linked \subseteq Heap
  /\ cpu # Main => co[cpu] \notin {"free", "new"}

\* A service that is leaving keeps the processor until it is deleted.
LeavingRuns == \A s \in Svc : co[s] \in {"exiting", "closed"} => cpu = s

\* Who owns which descriptor, and what epoll knows of it.
Owned ==
  /\ \A s \in Heap : sock[s] \in Fd /\ (sock[s] \in open <=> co[s] # "closed")
  /\ \A f \in Fd : epPtr[f] # NoSvc =>
       epPtr[f] \in Heap /\ sock[epPtr[f]] = f /\ co[epPtr[f]] # "closed"

\* A mark of the timer callback is left only on a service it started.
MarkOnlyAtStart ==
  \A s \in Svc : timerx[s] # NoTimer => co[s] \in {"entered", "exiting", "closed"}

\* An Events object that was never synced is empty, except while its service
\* runs; one that was agrees with the kernel.
MaskAgrees ==
  \A s \in Svc :
    /\ co[s] \in {"free", "new"} => ev[s] = EventsInit
    /\ co[s] # "free" /\ epPtr[sock[s]] = s =>
         \/ epMask[sock[s]] = ev[s].events
         \/ ev[s].events = {} /\ (cpu # s => ev[s].chgs = {})

IInv == TypeOK /\ LiveRefs /\ LeavingRuns /\ Owned /\ FdsOwned
        /\ MarkOnlyAtStart /\ MaskAgrees
===============================================================================
