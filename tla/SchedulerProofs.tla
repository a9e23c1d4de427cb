---------------------------- MODULE SchedulerProofs ----------------------------
(***************************************************************************)
(* Theorems about Scheduler and the Events objects it keeps, for any       *)
(* number of services, descriptors, flags and timers.                      *)
(***************************************************************************)
EXTENDS Scheduler, TLAPS

\* The constructor and every operation yield an Events object.
LEMMA EventsTyped ==
  ASSUME NEW e \in EventsObj, NEW f \in SUBSET Flag
  PROVE  /\ EventsInit \in EventsObj
         /\ Asked(e) \in SUBSET Flag
         /\ SetEv(e, f) \in EventsObj
         /\ EnableEv(e, f) \in EventsObj
         /\ DisableEv(e, f) \in EventsObj
         /\ SyncEv(e) \in EventsObj
<1>1. e.events \in SUBSET Flag /\ e.chgs \in SUBSET Flag
  BY DEF EventsObj
<1>2. \A a, b \in SUBSET Flag : Xor(a, b) \in SUBSET Flag
  BY DEF Xor
<1>3. Asked(e) \in SUBSET Flag
  BY <1>1, <1>2 DEF Asked
<1>4. EventsInit \in EventsObj
  BY DEF EventsInit, EventsObj
<1>5. SetEv(e, f) \in EventsObj
  BY <1>1, <1>2 DEF SetEv, EventsObj
<1>6. EnableEv(e, f) \in EventsObj
  BY <1>1, <1>2, <1>3 DEF EnableEv, EventsObj
<1>7. DisableEv(e, f) \in EventsObj
  BY <1>1, <1>2, <1>3 DEF DisableEv, EventsObj
<1>8. SyncEv(e) \in EventsObj
  BY <1>1, <1>2 DEF SyncEv, EventsObj
<1>9. QED BY <1>3, <1>4, <1>5, <1>6, <1>7, <1>8

\* An object without changes is left as it is.
LEMMA NothingToSync ==
  ASSUME NEW e \in EventsObj, e.chgs = {}
  PROVE  SyncEv(e) = e
<1>1. Xor(e.events, {}) = e.events
  BY DEF Xor
<1>2. QED BY <1>1 DEF SyncEv, EventsObj

\* The requests compose on what is asked for, not on what was handed over:
\* set_ev replaces it, enable_ev adds to it, disable_ev takes from it, and none
\* of them touches ev_events.
THEOREM RequestsCompose ==
  ASSUME NEW e \in EventsObj, NEW f \in SUBSET Flag
  PROVE  /\ Asked(SetEv(e, f)) = f
         /\ Asked(EnableEv(e, f)) = Asked(e) \cup f
         /\ Asked(DisableEv(e, f)) = Asked(e) \ f
         /\ SetEv(e, f).events = e.events
         /\ EnableEv(e, f).events = e.events
         /\ DisableEv(e, f).events = e.events
<1>1. \A a, b \in SUBSET Flag : Xor(b, Xor(a, b)) = a
  BY DEF Xor
<1>2. e.events \in SUBSET Flag /\ Asked(e) \in SUBSET Flag
  BY EventsTyped DEF EventsObj
<1>3. /\ SetEv(e, f).events = e.events /\ SetEv(e, f).chgs = Xor(f, e.events)
      /\ EnableEv(e, f).events = e.events
      /\ EnableEv(e, f).chgs = Xor(Asked(e) \cup f, e.events)
      /\ DisableEv(e, f).events = e.events
      /\ DisableEv(e, f).chgs = Xor(Asked(e) \ f, e.events)
  BY DEF SetEv, EnableEv, DisableEv, EventsObj
<1>4. Asked(SetEv(e, f)) = f
  BY <1>1, <1>2, <1>3 DEF Asked
<1>5. Asked(EnableEv(e, f)) = Asked(e) \cup f
  BY <1>1, <1>2, <1>3 DEF Asked
<1>6. Asked(DisableEv(e, f)) = Asked(e) \ f
  BY <1>1, <1>2, <1>3 DEF Asked
<1>7. QED BY <1>3, <1>4, <1>5, <1>6

\* sync_ev hands over what was asked for.  As it leaves ev_chgs alone, what it
\* replaced is then asked for again, and the next sync_ev puts it back.
THEOREM SyncAlternates ==
  ASSUME NEW e \in EventsObj
  PROVE  /\ SyncEv(e).events = Asked(e)
         /\ Asked(SyncEv(e)) = e.events
         /\ SyncEv(SyncEv(e)) = e
<1>1. \A a, b \in SUBSET Flag : Xor(Xor(a, b), b) = a
  BY DEF Xor
<1>2. /\ SyncEv(e).events = Asked(e)
      /\ SyncEv(e).chgs = e.chgs
  BY DEF SyncEv, Asked, EventsObj
<1>3. Xor(Asked(e), e.chgs) = e.events
  BY <1>1 DEF Asked, EventsObj
<1>4. Asked(SyncEv(e)) = e.events
  BY <1>2, <1>3 DEF Asked
<1>5. SyncEv(SyncEv(e)) = e
  BY <1>2, <1>3 DEF SyncEv, EventsObj
<1>6. QED BY <1>2, <1>4, <1>5

\* What a report adds to a service's error flags are error flags.
LEMMA ErrorsReported ==
  ASSUME TypeOK, NEW F \in SUBSET Fd, NEW report \in [F -> SUBSET Flag],
         EpollWait(report)
  PROVE  er' \in [Svc -> SUBSET ErrFlag]
BY DEF TypeOK, EpollWait, SeenErrors

\* Every step keeps the types.
LEMMA TypeStep ==
  ASSUME TypeOK, [Next]_vars
  PROVE  TypeOK'
<1> USE DEF Stage
<1>1. CASE Setup
  <2>1. ASSUME NEW t \in Svc, NEW f \in Fd, NEW mask \in SUBSET Flag,
               AddListener(t, f, mask)
        PROVE TypeOK'
    BY <2>1 DEF TypeOK, AddListener, Construct, Add, runVars
  <2>2. CASE StartRun
    BY <2>2 DEF TypeOK, StartRun, kernelVars, objVars
  <2>3. QED BY <1>1, <2>1, <2>2 DEF Setup
<1>2. ASSUME NEW F \in SUBSET Fd, NEW report \in [F -> SUBSET Flag],
             EpollWait(report)
      PROVE TypeOK'
  BY <1>2, ErrorsReported DEF TypeOK, EpollWait, kernelVars
<1>3. ASSUME NEW s \in Svc, Lapse(s) PROVE TypeOK'
  BY <1>3 DEF TypeOK, Lapse, kernelVars, runVars
<1>4. ASSUME NEW s \in Svc, Expire(s) PROVE TypeOK'
  BY <1>4 DEF TypeOK, Expire, Resume, TakeTimeout, kernelVars, NoTimer, Timer
<1>5. ASSUME NEW s \in Svc, Dispatch(s) PROVE TypeOK'
  BY <1>5 DEF TypeOK, Dispatch, Resume, TakeTimeout, kernelVars
<1>6. CASE ExpireDone
  BY <1>6 DEF TypeOK, ExpireDone, kernelVars, objVars
<1>7. CASE DispatchDone
  BY <1>7 DEF TypeOK, DispatchDone, kernelVars, objVars
<1>8. CASE UNCHANGED vars
  BY <1>8 DEF TypeOK, vars, kernelVars, runVars, objVars
<1>9. ASSUME NEW s \in Svc, Body(s) PROVE TypeOK'
  <2>1. ASSUME NEW t \in Svc, NEW f \in Fd, NEW mask \in SUBSET Flag,
               NEW x \in Timer \cup {NoTimer}, Spawn(s, t, f, mask, x)
        PROVE TypeOK'
    BY <2>1 DEF TypeOK, Spawn, Construct, Add, AddRefused, SetTimer, runVars
  <2>2. ASSUME NEW x \in Timer, Arm(s, x) PROVE TypeOK'
    BY <2>2 DEF TypeOK, Arm, SetTimer, kernelVars, runVars
  <2>3. ASSUME NEW f \in SUBSET Flag, Request(s, f) PROVE TypeOK'
    BY <2>3, EventsTyped DEF TypeOK, Request, kernelVars, runVars
  <2>4. ASSUME NEW off \in SUBSET Flag, NEW on \in SUBSET Flag, Switch(s, off, on)
        PROVE TypeOK'
    BY <2>4, EventsTyped DEF TypeOK, Switch, kernelVars, runVars
  <2>5. CASE Yield(s)
    <3> DEFINE e == IF phase = "dispatch" THEN DisableEv(ev[s], er[s]) ELSE ev[s]
    <3>1. e \in EventsObj /\ SyncEv(e) \in EventsObj
      BY EventsTyped, FlagAssumption DEF TypeOK
    <3>2. epPtr' \in [Fd -> Svc \cup {NoSvc}] /\ epMask' \in [Fd -> SUBSET Flag]
      <4>1. Chg(s, e) BY <2>5 DEF Yield
      <4>2. SyncEv(e).events \in SUBSET Flag BY <3>1 DEF EventsObj
      <4>3. QED BY <4>1, <4>2 DEF Chg, TypeOK
    <3>3. QED BY <2>5, <3>1, <3>2 DEF TypeOK, Yield
  <2>6. CASE ExitDel(s)
    BY <2>6 DEF TypeOK, ExitDel, runVars
  <2>7. CASE ExitClose(s)
    BY <2>7 DEF TypeOK, ExitClose, Close, runVars
  <2>8. CASE Terminate(s)
    BY <2>8, EventsTyped DEF TypeOK, Terminate, Unhook, kernelVars
  <2>9. QED BY <1>9, <2>1, <2>2, <2>3, <2>4, <2>5, <2>6, <2>7, <2>8 DEF Body
<1>10. QED
  BY <1>1, <1>2, <1>3, <1>4, <1>5, <1>6, <1>7, <1>8, <1>9
  DEF Next, RunLoop, EpollIdle

\* Who owns what survives a step in which services only move on among the
\* stages of a live one.
LEMMA OwnershipKept ==
  ASSUME TypeOK, Owned, FdsOwned, UNCHANGED <<open, epPtr, sock>>,
         \A t \in Svc : /\ co[t] = "free" <=> co'[t] = "free"
                        /\ co[t] = "closed" <=> co'[t] = "closed"
  PROVE  Owned' /\ FdsOwned'
<1>1. Heap' = Heap
  BY DEF Heap
<1>2. FdsOwned'
  BY <1>1 DEF FdsOwned, Heap
<1>3. \A s \in Heap : sock[s] \in Fd /\ (sock[s] \in open <=> co'[s] # "closed")
  BY DEF Owned, Heap
<1>4. \A f \in Fd : epPtr[f] # NoSvc =>
        epPtr[f] \in Heap /\ sock[epPtr[f]] = f /\ co'[epPtr[f]] # "closed"
  BY DEF Owned, Heap
<1>5. QED BY <1>1, <1>2, <1>3, <1>4 DEF Owned

\* A new service on a new descriptor, registered with epoll or not.
LEMMA ConstructKeeps ==
  ASSUME IInv, NEW t \in Svc, NEW f \in Fd, NEW mask \in SUBSET Flag,
         \A s \in Svc : co[s] # "closed",
         Construct(t, f), Add(t, f, mask) \/ AddRefused, UNCHANGED <<cpu, ev>>
  PROVE  Owned' /\ FdsOwned' /\ MaskAgrees'
<1> USE SchedulerAssumption DEF IInv, TypeOK, Heap, Stage, Construct
<1>1. /\ Heap' = Heap \cup {t} /\ t \notin Heap
      /\ sock'[t] = f /\ co'[t] = "new"
      /\ \A s \in Heap : sock'[s] = sock[s] /\ co'[s] = co[s] /\ s # t
  OBVIOUS
<1>2. epPtr[f] = NoSvc
  BY DEF Owned
<1>3. \A s \in Heap : sock[s] \in open /\ sock[s] # f
  BY DEF Owned
<1>4. \A g \in Fd : g # f => epPtr'[g] = epPtr[g] /\ epMask'[g] = epMask[g]
  BY DEF Add, AddRefused
<1>5. epPtr'[f] = t \/ epPtr'[f] = NoSvc
  BY <1>2 DEF Add, AddRefused
<1>6. Owned'
  BY <1>1, <1>3, <1>4, <1>5 DEF Owned
<1>7. FdsOwned'
  BY <1>1, <1>3 DEF FdsOwned, Owned
<1>8. MaskAgrees'
  BY <1>1, <1>2, <1>3, <1>4, <1>5 DEF MaskAgrees, EventsInit
<1>9. QED BY <1>6, <1>7, <1>8

\* Every step of the program keeps the inductive invariant.
LEMMA InvariantStep ==
  ASSUME IInv, TypeOK', [Next]_vars
  PROVE  IInv'
<1> USE SchedulerAssumption
    DEF IInv, TypeOK, Stage, Heap, Linked, Runs, kernelVars, runVars, objVars
<1>1. ASSUME NEW t \in Svc, NEW f \in Fd, NEW mask \in SUBSET Flag,
             AddListener(t, f, mask)
      PROVE IInv'
  <2>1. \A s \in Svc : co[s] # "closed"
    BY <1>1 DEF AddListener, LiveRefs, LeavingRuns
  <2>2. Owned' /\ FdsOwned' /\ MaskAgrees'
    BY <1>1, <2>1, ConstructKeeps DEF AddListener
  <2>3. LiveRefs' /\ LeavingRuns' /\ MarkOnlyAtStart'
    BY <1>1, <2>1 DEF AddListener, Construct, LiveRefs, LeavingRuns, MarkOnlyAtStart
  <2>4. QED BY <2>2, <2>3
<1>2. CASE StartRun \/ ExpireDone \/ DispatchDone \/ UNCHANGED vars
  <2>1. Owned' /\ FdsOwned'
    BY <1>2, OwnershipKept DEF StartRun, ExpireDone, DispatchDone, vars
  <2>2. LiveRefs' /\ LeavingRuns' /\ MarkOnlyAtStart' /\ MaskAgrees'
    BY <1>2 DEF StartRun, ExpireDone, DispatchDone, vars, LiveRefs, LeavingRuns,
                MarkOnlyAtStart, MaskAgrees
  <2>3. QED BY <2>1, <2>2
<1>3. ASSUME NEW F \in SUBSET Fd, NEW report \in [F -> SUBSET Flag],
             EpollWait(report)
      PROVE IInv'
  <2>1. ready' \subseteq Heap'
    BY <1>3 DEF EpollWait, Owned
  <2>2. Owned' /\ FdsOwned'
    BY <1>3, OwnershipKept DEF EpollWait
  <2>3. LiveRefs' /\ LeavingRuns' /\ MarkOnlyAtStart' /\ MaskAgrees'
    BY <1>3, <2>1 DEF EpollWait, LiveRefs, LeavingRuns, MarkOnlyAtStart, MaskAgrees
  <2>4. QED BY <2>2, <2>3
<1>4. ASSUME NEW s \in Svc, Lapse(s) PROVE IInv'
  <2>1. Owned' /\ FdsOwned'
    BY <1>4, OwnershipKept DEF Lapse
  <2>2. LiveRefs' /\ LeavingRuns' /\ MarkOnlyAtStart' /\ MaskAgrees'
    BY <1>4 DEF Lapse, LiveRefs, LeavingRuns, MarkOnlyAtStart, MaskAgrees
  <2>3. QED BY <2>1, <2>2
<1>5. ASSUME NEW s \in Svc, Expire(s) \/ Dispatch(s) PROVE IInv'
  <2>1. /\ cpu = Main /\ cpu' = s
        /\ co[s] \in {"new", "entered", "active"}
        /\ co' = [co EXCEPT ![s] = IF @ = "new" THEN "entered" ELSE "active"]
    BY <1>5 DEF Expire, Dispatch, Resume, TakeTimeout, LiveRefs, LeavingRuns, NoTimer, Timer
  <2>2. UNCHANGED <<open, epPtr, epMask, sock, ev, phase>>
    BY <1>5 DEF Expire, Dispatch
  <2>3. Owned' /\ FdsOwned'
    BY <2>1, <2>2, OwnershipKept
  <2>4. LiveRefs'
    BY <1>5, <2>1 DEF Expire, Dispatch, LiveRefs, NoTimer, Timer
  <2>5. LeavingRuns'
    BY <2>1 DEF LeavingRuns
  <2>6. MarkOnlyAtStart'
    BY <1>5, <2>1 DEF Expire, Dispatch, Resume, TakeTimeout, MarkOnlyAtStart
  <2>7. MaskAgrees'
    BY <2>1, <2>2 DEF MaskAgrees, EventsInit
  <2>8. QED BY <2>3, <2>4, <2>5, <2>6, <2>7
<1>6. ASSUME NEW s \in Svc, NEW t \in Svc, NEW f \in Fd, NEW mask \in SUBSET Flag,
             NEW x \in Timer \cup {NoTimer}, Spawn(s, t, f, mask, x)
      PROVE IInv'
  <2>1. \A u \in Svc : co[u] # "closed"
    BY <1>6 DEF Spawn, LeavingRuns
  <2>2. Owned' /\ FdsOwned' /\ MaskAgrees'
    BY <1>6, <2>1, ConstructKeeps DEF Spawn
  <2>3. LiveRefs' /\ LeavingRuns' /\ MarkOnlyAtStart'
    BY <1>6 DEF Spawn, Construct, SetTimer, NoTimer, Timer, LiveRefs, LeavingRuns,
                MarkOnlyAtStart
  <2>4. QED BY <2>2, <2>3
<1>7. ASSUME NEW s \in Svc, NEW x \in Timer, Arm(s, x) PROVE IInv'
  <2>1. Owned' /\ FdsOwned'
    BY <1>7, OwnershipKept DEF Arm
  <2>2. LiveRefs' /\ LeavingRuns' /\ MarkOnlyAtStart' /\ MaskAgrees'
    BY <1>7 DEF Arm, SetTimer, NoTimer, Timer, LiveRefs, LeavingRuns, MarkOnlyAtStart,
                MaskAgrees
  <2>3. QED BY <2>1, <2>2
<1>8. ASSUME NEW s \in Svc,
             \/ \E f \in SUBSET Flag : Request(s, f)
             \/ \E off, on \in SUBSET Flag : Switch(s, off, on)
      PROVE IInv'
  <2>1. /\ cpu = s /\ co[s] \in {"entered", "active"}
        /\ ev'[s].events = ev[s].events
        /\ \A t \in Svc : t # s => ev'[t] = ev[t]
    BY <1>8, RequestsCompose, EventsTyped DEF Request, Switch
  <2>2. UNCHANGED <<kernelVars, fdset, runVars, co, sock, er, timerx, tmr, lapsed>>
    BY <1>8 DEF Request, Switch
  <2>3. Owned' /\ FdsOwned'
    BY <2>2, OwnershipKept
  <2>4. LiveRefs' /\ LeavingRuns' /\ MarkOnlyAtStart'
    BY <2>2 DEF LiveRefs, LeavingRuns, MarkOnlyAtStart
  <2>5. MaskAgrees'
    BY <2>1, <2>2 DEF MaskAgrees
  <2>6. QED BY <2>3, <2>4, <2>5
<1>9. ASSUME NEW s \in Svc, Yield(s) PROVE IInv'
  <2> DEFINE e == IF phase = "dispatch" THEN DisableEv(ev[s], er[s]) ELSE ev[s]
  <2>1. /\ cpu = s /\ cpu' = Main
        /\ co[s] \in {"entered", "active"}
        /\ ev' = [ev EXCEPT ![s] = SyncEv(e)]
        /\ Chg(s, e)
        /\ UNCHANGED <<open, fdset, phase, tx, ready, co, sock, er, timerx, tmr, lapsed>>
    BY <1>9 DEF Yield
  <2>2. e \in EventsObj /\ SyncEv(e) \in EventsObj /\ e.events = ev[s].events
    BY EventsTyped, RequestsCompose, FlagAssumption
  <2>3. UNCHANGED epPtr
    BY <2>1 DEF Chg, Owned, FdsOwned
  <2>4. Owned' /\ FdsOwned'
    BY <2>1, <2>3, OwnershipKept
  <2>5. LiveRefs' /\ LeavingRuns' /\ MarkOnlyAtStart'
    BY <2>1 DEF LiveRefs, LeavingRuns, MarkOnlyAtStart
  <2>6. MaskAgrees'
    <3>1. ASSUME NEW t \in Svc, t # s, co[t] # "free"
          PROVE epMask'[sock[t]] = epMask[sock[t]]
      <4>1. sock[t] # sock[s] /\ sock[t] \in Fd
        BY <2>1, <3>1 DEF FdsOwned, Owned
      <4>2. QED BY <2>1, <4>1 DEF Chg
    <3>2. CASE HasChanges(e)
      <4>1. epPtr[sock[s]] = s => epMask'[sock[s]] = ev'[s].events
        BY <2>1, <3>2 DEF Chg, Owned
      <4>2. QED BY <2>1, <2>3, <3>1, <4>1 DEF MaskAgrees
    <3>3. CASE ~HasChanges(e)
      <4>1. SyncEv(e) = e /\ e.chgs = {}
        BY <2>2, <3>3, NothingToSync DEF HasChanges
      <4>2. UNCHANGED epMask
        BY <2>1, <3>3 DEF Chg
      <4>3. QED BY <2>1, <2>2, <2>3, <4>1, <4>2 DEF MaskAgrees
    <3>4. QED BY <3>2, <3>3
  <2>7. QED BY <2>4, <2>5, <2>6
<1>10. ASSUME NEW s \in Svc, ExitDel(s) PROVE IInv'
  <2>1. /\ co[s] \in {"entered", "active"} /\ cpu = s
        /\ co' = [co EXCEPT ![s] = "exiting"]
        /\ UNCHANGED <<open, runVars, sock, ev, er, timerx, tmr, lapsed>>
    BY <1>10 DEF ExitDel
  <2>2. \A f \in Fd : \/ epPtr'[f] = epPtr[f] /\ epMask'[f] = epMask[f]
                      \/ epPtr'[f] = NoSvc
    BY <1>10 DEF ExitDel
  <2>3. Heap' = Heap /\ \A t \in Svc : co[t] = "closed" <=> co'[t] = "closed"
    BY <2>1
  <2>4. Owned' /\ FdsOwned'
    BY <2>1, <2>2, <2>3 DEF Owned, FdsOwned
  <2>5. LiveRefs' /\ LeavingRuns' /\ MarkOnlyAtStart'
    BY <2>1 DEF LiveRefs, LeavingRuns, MarkOnlyAtStart
  <2>6. MaskAgrees'
    BY <2>1, <2>2 DEF MaskAgrees, Owned
  <2>7. QED BY <2>4, <2>5, <2>6
<1>11. ASSUME NEW s \in Svc, ExitClose(s) PROVE IInv'
  <2>1. /\ co[s] = "exiting" /\ cpu = s
        /\ co' = [co EXCEPT ![s] = "closed"]
        /\ open' = open \ {sock[s]}
        /\ epPtr' = [epPtr EXCEPT ![sock[s]] = NoSvc]
        /\ epMask' = [epMask EXCEPT ![sock[s]] = {}]
        /\ UNCHANGED <<runVars, sock, ev, er, timerx, tmr, lapsed>>
    BY <1>11 DEF ExitClose, Close
  <2>2. sock[s] \in Fd /\ \A t \in Heap : t # s => sock[t] # sock[s]
    BY <2>1 DEF Owned, FdsOwned
  <2>3. Owned'
    <3>1. Heap' = Heap
      BY <2>1
    <3>2. \A t \in Heap : sock[t] \in Fd /\ (sock[t] \in open' <=> co'[t] # "closed")
      BY <2>1, <2>2 DEF Owned
    <3>3. \A f \in Fd : epPtr'[f] # NoSvc =>
            epPtr'[f] \in Heap /\ sock[epPtr'[f]] = f /\ co'[epPtr'[f]] # "closed"
      BY <2>1, <2>2 DEF Owned
    <3>4. QED BY <2>1, <3>1, <3>2, <3>3 DEF Owned
  <2>4. FdsOwned'
    BY <2>1, <2>2 DEF FdsOwned
  <2>5. LiveRefs' /\ LeavingRuns' /\ MarkOnlyAtStart'
    BY <2>1 DEF LiveRefs, LeavingRuns, MarkOnlyAtStart
  <2>6. MaskAgrees'
    BY <2>1, <2>2 DEF MaskAgrees, Owned
  <2>7. QED BY <2>3, <2>4, <2>5, <2>6
<1>12. ASSUME NEW s \in Svc, Terminate(s) PROVE IInv'
  <2>1. /\ co[s] = "closed" /\ cpu = s /\ cpu' = Main
        /\ co' = [co EXCEPT ![s] = "free"]
        /\ UNCHANGED <<open, epPtr, epMask, phase>>
        /\ \A t \in Svc : t # s => sock'[t] = sock[t] /\ ev'[t] = ev[t]
        /\ ev'[s] = EventsInit
    BY <1>12 DEF Terminate, Unhook
  <2>2. Heap' = Heap \ {s}
    BY <2>1
  <2>3. Owned'
    BY <2>1, <2>2 DEF Owned
  <2>4. FdsOwned'
    BY <2>1, <2>2 DEF FdsOwned
  <2>5. LiveRefs' /\ LeavingRuns' /\ MarkOnlyAtStart'
    BY <1>12, <2>2 DEF Terminate, Unhook, LiveRefs, LeavingRuns, MarkOnlyAtStart
  <2>6. MaskAgrees'
    BY <2>1 DEF MaskAgrees
  <2>7. QED BY <2>3, <2>4, <2>5, <2>6
<1>13. QED
  BY <1>1, <1>2, <1>3, <1>4, <1>5, <1>6, <1>7, <1>8, <1>9, <1>10, <1>11, <1>12
  DEF Next, Setup, RunLoop, Body, EpollIdle

\* It holds initially.
LEMMA InitInv ==
  ASSUME Init
  PROVE  IInv
<1>1. TypeOK
  BY EventsTyped DEF Init, TypeOK, Stage, EventsInit, EventsObj, NoTimer, Timer
<1>2. Heap = {} /\ Linked = {}
  BY DEF Init, Heap, Linked
<1>3. LiveRefs /\ LeavingRuns /\ Owned /\ FdsOwned
  BY <1>2 DEF Init, LiveRefs, LeavingRuns, Owned, FdsOwned
<1>4. MarkOnlyAtStart /\ MaskAgrees
  BY DEF Init, MarkOnlyAtStart, MaskAgrees
<1>5. QED BY <1>1, <1>3, <1>4 DEF IInv

\* The inductive invariant holds in every reachable state.
THEOREM Inductive == Spec => []IInv
<1>1. Init => IInv
  BY InitInv
<1>2. IInv /\ [Next]_vars => IInv'
  BY TypeStep, InvariantStep DEF IInv
<1>3. QED BY <1>1, <1>2, PTL DEF Spec

\* Every variable keeps its type: in particular nothing but a timer's index or
\* no_timer is ever thrown, and only error bits accumulate in er_flags.
THEOREM TypeCorrect == Spec => []TypeOK
BY Inductive, PTL DEF IInv

\* Whatever the services do, run() never holds or follows a pointer to a
\* deleted Service: not in service_list, not in a timer's list, not in the
\* data.ptr epoll hands back.
THEOREM NoUseAfterFree == Spec => []NoDangling
<1>1. IInv => NoDangling
  BY DEF IInv, TypeOK, LiveRefs, Owned, NoDangling, Heap
<1>2. QED BY <1>1, Inductive, PTL

\* No descriptor leaks and none is shared, with addresses and descriptors
\* reused at will.
THEOREM NoFdLeak == Spec => []FdsOwned
<1>1. IInv => FdsOwned
  BY DEF IInv
<1>2. QED BY <1>1, Inductive, PTL

\* A timer that went off is delivered at the resumption it caused, unless it
\* was the one that started the service.
THEOREM TimeoutsDelivered == Spec => []LeftoverTimeoutOnlyAtStart
<1>1. IInv => LeftoverTimeoutOnlyAtStart
  BY DEF IInv, MarkOnlyAtStart, LeftoverTimeoutOnlyAtStart, Suspended
<1>2. QED BY <1>1, Inductive, PTL

\* The kernel's mask of a waiting service is the one its Events object says it
\* handed over.
THEOREM MasksInStep == Spec => []MaskInStep
<1>1. IInv => MaskInStep
  <2> SUFFICES ASSUME IInv, NEW s \in Svc, Suspended(s), epPtr[sock[s]] = s
               PROVE  epMask[sock[s]] = ev[s].events \/ ev[s] = EventsInit
    BY DEF MaskInStep
  <2>1. ev[s] \in EventsObj
    BY DEF IInv, TypeOK
  <2>2. \/ epMask[sock[s]] = ev[s].events
        \/ ev[s].events = {} /\ ev[s].chgs = {}
    BY DEF IInv, MaskAgrees, Suspended
  <2>3. QED BY <2>1, <2>2 DEF EventsObj, EventsInit
<1>2. QED BY <1>1, Inductive, PTL
-------------------------------------------------------------------------------
\* The list of one round is empty before that of the next is made.
Drained == phase \in {"setup", "wait"} => ready = {}

LEMMA DrainedStep ==
  ASSUME Drained, [Next]_vars
  PROVE  Drained'
BY DEF Drained, Next, Setup, RunLoop, Body, vars, kernelVars, runVars, objVars, AddListener,
       StartRun, Construct, Add, EpollWait, EpollIdle, Lapse, Expire, Dispatch, ExpireDone,
       DispatchDone, Spawn, Arm, Request, Switch, Yield, ExitDel, ExitClose, Terminate, Unhook

\* What Owed counts, before and after a step.
LEMMA OwedCounts ==
  /\ \A s \in Svc, x \in Timer :
       /\ tmr[s] # x /\ timerx[s] # x => Owed[s][x] = 0
       /\ tmr[s] = x /\ timerx[s] # x => Owed[s][x] = 1
       /\ tmr[s] # x /\ timerx[s] = x => Owed[s][x] = 1
       /\ tmr[s] = x /\ timerx[s] = x => Owed[s][x] = 2
  /\ \A s \in Svc, x \in Timer :
       /\ tmr'[s] # x /\ timerx'[s] # x => Owed'[s][x] = 0
       /\ tmr'[s] = x /\ timerx'[s] # x => Owed'[s][x] = 1
       /\ tmr'[s] # x /\ timerx'[s] = x => Owed'[s][x] = 1
       /\ tmr'[s] = x /\ timerx'[s] = x => Owed'[s][x] = 2
  /\ \A s \in Svc, x \in Timer : Owed[s][x] \in Nat /\ Owed'[s][x] \in Nat
  /\ Owed = [s \in Svc |-> [x \in Timer |-> Owed[s][x]]]
  /\ Owed' = [s \in Svc |-> [x \in Timer |-> Owed'[s][x]]]
BY DEF Owed

LEMMA NotATimer == NoTimer \notin Timer
BY SchedulerAssumption DEF NoTimer, Timer

\* To a new service no more is owed than it is armed for.
LEMMA ConstructPromised ==
  ASSUME IInv, NEW t \in Svc, NEW f \in Fd, NEW x \in Timer \cup {NoTimer}, Construct(t, f),
         tmr' = [tmr EXCEPT ![t] = x], \A s \in Svc : co[s] # "closed",
         UNCHANGED <<cpu, ready, timerx, thrown>>
  PROVE  Promise!Create(t, f, x)
<1>1. /\ co[t] = "free" /\ co' = [co EXCEPT ![t] = "new"] /\ sock' = [sock EXCEPT ![t] = f]
      /\ f \notin open
  BY DEF Construct
<1>2. tmr[t] = NoTimer /\ timerx[t] = NoTimer
  BY <1>1 DEF IInv, LiveRefs, Linked, Heap, MarkOnlyAtStart
<1>3. t \notin Heap /\ \A s \in Heap : sock[s] # f
  BY <1>1 DEF IInv, Owned, Heap
<1>4. Heap' = Heap \cup {t} /\ Begun' = Begun
  BY <1>1 DEF IInv, TypeOK, Heap, Begun
<1>5. Owed' = [Owed EXCEPT ![t] = Promise!Armed(x)]
  <2>1. tmr'[t] = x /\ timerx'[t] = NoTimer
    BY <1>2 DEF IInv, TypeOK
  <2>2. \A y \in Timer : Owed'[t][y] = IF y = x THEN 1 ELSE 0
    BY <2>1, OwedCounts, NotATimer
  <2>3. Owed'[t] = Promise!Armed(x)
    BY <2>2, OwedCounts DEF Promise!Armed
  <2>4. \A s \in Svc : s # t => Owed'[s] = Owed[s]
    BY DEF Owed, IInv, TypeOK
  <2>5. QED BY <2>3, <2>4 DEF Owed
<1>6. QED BY <1>1, <1>3, <1>4, <1>5 DEF Promise!Create

\* What a resumption throws was owed.
LEMMA ResumePromised ==
  ASSUME IInv, NEW s \in Svc, Expire(s) \/ Dispatch(s)
  PROVE  \E x \in Timer \cup {NoTimer} : Promise!Wake(s, x)
<1> USE DEF IInv, TypeOK
<1>1. /\ cpu = Main /\ cpu' = s /\ s \in Heap
      /\ UNCHANGED sock
  BY DEF Expire, Dispatch, Resume, LiveRefs, Linked, Heap, NoTimer, Timer
<1>2. co' = [co EXCEPT ![s] = IF @ = "new" THEN "entered" ELSE "active"]
  BY DEF Expire, Dispatch, Resume
<1>3. Heap' = Heap /\ Begun' = Begun \cup {s}
  BY <1>1, <1>2 DEF Heap, Begun
<1>4. s \in Begun <=> co[s] # "new"
  BY <1>1 DEF Heap, Begun
<1>5. s \notin Begun => timerx[s] = NoTimer
  BY <1>4 DEF MarkOnlyAtStart
<1>6. \A t \in Svc : t # s => Owed'[t] = Owed[t]
  BY DEF Expire, Dispatch, Resume, TakeTimeout, Owed
<1>7. \A t \in Svc, y \in Timer : Owed[t][y] \in Nat
  BY OwedCounts
<1>8. CASE Expire(s)
  <2>1. /\ tx \in Timer /\ tmr[s] = tx /\ tmr'[s] = NoTimer /\ UNCHANGED ready
    BY <1>8, NotATimer DEF Expire, LiveRefs, Linked
  <2>2. Owed[s][tx] > 0
    BY <2>1, <1>7, OwedCounts
  <2>3. CASE s \notin Begun
    <3>1. thrown' = NoTimer /\ timerx'[s] = tx
      BY <1>4, <1>8, <2>3 DEF Expire, Resume
    <3>2. \A y \in Timer : Owed'[s][y] = Owed[s][y]
      <4> SUFFICES ASSUME NEW y \in Timer PROVE Owed'[s][y] = Owed[s][y]
        OBVIOUS
      <4>1. tmr'[s] # y /\ timerx[s] # y
        BY <1>5, <2>1, <2>3, NotATimer
      <4>2. CASE y = tx
        <5>1. Owed'[s][y] = 1
          BY <3>1, <4>1, <4>2, OwedCounts
        <5>2. Owed[s][y] = 1
          BY <2>1, <4>1, <4>2, OwedCounts
        <5>3. QED BY <5>1, <5>2
      <4>3. CASE y # tx
        <5>1. Owed'[s][y] = 0
          BY <3>1, <4>1, <4>3, OwedCounts
        <5>2. Owed[s][y] = 0
          BY <2>1, <4>1, <4>3, OwedCounts
        <5>3. QED BY <5>1, <5>2
      <4>4. QED BY <4>2, <4>3
    <3>3. Promise!OwedAtMost(s, [y \in Timer |-> Owed[s][y] - Promise!Armed(NoTimer)[y]])
      BY <1>6, <1>7, <3>2, NotATimer DEF Promise!OwedAtMost, Promise!Armed
    <3>4. Promise!Wake(s, NoTimer)
      BY <1>1, <1>3, <2>1, <2>2, <2>3, <3>1, <3>3 DEF Promise!Wake
    <3>5. QED BY <3>4
  <2>4. CASE s \in Begun
    <3>1. thrown' = tx /\ timerx'[s] = NoTimer
      BY <1>4, <1>8, <2>4 DEF Expire, Resume, TakeTimeout
    <3>2. \A y \in Timer : Owed'[s][y] = 0
      <4>1. \A y \in Timer : tmr'[s] # y /\ timerx'[s] # y
        BY <2>1, <3>1, NotATimer
      <4>2. QED BY <4>1, OwedCounts
    <3>3. Promise!OwedAtMost(s, [y \in Timer |-> Owed[s][y] - Promise!Armed(tx)[y]])
      BY <1>6, <1>7, <2>1, <2>2, <3>2 DEF Promise!OwedAtMost, Promise!Armed
    <3>4. Promise!Wake(s, tx)
      BY <1>1, <1>3, <2>1, <2>2, <2>4, <3>1, <3>3, NotATimer DEF Promise!Wake
    <3>5. QED BY <2>1, <3>4
  <2>5. QED BY <2>3, <2>4
<1>9. CASE Dispatch(s)
  <2>1. s \in ready /\ ready' = ready \ {s} /\ tmr' = tmr
    BY <1>9 DEF Dispatch
  <2>2. CASE s \notin Begun
    <3>1. thrown' = NoTimer /\ timerx'[s] = timerx[s]
      BY <1>4, <1>9, <2>2 DEF Dispatch, Resume
    <3>2. \A y \in Timer : Owed'[s][y] = Owed[s][y]
      BY <2>1, <3>1 DEF Owed
    <3>3. Promise!OwedAtMost(s, [y \in Timer |-> Owed[s][y] - Promise!Armed(NoTimer)[y]])
      BY <1>6, <1>7, <3>2, NotATimer DEF Promise!OwedAtMost, Promise!Armed
    <3>4. Promise!Wake(s, NoTimer)
      BY <1>1, <1>3, <2>1, <2>2, <3>1, <3>3 DEF Promise!Wake
    <3>5. QED BY <3>4
  <2>3. CASE s \in Begun
    <3> DEFINE x == timerx[s]
    <3>1. x \in Timer \cup {NoTimer} /\ thrown' = x /\ timerx'[s] = NoTimer
      BY <1>4, <1>9, <2>3 DEF Dispatch, Resume, TakeTimeout
    <3>2. \A y \in Timer : Owed'[s][y] = Owed[s][y] - (IF y = x THEN 1 ELSE 0)
      <4> SUFFICES ASSUME NEW y \in Timer
                   PROVE  Owed'[s][y] = Owed[s][y] - (IF y = x THEN 1 ELSE 0)
        OBVIOUS
      <4>1. tmr'[s] = tmr[s] /\ timerx'[s] # y
        BY <2>1, <3>1, NotATimer
      <4>2. CASE tmr[s] = y
        <5>1. Owed'[s][y] = 1 /\ Owed[s][y] = IF y = x THEN 2 ELSE 1
          BY <4>1, <4>2, OwedCounts
        <5>2. QED BY <5>1
      <4>3. CASE tmr[s] # y
        <5>1. Owed'[s][y] = 0 /\ Owed[s][y] = IF y = x THEN 1 ELSE 0
          BY <4>1, <4>3, OwedCounts
        <5>2. QED BY <5>1
      <4>4. QED BY <4>2, <4>3
    <3>3. ASSUME x # NoTimer PROVE Owed[s][x] > 0
      <4>1. x \in Timer /\ timerx[s] = x
        BY <3>1, <3>3
      <4>2. Owed[s][x] = 1 \/ Owed[s][x] = 2
        BY <4>1, OwedCounts
      <4>3. QED BY <4>2
    <3> HIDE DEF x
    <3>4. Promise!OwedAtMost(s, [y \in Timer |-> Owed[s][y] - Promise!Armed(x)[y]])
      <4>1. \A y \in Timer : Owed'[s][y] \in Nat
        BY OwedCounts
      <4>2. QED BY <1>6, <1>7, <3>2, <4>1 DEF Promise!OwedAtMost, Promise!Armed
    <3>5. Promise!Wake(s, x)
      BY <1>1, <1>3, <2>1, <2>3, <3>1, <3>3, <3>4, NotATimer DEF Promise!Wake
    <3>6. QED BY <3>1, <3>5
  <2>4. QED BY <2>2, <2>3
<1>10. QED BY <1>8, <1>9

\* Every step of the scheduler and of its services is one that module Services allows.
LEMMA PromiseStep ==
  ASSUME IInv, Drained, [Next]_vars
  PROVE  [Promise!ServicesNext]_(Promise!servicesVars)
<1>1. ASSUME UNCHANGED <<cpu, ready, sock, tmr, timerx, thrown>>, Heap' = Heap, Begun' = Begun
      PROVE  UNCHANGED Promise!servicesVars
  BY <1>1 DEF Promise!servicesVars, Owed
<1>2. ASSUME UNCHANGED <<cpu, ready, sock, tmr, timerx, thrown, co>>
      PROVE  UNCHANGED Promise!servicesVars
  BY <1>1, <1>2 DEF Heap, Begun
<1>3. ASSUME NEW t \in Svc, NEW f \in Fd, NEW x \in Timer \cup {NoTimer}, Construct(t, f),
             tmr' = [tmr EXCEPT ![t] = x], \A s \in Svc : co[s] # "closed",
             UNCHANGED <<cpu, ready, timerx, thrown>>
      PROVE  Promise!ServicesNext
  BY <1>3, ConstructPromised DEF Promise!ServicesNext
<1>4. CASE Setup
  <2>1. ASSUME NEW t \in Svc, NEW f \in Fd, NEW mask \in SUBSET Flag, AddListener(t, f, mask)
        PROVE  Promise!ServicesNext
    <3>1. Construct(t, f) /\ UNCHANGED <<cpu, ready, timerx, tmr, thrown>> /\ co[t] = "free"
      BY <2>1 DEF AddListener, Construct, runVars
    <3>2. \A s \in Svc : co[s] # "closed"
      BY <2>1, SchedulerAssumption DEF AddListener, IInv, LiveRefs, LeavingRuns
    <3>3. tmr' = [tmr EXCEPT ![t] = NoTimer]
      BY <3>1 DEF IInv, TypeOK, LiveRefs, Linked, Heap
    <3>4. QED BY <1>3, <3>1, <3>2, <3>3
  <2>2. CASE StartRun
    BY <1>2, <2>2 DEF StartRun, objVars
  <2>3. QED BY <1>4, <2>1, <2>2 DEF Setup
<1>5. CASE RunLoop
  <2>1. ASSUME NEW F \in SUBSET Fd, NEW report \in [F -> SUBSET Flag], EpollWait(report)
        PROVE  Promise!Report(ready') /\ ready' \in SUBSET Svc
    <3>1. cpu = Main /\ ready = {} /\ UNCHANGED <<cpu, co, sock, tmr, timerx, thrown>>
      BY <2>1 DEF EpollWait, Drained
    <3>2. ready' # {} /\ ready' \subseteq Heap
      BY <2>1 DEF EpollWait, IInv, Owned
    <3>3. QED BY <3>1, <3>2 DEF Promise!Report, Heap, Begun, Owed
  <2>2. ASSUME NEW s \in Svc, Lapse(s) PROVE UNCHANGED Promise!servicesVars
    BY <1>2, <2>2 DEF Lapse, runVars
  <2>3. ASSUME NEW s \in Svc, Expire(s) \/ Dispatch(s) PROVE Promise!ServicesNext
    BY <2>3, ResumePromised DEF Promise!ServicesNext
  <2>4. CASE EpollIdle \/ ExpireDone \/ DispatchDone
    BY <1>2, <2>4 DEF EpollIdle, ExpireDone, DispatchDone, vars, objVars, runVars
  <2>5. QED BY <1>5, <2>1, <2>2, <2>3, <2>4 DEF RunLoop, Promise!ServicesNext
<1>6. ASSUME NEW s \in Svc, Body(s)
      PROVE  Promise!ServicesNext \/ UNCHANGED Promise!servicesVars
  <2>1. ASSUME NEW t \in Svc, NEW f \in Fd, NEW mask \in SUBSET Flag,
               NEW x \in Timer \cup {NoTimer}, Spawn(s, t, f, mask, x)
        PROVE  Promise!ServicesNext
    <3>1. /\ Construct(t, f) /\ tmr' = [tmr EXCEPT ![t] = x] /\ UNCHANGED <<cpu, ready>>
          /\ UNCHANGED <<timerx, thrown>>
      BY <2>1 DEF Spawn, SetTimer, runVars
    <3>2. \A u \in Svc : co[u] # "closed"
      BY <2>1 DEF Spawn, Runs, IInv, LeavingRuns
    <3>3. QED BY <1>3, <3>1, <3>2
  <2>2. ASSUME NEW x \in Timer, Arm(s, x) PROVE Promise!Arm(s, x)
    <3>1. /\ cpu = s /\ tmr' = [tmr EXCEPT ![s] = x]
          /\ UNCHANGED <<cpu, ready, co, sock, timerx, thrown>>
      BY <2>2 DEF Arm, Runs, SetTimer, runVars
    <3>2. \A t \in Svc : t # s => Owed'[t] = Owed[t]
      BY <3>1 DEF Owed
    <3>3. \A y \in Timer : Owed'[s][y] \in 0 .. Owed[s][y] + (IF y = x THEN 1 ELSE 0)
      <4>1. TAKE y \in Timer
      <4>2. tmr'[s] = x /\ timerx'[s] = timerx[s]
        BY <3>1 DEF IInv, TypeOK
      <4>3. QED BY <4>2 DEF Owed
    <3>4. QED BY <3>1, <3>2, <3>3 DEF Promise!Arm, Promise!OwedAtMost, Promise!Armed, Heap, Begun
  <2>3. CASE Yield(s)
    <3>1. cpu = s /\ cpu' = Main /\ thrown' = NoTimer /\ co[s] \in {"entered", "active"}
          /\ UNCHANGED <<ready, co, sock, tmr, timerx>>
      BY <2>3 DEF Yield, Runs
    <3>2. Promise!Wait(s)
      BY <3>1 DEF Promise!Wait, Heap, Begun, Owed
    <3>3. QED BY <3>2 DEF Promise!ServicesNext
  <2>4. CASE Terminate(s)
    <3>1. /\ cpu = s /\ cpu' = Main /\ thrown' = NoTimer /\ co[s] = "closed"
          /\ ready' = ready \ {s}
          /\ co' = [co EXCEPT ![s] = "free"] /\ sock' = [sock EXCEPT ![s] = NoFd]
          /\ tmr' = [tmr EXCEPT ![s] = NoTimer] /\ timerx' = [timerx EXCEPT ![s] = NoTimer]
      BY <2>4 DEF Terminate, Unhook
    <3>2. s \in Heap /\ Heap' = Heap \ {s} /\ Begun' = Begun \ {s}
      BY <3>1 DEF Heap, Begun, IInv, TypeOK
    <3>3. Owed' = [Owed EXCEPT ![s] = Promise!Armed(NoTimer)]
      <4>1. tmr'[s] = NoTimer /\ timerx'[s] = NoTimer
        BY <3>1 DEF IInv, TypeOK
      <4>2. \A y \in Timer : tmr'[s] # y /\ timerx'[s] # y
        BY <4>1, NotATimer
      <4>3. \A y \in Timer : Owed'[s][y] = IF y = NoTimer THEN 1 ELSE 0
        BY <4>2, OwedCounts, NotATimer
      <4>4. Owed'[s] = Promise!Armed(NoTimer)
        BY <4>3, OwedCounts DEF Promise!Armed
      <4>5. \A t \in Svc : t # s => Owed'[t] = Owed[t]
        BY <3>1 DEF Owed
      <4>6. QED BY <4>4, <4>5 DEF Owed
    <3>4. Promise!Leave(s)
      BY <3>1, <3>2, <3>3 DEF Promise!Leave
    <3>5. QED BY <3>4 DEF Promise!ServicesNext
  <2>5. CASE \/ \E f \in SUBSET Flag : Request(s, f)
             \/ \E off, on \in SUBSET Flag : Switch(s, off, on)
    BY <1>2, <2>5 DEF Request, Switch, runVars
  <2>6. CASE ExitDel(s) \/ ExitClose(s)
    <3>1. UNCHANGED <<cpu, ready, sock, tmr, timerx, thrown>>
      BY <2>6 DEF ExitDel, ExitClose, runVars
    <3>2. Heap' = Heap /\ Begun' = Begun
      BY <2>6 DEF ExitDel, ExitClose, Runs, Heap, Begun, IInv, TypeOK
    <3>3. QED BY <1>1, <3>1, <3>2
  <2>7. QED BY <1>6, <2>1, <2>2, <2>3, <2>4, <2>5, <2>6 DEF Body, Promise!ServicesNext
<1>7. CASE UNCHANGED vars
  BY <1>2, <1>7 DEF vars, runVars, objVars
<1>8. QED BY <1>4, <1>5, <1>6, <1>7 DEF Next

LEMMA PromiseInit == Init => Promise!ServicesInit
<1> SUFFICES ASSUME Init PROVE Promise!ServicesInit
  OBVIOUS
<1>1. Heap = {} /\ Begun = {}
  BY DEF Init, Heap, Begun
<1>2. Owed = [s \in Svc |-> Promise!Armed(NoTimer)]
  BY NotATimer DEF Init, Owed, Promise!Armed
<1>3. QED BY <1>1, <1>2 DEF Init, Promise!ServicesInit

\* With all its lists, hooks and marks the scheduler is what module Services promises the
\* functions of services: of these the important ones are that no Timeout reaches a service
\* that was armed for another at the same address, and that none comes twice.
THEOREM SchedulerImplementsServices == Spec => ImplementsServices
<1>1. Init => Drained
  BY DEF Init, Drained
<1>2. Drained /\ [Next]_vars => Drained'
  BY DrainedStep
<1>3. IInv /\ Drained /\ [Next]_vars => [Promise!ServicesNext]_(Promise!servicesVars)
  BY PromiseStep
<1>4. QED
  BY <1>1, <1>2, <1>3, PromiseInit, Inductive, PTL
  DEF Spec, ImplementsServices, Promise!ServicesSpec
===============================================================================
