----------------------------- MODULE ServerProofs -----------------------------
(***************************************************************************)
(* The server uses the scheduler as any service may, so what               *)
(* SchedulerProofs shows of every use holds of the server.                 *)
(***************************************************************************)
EXTENDS Server, SchedulerProofs, SequenceTheorems, WellFoundedInduction

\* A system call that blocks, and the yield for it.
Waits(s) == ReadWaits(s) \/ WriteWaits(s) \/ AcceptFails(s) \/ Yields(s)

\* A step of a coroutine is a step Scheduler allows a running service, or one
\* the scheduler does not see.
LEMMA CoroutineImplements ==
  ASSUME NEW s \in Svc, Coroutine(s)
  PROVE  Body(s) \/ UNCHANGED vars
<1> USE ServerAssumption DEF ReadEv, ListenEv, FirstTimer, OutputTimer
<1>0. cpu = s
  BY DEF Coroutine
<1>1. CASE Enter(s)
  BY <1>0, <1>1, FlagAssumption DEF Enter, Body
<1>2. CASE Waits(s)
  BY <1>0, <1>2 DEF Waits, ReadWaits, WriteWaits, AcceptFails, Blocks, Yields, Body
<1>3. CASE \/ ReadData(s) \/ ReadEnds(s) \/ WriteData(s) \/ WriteFails(s)
           \/ WriteKills(s) \/ CatchTimeout(s)
  BY <1>3 DEF ReadData, ReadEnds, WriteData, WriteFails, WriteKills, CatchTimeout
<1>4. CASE Respond(s) \/ EndResponse(s)
  <2>1. {"IN"} \in SUBSET Flag /\ {"OUT"} \in SUBSET Flag
    OBVIOUS
  <2>2. QED BY <1>0, <1>4, <2>1 DEF Respond, EndResponse, Body
<1>5. CASE ArmOutput(s)
  <2>1. 0 \in Timer
    BY SchedulerAssumption DEF Timer
  <2>2. QED BY <1>0, <1>5, <2>1 DEF ArmOutput, Body
<1>6. CASE Leave(s) \/ Hangup(s) \/ Delete(s)
  BY <1>0, <1>6 DEF Leave, Hangup, Delete, Body
<1>7. ASSUME NEW t \in Svc, NEW f \in Fd, Accept(s, t, f)
      PROVE  Body(s)
  <2>1. 0 \in Timer
    BY SchedulerAssumption DEF Timer
  <2>2. ReadEv \in SUBSET Flag
    BY FlagAssumption
  <2>3. QED BY <1>0, <1>7, <2>1, <2>2 DEF Accept, Body
<1>8. QED BY <1>1, <1>2, <1>3, <1>4, <1>5, <1>6, <1>7 DEF Coroutine, Waits

\* epoll_wait reports, of registered descriptors, events that Scheduler allows.
LEMMA WaitImplements ==
  ASSUME Wait
  PROVE  RunLoop
<1>1. Ready \in SUBSET Fd
  BY DEF Ready
<1>2. [f \in Ready |-> Events(f)] \in [Ready -> SUBSET Flag]
  <2>1. \A f \in Ready : Events(f) \in SUBSET Flag
    BY ServerAssumption, FlagAssumption DEF Events, Condition
  <2>2. QED BY <2>1
<1>3. phase = "wait" /\ cpu = Main
  BY DEF Wait, EpollWait
<1>4. QED BY <1>1, <1>2, <1>3 DEF Wait, RunLoop

\* Every behaviour of the server is one of the scheduler with services that
\* call its interface in some order.
THEOREM ServerImplementsScheduler == ServerSpec => ImplementsScheduler
<1>1. ServerInit => Init
  BY DEF ServerInit
<1>2. [ServerNext]_allVars => [Next]_vars
  <2> SUFFICES ASSUME ServerNext \/ UNCHANGED allVars PROVE Next \/ UNCHANGED vars
    OBVIOUS
  <2>1. CASE Thread
    <3>1. ASSUME NEW f \in Fd, AddListenPort(f) PROVE Next
      BY <3>1, ServerAssumption DEF AddListenPort, AddListener, ListenEv, Next, Setup
    <3>2. CASE StartRun \/ ExpireDone \/ DispatchDone
      BY <3>2 DEF Next, Setup, RunLoop, StartRun, ExpireDone, DispatchDone
    <3>3. ASSUME NEW s \in Svc, Expire(s) \/ Dispatch(s) PROVE Next
      BY <3>3 DEF Next, RunLoop, Expire, Dispatch
    <3>4. CASE Wait
      BY <3>4, WaitImplements DEF Next
    <3>5. ASSUME NEW s \in Svc, Coroutine(s) PROVE Next \/ UNCHANGED vars
      BY <3>5, CoroutineImplements DEF Next
    <3>6. QED BY <2>1, <3>1, <3>2, <3>3, <3>4, <3>5 DEF Thread, Loop
  <2>2. CASE Clock
    BY <2>2 DEF Clock, Next, RunLoop
  <2>3. CASE WaitTimesOut \/ Environment \/ UNCHANGED allVars
    BY <2>3 DEF WaitTimesOut, EpollIdle, Environment, Connect, Send, Finish, Reset,
                Drain, allVars
  <2>4. QED BY <2>1, <2>2, <2>3 DEF ServerNext
<1>3. QED BY <1>1, <1>2, PTL DEF ServerSpec, ImplementsScheduler, Spec

\* So no pointer the server holds dangles, no descriptor leaks, and a mark of
\* the timer is left over only on a connection that the timer started.
THEOREM ServerIsSafe ==
  ServerSpec => [](NoDangling /\ FdsOwned /\ LeftoverTimeoutOnlyAtStart /\ MaskInStep)
<1>1. Spec => [](NoDangling /\ FdsOwned /\ LeftoverTimeoutOnlyAtStart /\ MaskInStep)
  BY NoUseAfterFree, NoFdLeak, TimeoutsDelivered, MasksInStep, PTL
<1>2. QED BY <1>1, ServerImplementsScheduler, PTL DEF ImplementsScheduler

\* The coroutines of the server, the listener's and the connections', have what module
\* Services promises.
THEOREM ServerImplementsServices == ServerSpec => ImplementsServices
BY ServerImplementsScheduler, SchedulerImplementsServices, PTL DEF ImplementsScheduler

\* A step that moves only the running coroutine, and keeps it from "accept".
LEMMA MoveKeeps ==
  ASSUME ServerInv, IInv', BlockedInCall', NEW s \in Svc, Runs(s), NEW p \in Place \ {"accept"},
         at' = [at EXCEPT ![s] = p],
         UNCHANGED <<co, cpu, timerx, tmr, thrown>>,
         thrown # NoTimer => p = "exit",
         p \in Writing => tmr[s] = 0
  PROVE  ServerInv'
BY DEF ServerInv, ListenerUntimed, WaitsInTry, WriterArmed, NoUncaughtTimeout,
       NewAtStart, Runs, Suspended, IInv, TypeOK

\* A coroutine whose system call blocked does nothing before it yields.
LEMMA BlockedStep ==
  ASSUME ServerInv, [ServerNext]_allVars
  PROVE  BlockedInCall'
<1> USE DEF ServerInv, BlockedInCall
<1>1. CASE cpu = Main
  <2>1. ~blocked
    BY <1>1, SchedulerAssumption
  <2>2. ASSUME NEW f \in Fd, AddListenPort(f) PROVE UNCHANGED blocked
    BY <2>2 DEF AddListenPort
  <2>3. ASSUME NEW s \in Svc PROVE ~Coroutine(s)
    BY <1>1, SchedulerAssumption DEF Coroutine
  <2>4. UNCHANGED blocked
    BY <2>2, <2>3 DEF ServerNext, Thread, Loop, Wait, Clock, WaitTimesOut, Environment,
       Connect, Send, Finish, Reset, Drain, allVars
  <2>5. QED BY <2>1, <2>4
<1>2. ASSUME NEW s \in Svc, Coroutine(s) PROVE BlockedInCall'
  <2>1. CASE ReadWaits(s) \/ WriteWaits(s) \/ AcceptFails(s)
    BY <2>1 DEF ReadWaits, WriteWaits, AcceptFails, Blocks, In, Runs, Caught, vars, runVars,
                objVars, serverVars, bodyVars
  <2>2. CASE Yields(s)
    BY <2>2 DEF Yields
  <2>3. CASE ~(Waits(s))
    <3>1. ~blocked
      BY <1>2, <2>3 DEF Coroutine, Waits, In, Runs, Enter, ReadData, ReadEnds, Respond, ArmOutput,
         WriteData, WriteFails, WriteKills, EndResponse, CatchTimeout, Leave, Hangup,
         ExitDel, ExitClose, Delete, Terminate, Accept, Caught, Reading, Writing
    <3>2. UNCHANGED blocked
      BY <1>2, <2>3 DEF Coroutine, Waits, Enter, ReadData, ReadEnds, Respond, ArmOutput,
         WriteData, WriteFails, WriteKills, EndResponse, CatchTimeout, Leave, Hangup,
         Delete, Accept
    <3>3. QED BY <3>1, <3>2
  <2>4. QED BY <2>1, <2>2, <2>3 DEF Waits
<1>3. CASE Clock \/ WaitTimesOut \/ Environment \/ UNCHANGED allVars
  <2>1. UNCHANGED <<cpu, co, thrown, at, blocked>>
    BY <1>3 DEF Clock, Lapse, WaitTimesOut, EpollIdle, Environment, Connect, Send, Finish,
       Reset, Drain, allVars, vars, runVars, objVars, serverVars, bodyVars
  <2>2. QED BY <2>1 DEF Runs
<1>4. QED BY <1>1, <1>2, <1>3 DEF ServerNext, Thread, Loop

\* The steps of the server, one by one.
LEMMA ServerInvStep ==
  ASSUME ServerInv, IInv', BlockedInCall', [ServerNext]_allVars
  PROVE  ServerInv'
<1> USE DEF ServerInv, IInv, TypeOK, Stage, Runs, Suspended, Caught, Reading, Writing,
            AfterEof, FirstTimer, OutputTimer
<1>1. ASSUME NEW f \in Fd, AddListenPort(f) PROVE ServerInv'
  <2>1. /\ co[Listener] = "free" /\ cpu = Main
        /\ tmr[Listener] = NoTimer /\ timerx[Listener] = NoTimer
    BY <1>1, ServerAssumption
    DEF AddListenPort, AddListener, Construct, LiveRefs, Linked, Heap, MarkOnlyAtStart
  <2>2. /\ at' = [at EXCEPT ![Listener] = "accept"]
        /\ co' = [co EXCEPT ![Listener] = "new"]
        /\ UNCHANGED <<cpu, timerx, tmr, thrown>>
    BY <1>1 DEF AddListenPort, AddListener, Construct, runVars
  <2>3. QED
    BY <2>1, <2>2, ServerAssumption, SchedulerAssumption
    DEF ListenerUntimed, WaitsInTry, WriterArmed, NoUncaughtTimeout, NewAtStart, Place
<1>2. ASSUME NEW s \in Svc, Expire(s), UNCHANGED serverVars PROVE ServerInv'
  <2>1. /\ cpu = Main /\ cpu' = s /\ UNCHANGED at
        /\ tmr[s] = tx /\ tx # NoTimer
        /\ tmr' = [tmr EXCEPT ![s] = NoTimer]
    BY <1>2 DEF Expire, Resume, TakeTimeout, LiveRefs, Linked, serverVars, bodyVars
  <2>2. /\ co[s] = "new" => thrown' = NoTimer /\ co' = [co EXCEPT ![s] = "entered"]
        /\ co[s] # "new" => thrown' = tx /\ co' = [co EXCEPT ![s] = "active"]
        /\ \A t \in Svc : t # s => timerx'[t] = timerx[t]
    BY <1>2 DEF Expire, Resume, TakeTimeout
  <2>3. co[s] \in {"new", "entered", "active"}
    BY <2>1, SchedulerAssumption DEF LiveRefs, Linked, Heap, LeavingRuns
  <2>4. at[s] # "accept"
    BY <2>1 DEF ListenerUntimed
  <2>5. co[s] # "new" => at[s] \in Caught
    BY <2>1, <2>3, <2>4, SchedulerAssumption DEF WaitsInTry
  <2>6. co[s] = "new" => at[s] \notin Writing
    BY <2>1, <2>3, <2>4, SchedulerAssumption DEF NewAtStart
  <2>7. ListenerUntimed' /\ WaitsInTry'
    BY <2>1, <2>2, <2>4, SchedulerAssumption DEF ListenerUntimed, WaitsInTry
  <2>8. WriterArmed'
    BY <2>1, <2>2, <2>3, <2>6, SchedulerAssumption DEF WriterArmed
  <2>9. NoUncaughtTimeout' /\ NewAtStart'
    BY <2>1, <2>2, <2>3, <2>5, SchedulerAssumption
    DEF NoUncaughtTimeout, NewAtStart
  <2>10. QED BY <2>1, <2>7, <2>8, <2>9
<1>3. ASSUME NEW s \in Svc, Dispatch(s), UNCHANGED serverVars PROVE ServerInv'
  <2>1. /\ cpu = Main /\ cpu' = s /\ UNCHANGED <<at, tmr>>
        /\ co[s] \in {"new", "entered", "active"}
        /\ \A t \in Svc : timerx'[t] = timerx[t] \/ timerx'[t] = NoTimer
    BY <1>3, SchedulerAssumption
    DEF Dispatch, Resume, TakeTimeout, LiveRefs, Heap, LeavingRuns, serverVars, bodyVars
  <2>2. /\ co[s] = "new" => thrown' = NoTimer /\ co' = [co EXCEPT ![s] = "entered"]
        /\ co[s] # "new" => thrown' = timerx[s] /\ co' = [co EXCEPT ![s] = "active"]
    BY <1>3 DEF Dispatch, Resume, TakeTimeout
  <2>3. co[s] # "new" => at[s] \in Caught \/ (at[s] = "accept" /\ thrown' = NoTimer)
    BY <2>1, <2>2, SchedulerAssumption DEF WaitsInTry, ListenerUntimed
  <2>4. QED
    BY <2>1, <2>2, <2>3, SchedulerAssumption
    DEF ListenerUntimed, WaitsInTry, WriterArmed, NoUncaughtTimeout, NewAtStart
<1>4. CASE \/ \E s \in Svc : WriteKills(s)
           \/ (StartRun \/ ExpireDone \/ DispatchDone) /\ UNCHANGED serverVars
           \/ Wait \/ Clock \/ WaitTimesOut \/ Environment \/ UNCHANGED allVars
  <2>1. UNCHANGED <<at, co, cpu, timerx, tmr, thrown>>
    <3>1. CASE (StartRun \/ ExpireDone \/ DispatchDone) /\ UNCHANGED serverVars
      BY <3>1 DEF StartRun, ExpireDone, DispatchDone, objVars, serverVars, bodyVars
    <3>2. CASE Wait
      BY <3>2 DEF Wait, EpollWait, serverVars, bodyVars
    <3>3. CASE Clock
      BY <3>3 DEF Clock, Lapse, runVars, serverVars, bodyVars
    <3>4. CASE WaitTimesOut \/ Environment \/ UNCHANGED allVars
      BY <3>4 DEF WaitTimesOut, EpollIdle, Environment, Connect, Send, Finish, Reset,
                  Drain, allVars, vars, runVars, objVars, serverVars, bodyVars
    <3>5. ASSUME NEW s \in Svc, WriteKills(s)
          PROVE  UNCHANGED <<at, co, cpu, timerx, tmr, thrown>>
      BY <3>5 DEF WriteKills, vars, runVars, objVars, bodyVars
    <3>6. QED BY <1>4, <3>1, <3>2, <3>3, <3>4, <3>5
  <2>2. QED
    BY <2>1 DEF ListenerUntimed, WaitsInTry, WriterArmed, NoUncaughtTimeout, NewAtStart
<1>5. ASSUME NEW s \in Svc, Waits(s)
      PROVE  ServerInv'
  <2>1. /\ cpu = s /\ cpu' \in {s, Main}
        /\ thrown = NoTimer /\ thrown' = NoTimer
        /\ at[s] \in Caught \cup {"accept"}
        /\ UNCHANGED <<at, co, timerx, tmr>>
    BY <1>5 DEF Waits, ReadWaits, WriteWaits, AcceptFails, Blocks, Yields, In, Yield,
                BlockedInCall, serverVars, bodyVars, vars, runVars, objVars
  <2>2. QED
    BY <2>1, SchedulerAssumption
    DEF ListenerUntimed, WaitsInTry, WriterArmed, NoUncaughtTimeout, NewAtStart
<1>6. ASSUME NEW s \in Svc,
             \/ Enter(s) \/ ReadData(s) \/ ReadEnds(s) \/ Respond(s) \/ EndResponse(s)
             \/ WriteData(s) \/ WriteFails(s) \/ CatchTimeout(s)
      PROVE  ServerInv'
  <2>1. /\ cpu = s /\ co[s] \in {"entered", "active"} /\ at[s] # "accept"
        /\ UNCHANGED <<co, cpu, timerx, tmr, thrown>>
    BY <1>6 DEF Enter, ReadData, ReadEnds, Respond, EndResponse, WriteData, WriteFails,
       CatchTimeout, In, Request, Switch, vars, runVars, objVars
  <2>2. PICK p : at' = [at EXCEPT ![s] = p]
    <3>1. at' = [at EXCEPT ![s] = at'[s]]
      BY <1>6 DEF Enter, ReadData, ReadEnds, Respond, EndResponse, WriteData, WriteFails,
         CatchTimeout, Written
    <3>2. QED BY <3>1
  <2>3. p \in Place \ {"accept"}
    <3>1. CASE \/ Enter(s) \/ ReadEnds(s) \/ Respond(s) \/ EndResponse(s) \/ CatchTimeout(s)
      BY <2>1, <2>2, <3>1 DEF Enter, ReadEnds, Respond, EndResponse, CatchTimeout, In, Place
    <3>2. CASE ReadData(s)
      BY <2>1, <2>2, <3>2 DEF ReadData, ReadTo, Place
    <3>3. CASE WriteData(s) \/ WriteFails(s)
      BY <2>1, <2>2, <3>3 DEF WriteData, WriteFails, Written, In, Place
    <3>4. QED BY <1>6, <3>1, <3>2, <3>3
  <2>4. thrown # NoTimer => p = "exit"
    BY <1>6, <2>2 DEF Enter, ReadData, ReadEnds, Respond, EndResponse, WriteData,
       WriteFails, CatchTimeout, In
  <2>5. p \in Writing => tmr[s] = 0
    <3>1. CASE \/ Enter(s) \/ ReadEnds(s) \/ Respond(s) \/ EndResponse(s) \/ CatchTimeout(s)
      BY <2>1, <2>2, <3>1 DEF Enter, ReadEnds, Respond, EndResponse, CatchTimeout, In
    <3>2. CASE ReadData(s)
      BY <2>1, <2>2, <3>2 DEF ReadData, ReadTo
    <3>3. CASE WriteData(s) \/ WriteFails(s)
      BY <2>1, <2>2, <3>3 DEF WriteData, WriteFails, In, WriterArmed
    <3>4. QED BY <1>6, <3>1, <3>2, <3>3
  <2>6. QED BY <2>1, <2>2, <2>3, <2>4, <2>5, MoveKeeps
<1>7. ASSUME NEW s \in Svc, ArmOutput(s) PROVE ServerInv'
  <2>1. /\ cpu = s /\ co[s] \in {"entered", "active"} /\ thrown = NoTimer
        /\ at[s] = "arm" /\ at' = [at EXCEPT ![s] = "rhdr"]
        /\ tmr' = [tmr EXCEPT ![s] = 0]
        /\ UNCHANGED <<co, cpu, timerx, thrown>>
    BY <1>7 DEF ArmOutput, In, Arm, SetTimer, runVars
  <2>2. QED
    BY <2>1 DEF ListenerUntimed, WaitsInTry, WriterArmed, NoUncaughtTimeout, NewAtStart, Place
<1>8. ASSUME NEW s \in Svc, Leave(s) \/ Hangup(s) PROVE ServerInv'
  <2>1. /\ cpu = s /\ co'[s] \in {"exiting", "closed"}
        /\ \A t \in Svc : t # s => co'[t] = co[t]
        /\ UNCHANGED <<at, cpu, timerx, tmr, thrown>>
    BY <1>8 DEF Leave, Hangup, ExitDel, ExitClose, Close, runVars, serverVars, bodyVars
  <2>2. QED
    BY <2>1 DEF ListenerUntimed, WaitsInTry, WriterArmed, NoUncaughtTimeout, NewAtStart
<1>9. ASSUME NEW s \in Svc, Delete(s) PROVE ServerInv'
  <2>1. /\ cpu = s /\ cpu' = Main /\ thrown' = NoTimer
        /\ at' = [at EXCEPT ![s] = "none"]
        /\ co' = [co EXCEPT ![s] = "free"]
        /\ tmr' = [tmr EXCEPT ![s] = NoTimer]
        /\ timerx' = [timerx EXCEPT ![s] = NoTimer]
    BY <1>9 DEF Delete, Terminate, Unhook
  <2>2. QED
    BY <2>1 DEF ListenerUntimed, WaitsInTry, WriterArmed, NoUncaughtTimeout, NewAtStart, Place
<1>10. ASSUME NEW s \in Svc, NEW t \in Svc, NEW f \in Fd, Accept(s, t, f)
       PROVE  ServerInv'
  <2>1. /\ cpu = s /\ thrown = NoTimer
        /\ co[t] = "free" /\ t # s
        /\ at' = [at EXCEPT ![t] = "entry"]
        /\ co' = [co EXCEPT ![t] = "new"]
        /\ tmr' = [tmr EXCEPT ![t] = 0]
        /\ UNCHANGED <<cpu, timerx, thrown>>
    BY <1>10 DEF Accept, In, Spawn, Construct, SetTimer, runVars
  <2>2. QED
    BY <2>1 DEF ListenerUntimed, WaitsInTry, WriterArmed, NoUncaughtTimeout, NewAtStart, Place
<1>11. QED
  BY <1>1, <1>2, <1>3, <1>4, <1>5, <1>6, <1>7, <1>8, <1>9, <1>10
  DEF ServerNext, Thread, Loop, Coroutine, Waits

\* The server's invariant holds in every reachable state.
LEMMA ServerInductive == ServerSpec => []ServerInv
<1>1. ServerInit => ServerInv
  <2> SUFFICES ASSUME ServerInit PROVE ServerInv
    OBVIOUS
  <2>1. IInv
    BY InitInv DEF ServerInit
  <2>2. QED
    BY <2>1 DEF ServerInit, Init, ServerInv, BlockedInCall, ListenerUntimed, WaitsInTry, WriterArmed,
                NoUncaughtTimeout, NewAtStart, Place, Writing, Runs, Suspended
<1>2. IInv /\ IInv' /\ ServerInv /\ [ServerNext]_allVars => ServerInv'
  BY BlockedStep, ServerInvStep
<1>3. ServerSpec => []IInv
  BY ServerImplementsScheduler, Inductive, PTL DEF ImplementsScheduler
<1>4. QED BY <1>1, <1>2, <1>3, PTL DEF ServerSpec

\* No Timeout leaves a coroutine's function.
THEOREM TimeoutsCaught == ServerSpec => []NoUncaughtTimeout
BY ServerInductive, PTL DEF ServerInv

\* A response that is held up has the output timer running.
THEOREM WritersAreTimed == ServerSpec => []WriterTimed
<1>1. ServerInv => WriterTimed
  BY DEF ServerInv, WriterArmed, WriterTimed, Suspended
<1>2. QED BY <1>1, ServerInductive, PTL

\* The descriptor of a connection's coroutine is a client's until it is closed.
Connected ==
  \A s \in Svc : co[s] \notin {"free", "closed"} /\ at[s] # "accept" =>
    conn[sock[s]] \in Client

ServerTypeInv == ServerTypeOK /\ Connected

LEMMA TokenParts ==
  ASSUME NEW q \in Seq(Token), NEW n \in 1 .. Len(q)
  PROVE  SubSeq(q, 1, n) \in Seq(Token) /\ SubSeq(q, n + 1, Len(q)) \in Seq(Token)
<1>1. Len(q) \in Nat
  BY LenProperties
<1>2. \A i \in 1 .. Len(q) : q[i] \in Token
  BY ElementOfSeq
<1>3. \A i \in 1 .. n : q[i] \in Token
  BY <1>1, <1>2
<1>4. \A i \in n + 1 .. Len(q) : q[i] \in Token
  BY <1>1, <1>2
<1>5. QED BY <1>1, <1>3, <1>4, SubSeqProperties

\* What is appended to a header leaves its end where it is.
LEMMA ReadToTyped ==
  ASSUME NEW s, NEW b
  PROVE  ReadTo(s, b) \in Reading \cup {"resp"} /\ (ReadTo(s, b) \in Parsed => HasEnd(b))
<1>1. CASE ~HasEnd(b)
  BY <1>1 DEF ReadTo, Reading, Parsed, Writing
<1>2. CASE HasEnd(b) /\ ChunkedNow(s, b)
  BY <1>2 DEF ReadTo, Reading
<1>3. CASE HasEnd(b) /\ ~ChunkedNow(s, b)
  BY <1>3 DEF ReadTo, Reading
<1>4. QED BY <1>1, <1>2, <1>3

LEMMA BlockedTyped ==
  ASSUME blocked \in BOOLEAN, [ServerNext]_allVars
  PROVE  blocked' \in BOOLEAN
BY DEF ServerNext, Thread, Loop, Coroutine, ReadWaits, WriteWaits, AcceptFails, Blocks,
       Yields, Enter, ReadData, ReadEnds, Respond, ArmOutput, WriteData, WriteFails, WriteKills,
       EndResponse, CatchTimeout, Leave, Hangup, Delete, Accept, AddListenPort, Wait, Clock,
       WaitTimesOut, Environment, Connect, Send, Finish, Reset, Drain, allVars

LEMMA ServerTypeStep ==
  ASSUME ServerInv, ServerInv', ServerTypeInv, blocked' \in BOOLEAN, [ServerNext]_allVars
  PROVE  ServerTypeInv'
<1> USE DEF ServerTypeInv, ServerTypeOK, Connected
<1>1. at' \in [Svc -> Place] /\ IInv
  BY DEF ServerInv
<1>2. ASSUME UNCHANGED <<serverVars, sock>>,
             \A t \in Svc : co'[t] \notin {"free", "closed"} => co[t] \notin {"free", "closed"}
      PROVE  ServerTypeInv'
  BY <1>2 DEF serverVars, bodyVars, clientVars
<1>3. CASE \/ (StartRun \/ ExpireDone \/ DispatchDone) /\ UNCHANGED serverVars
           \/ Wait \/ Clock \/ WaitTimesOut \/ UNCHANGED allVars
  <2>1. UNCHANGED <<serverVars, sock, co>>
    BY <1>3 DEF StartRun, ExpireDone, DispatchDone, objVars, Wait, EpollWait, Clock, Lapse,
                WaitTimesOut, EpollIdle, allVars, vars
  <2>2. QED BY <1>2, <2>1
<1>4. ASSUME NEW s \in Svc,
             \/ (Expire(s) \/ Dispatch(s)) /\ UNCHANGED serverVars
             \/ Waits(s) \/ Leave(s)
      PROVE  ServerTypeInv'
  <2>1. UNCHANGED <<serverVars, sock>>
    BY <1>4 DEF Expire, Dispatch, Waits, ReadWaits, WriteWaits, AcceptFails, Blocks,
                Yields, Leave, ExitDel, Yield, vars, objVars
  <2>2. co[s] \notin {"free", "closed"} /\ \A t \in Svc \ {s} : co'[t] = co[t]
    <3>1. CASE Expire(s) \/ Dispatch(s)
      BY <1>1, <3>1, SchedulerAssumption
      DEF Expire, Dispatch, Resume, IInv, TypeOK, LiveRefs, Linked, Heap, LeavingRuns
    <3>2. CASE Waits(s) \/ Leave(s)
      BY <1>1, <3>2 DEF Waits, ReadWaits, WriteWaits, AcceptFails, Blocks, Yields, Leave,
          ExitDel, Yield, vars, objVars, In, Runs, IInv, TypeOK
    <3>3. QED BY <1>4, <3>1, <3>2
  <2>3. QED BY <1>2, <2>1, <2>2
<1>5. ASSUME NEW f \in Fd, AddListenPort(f) PROVE ServerTypeInv'
  <2>1. /\ UNCHANGED <<hbuf, chunked, short, clientVars, conn, killed>>
        /\ at' = [at EXCEPT ![Listener] = "accept"]
        /\ \A t \in Svc : t # Listener => co'[t] = "free"
    BY <1>1, <1>5 DEF AddListenPort, AddListener, Construct, Heap, IInv, TypeOK
  <2>2. QED BY <1>1, <2>1 DEF clientVars, Parsed, Writing
<1>6. ASSUME NEW c \in Client,
             \/ Connect(c) \/ Finish(c) \/ Reset(c) \/ Drain(c)
             \/ \E n \in DOMAIN todo[c] : Send(c, n)
      PROVE  ServerTypeInv'
  <2>1. UNCHANGED <<vars, bodyVars, conn, killed>>
    BY <1>6 DEF Connect, Finish, Reset, Drain, Send
  <2>2. UNCHANGED <<co, sock, at, hbuf, chunked, short>>
    BY <2>1 DEF vars, objVars, bodyVars
  <2>3. peer' \in [Client -> Peer] /\ txfull' \in [Client -> BOOLEAN]
    BY <1>6 DEF Connect, Finish, Reset, Drain, Send, Peer
  <2>4. backlog' \in Seq(Client)
    <3>1. Append(backlog, c) \in Seq(Client)
      BY AppendProperties
    <3>2. backlog' = Append(backlog, c) \/ backlog' = backlog
      BY <1>6 DEF Connect, Finish, Reset, Drain, Send
    <3>3. QED BY <3>1, <3>2
  <2>5. rx' \in [Client -> Seq(Token)] /\ todo' \in [Client -> Seq(Token)]
    <3>1. CASE Connect(c)
      <4>1. PICK script \in Scripts[c] : todo' = [todo EXCEPT ![c] = script]
        BY <3>1 DEF Connect
      <4>2. script \in Seq(Token) /\ rx' = rx
        BY <3>1, <4>1, ServerAssumption DEF Connect
      <4>3. QED BY <4>1, <4>2
    <3>2. CASE Finish(c) \/ Reset(c) \/ Drain(c)
      <4>1. <<>> \in Seq(Token)
        OBVIOUS
      <4>2. QED BY <3>2, <4>1 DEF Finish, Reset, Drain
    <3>3. ASSUME NEW n \in DOMAIN todo[c], Send(c, n)
          PROVE  rx' \in [Client -> Seq(Token)] /\ todo' \in [Client -> Seq(Token)]
      <4>1. todo[c] \in Seq(Token) /\ n \in 1 .. Len(todo[c])
        BY LenProperties
      <4>2. SubSeq(todo[c], 1, n) \in Seq(Token) /\ SubSeq(todo[c], n + 1, Len(todo[c])) \in Seq(Token)
        BY <4>1, TokenParts
      <4>3. rx[c] \o SubSeq(todo[c], 1, n) \in Seq(Token)
        BY <4>2, ConcatProperties
      <4>4. QED BY <3>3, <4>2, <4>3 DEF Send
    <3>4. QED BY <1>6, <3>1, <3>2, <3>3
  <2>6. QED BY <2>1, <2>2, <2>3, <2>4, <2>5
<1>7. ASSUME NEW s \in Svc, ReadData(s) PROVE ServerTypeInv'
  <2> DEFINE c == Sock(s)
  <2>1. c \in Client
    BY <1>7 DEF ReadData, In, Runs, Reading, Sock
  <2>2. PICK n \in 1 .. Len(rx[c]) :
          /\ hbuf' = [hbuf EXCEPT ![s] = hbuf[s] \o SubSeq(rx[c], 1, n)]
          /\ rx' = [rx EXCEPT ![c] = SubSeq(@, n + 1, Len(@))]
          /\ chunked' = [chunked EXCEPT ![s] = ChunkedNow(s, hbuf[s] \o SubSeq(rx[c], 1, n))]
          /\ at' = [at EXCEPT ![s] = ReadTo(s, hbuf[s] \o SubSeq(rx[c], 1, n))]
    BY <1>7 DEF ReadData
  <2>3. UNCHANGED <<co, sock, short, peer, txfull, todo, backlog, conn, killed>>
    BY <1>7 DEF ReadData, vars, objVars
  <2> DEFINE b == hbuf[s] \o SubSeq(rx[c], 1, n)
  <2>4. SubSeq(rx[c], 1, n) \in Seq(Token) /\ SubSeq(rx[c], n + 1, Len(rx[c])) \in Seq(Token)
    BY <2>1, TokenParts
  <2>5. b \in Seq(Token)
    BY <2>4, ConcatProperties
  <2>6. ChunkedNow(s, b) \in BOOLEAN
    BY DEF ChunkedNow
  <2>7. hbuf' \in [Svc -> Seq(Token)] /\ rx' \in [Client -> Seq(Token)] /\ chunked' \in [Svc -> BOOLEAN]
    BY <2>1, <2>2, <2>4, <2>5, <2>6
  <2>8. at[s] # "accept"
    BY <1>7 DEF ReadData, In, Reading
  <2>9. \A t \in Svc : at'[t] \in Parsed => HasEnd(hbuf'[t])
    BY <2>2, ReadToTyped
  <2>10. Connected'
    BY <2>2, <2>3, <2>8
  <2>11. QED BY <1>1, <2>3, <2>7, <2>9, <2>10
<1>8. ASSUME NEW s \in Svc,
             \/ Enter(s) \/ Respond(s) \/ ArmOutput(s) \/ CatchTimeout(s) \/ WriteKills(s)
             \/ ReadEnds(s) \/ WriteData(s) \/ WriteFails(s)
      PROVE  ServerTypeInv'
  <2>1. /\ UNCHANGED <<hbuf, chunked, rx, todo, backlog, conn>> /\ killed' \in BOOLEAN
        /\ short' \in [Svc -> BOOLEAN] /\ txfull' \in [Client -> BOOLEAN]
        /\ peer' \in [Client -> Peer]
    <3>1. CASE \/ Enter(s) \/ Respond(s) \/ ArmOutput(s) \/ CatchTimeout(s) \/ WriteKills(s)
      BY <3>1 DEF Enter, Respond, ArmOutput, CatchTimeout, WriteKills, bodyVars, clientVars
    <3>2. CASE ReadEnds(s)
      BY <3>2 DEF ReadEnds, Peer
    <3>3. CASE WriteFails(s)
      BY <3>3 DEF WriteFails, Peer
    <3>4. CASE WriteData(s)
      <4>1. PICK full \in {FALSE, (Sock(s) \in TxFills)} : txfull' = [txfull EXCEPT ![Sock(s)] = full]
        BY <3>4 DEF WriteData
      <4>2. txfull' \in [Client -> BOOLEAN]
        <5>1. CASE full = FALSE
          BY <4>1, <5>1
        <5>2. CASE full = (Sock(s) \in TxFills)
          <6>1. full \in BOOLEAN
            BY <5>2
          <6>2. QED BY <4>1, <6>1
        <5>3. QED BY <5>1, <5>2
      <4>3. short' = [short EXCEPT ![s] = TRUE] \/ short' = short
        BY <3>4 DEF WriteData
      <4>4. short' \in [Svc -> BOOLEAN]
        BY <4>3
      <4>5. QED BY <3>4, <4>2, <4>4 DEF WriteData
    <3>5. QED BY <1>8, <3>1, <3>2, <3>3, <3>4
  <2>2. UNCHANGED <<co, sock>>
    BY <1>8 DEF Enter, Respond, ArmOutput, CatchTimeout, WriteKills, ReadEnds, WriteData,
                WriteFails, Request, Switch, Arm, vars, objVars
  <2>3. /\ at[s] # "accept" /\ \A t \in Svc \ {s} : at'[t] = at[t]
        /\ at'[s] \in Parsed => at[s] \in Parsed
    BY <1>8 DEF Enter, Respond, ArmOutput, CatchTimeout, WriteKills, ReadEnds, WriteData,
                WriteFails, bodyVars, In, Reading, Writing, Written, AfterEof, Caught, Parsed
  <2>4. QED BY <1>1, <2>1, <2>2, <2>3
<1>9. ASSUME NEW s \in Svc, EndResponse(s) PROVE ServerTypeInv'
  <2>1. /\ UNCHANGED <<co, sock, chunked, short, clientVars, conn, killed>>
        /\ at[s] = "after" /\ at'[s] \in {"hdr", "exit"}
        /\ \A t \in Svc \ {s} : at'[t] = at[t]
        /\ hbuf' = [hbuf EXCEPT ![s] = <<>>]
    BY <1>1, <1>9 DEF EndResponse, Switch, In
  <2>2. <<>> \in Seq(Token)
    OBVIOUS
  <2>3. QED BY <1>1, <2>1, <2>2 DEF clientVars, Parsed, Writing
<1>10. ASSUME NEW s \in Svc, Hangup(s) PROVE ServerTypeInv'
  <2>1. /\ co[s] = "exiting" /\ co' = [co EXCEPT ![s] = "closed"]
        /\ conn' = [conn EXCEPT ![sock[s]] = NoClient]
        /\ UNCHANGED <<sock, bodyVars, backlog, killed>>
    BY <1>10 DEF Hangup, ExitClose
  <2>2. \A t \in Svc : t # s /\ co[t] # "free" => sock[t] # sock[s]
    BY <1>1, <2>1 DEF IInv, FdsOwned, Heap
  <2>3. Connected'
    BY <1>1, <2>1, <2>2 DEF bodyVars, IInv, TypeOK
  <2>4. <<>> \in Seq(Token)
    OBVIOUS
  <2>5. /\ rx' \in [Client -> Seq(Token)] /\ todo' \in [Client -> Seq(Token)]
        /\ peer' \in [Client -> Peer] /\ txfull' \in [Client -> BOOLEAN]
    BY <1>10, <2>4 DEF Hangup, Peer
  <2>6. conn' \in [Fd -> Client \cup {NoClient}]
    BY <2>1
  <2>7. QED BY <2>1, <2>3, <2>5, <2>6 DEF bodyVars
<1>11. ASSUME NEW s \in Svc, Delete(s) PROVE ServerTypeInv'
  <2>1. /\ co' = [co EXCEPT ![s] = "free"] /\ at' = [at EXCEPT ![s] = "none"]
        /\ sock' = [sock EXCEPT ![s] = NoFd]
        /\ hbuf' = [hbuf EXCEPT ![s] = <<>>]
        /\ chunked' = [chunked EXCEPT ![s] = FALSE] /\ short' = [short EXCEPT ![s] = FALSE]
        /\ UNCHANGED <<clientVars, conn, killed>>
    BY <1>11 DEF Delete, Terminate
  <2>2. <<>> \in Seq(Token)
    OBVIOUS
  <2>3. Connected'
    BY <1>1, <2>1 DEF IInv, TypeOK
  <2>4. QED BY <1>1, <2>1, <2>2, <2>3 DEF clientVars, Parsed, Writing
<1>12. ASSUME NEW s \in Svc, NEW t \in Svc, NEW f \in Fd, Accept(s, t, f)
       PROVE  ServerTypeInv'
  <2>1. /\ co[t] = "free" /\ f \notin open /\ backlog # <<>>
        /\ co' = [co EXCEPT ![t] = "new"] /\ sock' = [sock EXCEPT ![t] = f]
        /\ at' = [at EXCEPT ![t] = "entry"]
        /\ conn' = [conn EXCEPT ![f] = Head(backlog)] /\ backlog' = Tail(backlog)
        /\ UNCHANGED <<hbuf, chunked, short, peer, rx, txfull, todo, killed>>
    BY <1>12 DEF Accept, Spawn, Construct
  <2>2. Head(backlog) \in Client /\ backlog' \in Seq(Client)
    BY <2>1, HeadTailProperties
  <2>3. \A u \in Svc : co[u] \notin {"free", "closed"} => sock[u] # f
    BY <1>1, <2>1 DEF IInv, Owned, Heap
  <2>4. Connected'
    BY <1>1, <2>1, <2>2, <2>3 DEF IInv, TypeOK
  <2>5. QED BY <1>1, <2>1, <2>2, <2>4 DEF Parsed, Writing
<1>13. QED
  BY <1>3, <1>4, <1>5, <1>6, <1>7, <1>8, <1>9, <1>10, <1>11, <1>12
  DEF ServerNext, Thread, Loop, Coroutine, Waits, Environment

LEMMA ServerTypeInductive == ServerSpec => []ServerTypeInv
<1>1. ServerInit => ServerTypeInv
  <2>1. <<>> \in Seq(Token) /\ <<>> \in Seq(Client)
    OBVIOUS
  <2>2. QED
    <3> SUFFICES ASSUME ServerInit PROVE ServerTypeInv
      OBVIOUS
    <3>1. /\ at = [s \in Svc |-> "none"] /\ co = [s \in Svc |-> "free"]
          /\ hbuf = [s \in Svc |-> <<>>] /\ backlog = <<>>
          /\ rx = [c \in Client |-> <<>>] /\ todo = [c \in Client |-> <<>>]
          /\ chunked = [s \in Svc |-> FALSE] /\ short = [s \in Svc |-> FALSE]
          /\ peer = [c \in Client |-> "none"] /\ txfull = [c \in Client |-> FALSE]
          /\ conn = [f \in Fd |-> NoClient] /\ killed = FALSE /\ blocked = FALSE
      BY DEF ServerInit, Init
    <3>2. Connected
      BY <3>1 DEF Connected
    <3>3. \A s \in Svc : at[s] \notin Parsed
      BY <3>1 DEF Parsed, Writing
    <3>4. at \in [Svc -> Place] /\ peer \in [Client -> Peer]
      BY <3>1 DEF Place, Peer
    <3>5. chunked \in [Svc -> BOOLEAN] /\ short \in [Svc -> BOOLEAN] /\ txfull \in [Client -> BOOLEAN]
      BY <3>1
    <3>6. hbuf \in [Svc -> Seq(Token)] /\ rx \in [Client -> Seq(Token)] /\ todo \in [Client -> Seq(Token)]
      BY <2>1, <3>1
    <3>7. QED BY <2>1, <3>1, <3>2, <3>3, <3>4, <3>5, <3>6 DEF ServerTypeInv, ServerTypeOK
<1>2. ServerInv /\ ServerInv' /\ ServerTypeInv /\ [ServerNext]_allVars => ServerTypeInv'
  BY BlockedTyped, ServerTypeStep DEF ServerTypeInv, ServerTypeOK
<1>3. QED BY <1>1, <1>2, ServerInductive, PTL DEF ServerSpec

\* What the server keeps has its type, and it parses, answers or arms only when
\* the end of a header is in its buffer.
THEOREM ServerTypeCorrect == ServerSpec => []ServerTypeOK
<1>1. ServerTypeInv => ServerTypeOK
  BY DEF ServerTypeInv
<1>2. QED BY <1>1, ServerTypeInductive, PTL
-------------------------------------------------------------------------------
(***************************************************************************)
(* The server implements Connections: each client is in the backlog once   *)
(* or has one coroutine, and what that coroutine reads is the client's.    *)
(***************************************************************************)
Here == {c \in Client : peer[c] \notin {"none", "gone"}}

OnceWaiting == \A i, j \in 1 .. Len(backlog) : backlog[i] = backlog[j] => i = j
OnceServed == \A f, g \in Fd : conn[f] = conn[g] /\ conn[f] # NoClient => f = g
WaitingAreHere ==
  \A i \in 1 .. Len(backlog) : backlog[i] \in Here /\ \A f \in Fd : conn[f] # backlog[i]
ServedAreHere == \A f \in Fd : conn[f] # NoClient => conn[f] \in Here
PlacesFit ==
  \A s \in Svc : /\ co[s] \in {"exiting", "closed"} => at[s] = "exit"
                 /\ co[s] # "free" => at[s] # "none"
StartsEmpty == \A s \in Svc : co[s] \in {"free", "new"} => hbuf[s] = <<>>

ConnInv ==
  OnceWaiting /\ OnceServed /\ WaitingAreHere /\ ServedAreHere /\ PlacesFit /\ StartsEmpty

\* A client that comes was not here, and one that is accepted waits no more.
LEMMA BacklogStep ==
  ASSUME ServerTypeInv, ConnInv
  PROVE  /\ \A c \in Client \ Here, i \in 1 .. Len(backlog) : backlog[i] # c
         /\ \A c \in Client \ Here, f \in Fd : conn[f] # c
         /\ backlog # <<>> => /\ Head(backlog) = backlog[1] /\ 1 \in 1 .. Len(backlog)
                              /\ Tail(backlog) \in Seq(Client)
                              /\ Len(Tail(backlog)) = Len(backlog) - 1 /\ Len(backlog) \in Nat
                              /\ \A i \in 1 .. Len(Tail(backlog)) :
                                   Tail(backlog)[i] = backlog[i + 1]
<1>1. backlog \in Seq(Client)
  BY DEF ServerTypeInv, ServerTypeOK
<1>2. \A c \in Client \ Here, i \in 1 .. Len(backlog) : backlog[i] # c
  BY DEF ConnInv, WaitingAreHere
<1>3. \A c \in Client \ Here, f \in Fd : conn[f] # c
  BY ServerAssumption DEF ConnInv, ServedAreHere
<1>4. ASSUME backlog # <<>>
      PROVE  /\ Head(backlog) = backlog[1] /\ 1 \in 1 .. Len(backlog)
             /\ Tail(backlog) \in Seq(Client)
             /\ Len(Tail(backlog)) = Len(backlog) - 1 /\ Len(backlog) \in Nat
             /\ \A i \in 1 .. Len(Tail(backlog)) : Tail(backlog)[i] = backlog[i + 1]
  <2>1. Len(backlog) \in Nat /\ Len(backlog) # 0
    BY <1>1, <1>4, LenProperties, EmptySeq
  <2>2. /\ Tail(backlog) \in Seq(Client) /\ Len(Tail(backlog)) = Len(backlog) - 1
        /\ \A i \in 1 .. Len(Tail(backlog)) : Tail(backlog)[i] = backlog[i + 1]
    BY <1>1, <1>4, HeadTailProperties
  <2>3. Head(backlog) = backlog[1]
    BY <1>1, <1>4
  <2>4. QED BY <2>1, <2>2, <2>3
<1>5. QED BY <1>2, <1>3, <1>4

LEMMA ConnStep ==
  ASSUME ServerInv, ServerTypeInv, ConnInv, [ServerNext]_allVars
  PROVE  ConnInv'
<1>1. /\ IInv /\ co \in [Svc -> Stage] /\ sock \in [Svc -> Fd \cup {NoFd}]
      /\ at \in [Svc -> Place] /\ peer \in [Client -> Peer] /\ backlog \in Seq(Client)
      /\ conn \in [Fd -> Client \cup {NoClient}] /\ hbuf \in [Svc -> Seq(Token)]
  BY DEF ServerInv, ServerTypeInv, ServerTypeOK, IInv, TypeOK
<1>2. ASSUME UNCHANGED <<backlog, conn, hbuf>>, Here' = Here, PlacesFit',
             \A s \in Svc : co'[s] \in {"free", "new"} => co[s] \in {"free", "new"}
      PROVE  ConnInv'
  BY <1>2 DEF ConnInv, OnceWaiting, OnceServed, WaitingAreHere, ServedAreHere, StartsEmpty
<1>3. ASSUME UNCHANGED <<serverVars, co>> PROVE ConnInv'
  BY <1>3 DEF serverVars, bodyVars, clientVars, ConnInv, OnceWaiting, OnceServed,
              WaitingAreHere, ServedAreHere, PlacesFit, StartsEmpty, Here
<1>4. CASE \/ (StartRun \/ ExpireDone \/ DispatchDone) /\ UNCHANGED serverVars
           \/ Wait \/ Clock \/ WaitTimesOut \/ UNCHANGED allVars
  BY <1>3, <1>4 DEF StartRun, ExpireDone, DispatchDone, objVars, Wait, EpollWait, Clock, Lapse,
                    WaitTimesOut, EpollIdle, allVars, vars
<1>5. ASSUME NEW s \in Svc, Waits(s) PROVE ConnInv'
  BY <1>3, <1>5 DEF Waits, ReadWaits, WriteWaits, AcceptFails, Blocks, Yields, Yield, vars, objVars
<1>6. ASSUME NEW s \in Svc, (Expire(s) \/ Dispatch(s)) /\ UNCHANGED serverVars PROVE ConnInv'
  <2>1. co'[s] \in {"entered", "active"} /\ \A t \in Svc \ {s} : co'[t] = co[t]
    BY <1>1, <1>6 DEF Expire, Dispatch, Resume
  <2>0. co[s] # "free"
    BY <1>1, <1>6, SchedulerAssumption DEF Expire, Dispatch, IInv, LiveRefs, Linked, Heap, TypeOK
  <2>2. UNCHANGED <<backlog, conn, hbuf, at>> /\ Here' = Here
    BY <1>6 DEF serverVars, bodyVars, clientVars, Here
  <2>3. PlacesFit'
    BY <2>0, <2>1, <2>2 DEF ConnInv, PlacesFit
  <2>4. \A t \in Svc : co'[t] \in {"free", "new"} => co[t] \in {"free", "new"}
    BY <2>1
  <2>5. QED BY <1>2, <2>2, <2>3, <2>4
<1>7. ASSUME NEW s \in Svc, Leave(s) PROVE ConnInv'
  <2>1. /\ at[s] = "exit" /\ co' = [co EXCEPT ![s] = "exiting"] /\ UNCHANGED serverVars
    BY <1>7 DEF Leave, ExitDel
  <2>2. UNCHANGED <<backlog, conn, hbuf, at>> /\ Here' = Here
    BY <2>1 DEF serverVars, bodyVars, clientVars, Here
  <2>3. PlacesFit'
    BY <1>1, <2>1, <2>2 DEF ConnInv, PlacesFit
  <2>4. QED BY <1>1, <1>2, <2>1, <2>2, <2>3
<1>8. ASSUME NEW f \in Fd, AddListenPort(f) PROVE ConnInv'
  <2>1. /\ co[Listener] = "free" /\ co' = [co EXCEPT ![Listener] = "new"]
        /\ \A t \in Svc \ {Listener} : at'[t] = at[t]
        /\ UNCHANGED <<backlog, conn, hbuf, peer>>
    BY <1>1, <1>8, ServerAssumption
    DEF AddListenPort, AddListener, Construct, clientVars
  <2>2. Here' = Here /\ PlacesFit'
    <3>1. at'[Listener] = "accept" /\ co'[Listener] = "new"
      BY <1>1, <1>8, <2>1, ServerAssumption DEF AddListenPort
    <3>2. \A t \in Svc \ {Listener} : co'[t] = co[t]
      BY <1>1, <2>1
    <3>3. QED BY <2>1, <3>1, <3>2 DEF Here, ConnInv, PlacesFit
  <2>3. \A t \in Svc : co'[t] \in {"free", "new"} => co[t] \in {"free", "new"}
    BY <1>1, <2>1, ServerAssumption
  <2>4. QED BY <1>2, <2>1, <2>2, <2>3
<1>9. ASSUME NEW s \in Svc,
             \/ Enter(s) \/ Respond(s) \/ ArmOutput(s) \/ CatchTimeout(s) \/ WriteKills(s)
             \/ ReadEnds(s) \/ WriteData(s) \/ WriteFails(s)
      PROVE  ConnInv'
  <2>1. Here' = Here
    <3>1. CASE \/ Enter(s) \/ Respond(s) \/ ArmOutput(s) \/ CatchTimeout(s) \/ WriteKills(s)
               \/ WriteData(s)
      BY <3>1 DEF Enter, Respond, ArmOutput, CatchTimeout, WriteKills, WriteData, clientVars, Here
    <3>2. CASE ReadEnds(s) \/ WriteFails(s)
      BY <1>1, <3>2 DEF ReadEnds, WriteFails, Here
    <3>3. QED BY <1>9, <3>1, <3>2
  <2>2. /\ UNCHANGED <<backlog, conn, hbuf, co>> /\ Runs(s)
        /\ at'[s] # "none" /\ \A t \in Svc \ {s} : at'[t] = at[t]
    <3>1. CASE Enter(s) \/ Respond(s) \/ ArmOutput(s)
      BY <1>1, <3>1 DEF Enter, Respond, ArmOutput, Request, Switch, Arm, In, clientVars
    <3>2. CASE CatchTimeout(s) \/ WriteKills(s)
      BY <1>1, <3>2 DEF CatchTimeout, WriteKills, In, Writing, vars, objVars, bodyVars, clientVars
    <3>3. CASE ReadEnds(s) \/ WriteFails(s) \/ WriteData(s)
      BY <1>1, <3>3
      DEF ReadEnds, WriteFails, WriteData, Written, AfterEof, In, Writing, vars, objVars
    <3>4. QED BY <1>9, <3>1, <3>2, <3>3
  <2>3. PlacesFit'
    BY <2>2 DEF ConnInv, PlacesFit, Runs
  <2>4. QED BY <1>2, <2>1, <2>2, <2>3
<1>10. ASSUME NEW s \in Svc, ReadData(s) \/ EndResponse(s) PROVE ConnInv'
  <2>1. /\ UNCHANGED <<backlog, conn, peer, co>> /\ Runs(s)
        /\ \A t \in Svc \ {s} : at'[t] = at[t] /\ hbuf'[t] = hbuf[t]
    BY <1>1, <1>10 DEF ReadData, EndResponse, Switch, In, vars, objVars, clientVars
  <2>2. at'[s] # "none"
    <3>1. CASE EndResponse(s)
      BY <1>1, <3>1 DEF EndResponse
    <3>2. CASE ReadData(s)
      <4>1. \E x : at'[s] = ReadTo(s, x)
        BY <1>1, <3>2 DEF ReadData
      <4>2. QED BY <4>1, ReadToTyped DEF Reading
    <3>3. QED BY <1>10, <3>1, <3>2
  <2>3. PlacesFit' /\ StartsEmpty'
    BY <2>1, <2>2 DEF ConnInv, PlacesFit, StartsEmpty, Runs
  <2>4. QED
    BY <2>1, <2>3 DEF ConnInv, OnceWaiting, OnceServed, WaitingAreHere, ServedAreHere, Here
<1>11. ASSUME NEW s \in Svc, Hangup(s) PROVE ConnInv'
  <2> DEFINE c == Sock(s)
  <2>1. /\ co[s] = "exiting" /\ co' = [co EXCEPT ![s] = "closed"] /\ at[s] = "exit"
        /\ conn' = [conn EXCEPT ![sock[s]] = NoClient]
        /\ peer' = [peer EXCEPT ![c] = "gone"]
        /\ UNCHANGED <<sock, at, hbuf, backlog>>
    BY <1>11 DEF Hangup, ExitClose, bodyVars, ConnInv, PlacesFit
  <2>2. sock[s] \in Fd /\ c \in Client /\ conn[sock[s]] = c
    <3>1. c \in Client
      BY <2>1 DEF ServerTypeInv, Connected, Sock
    <3>2. sock[s] \in open
      BY <1>1, <2>1 DEF IInv, Owned, Heap
    <3>3. QED BY <1>1, <3>1, <3>2 DEF IInv, TypeOK, Sock
  <2>3. \A f \in Fd : conn'[f] # NoClient => conn'[f] = conn[f] /\ conn[f] # c
    BY <1>1, <2>1, <2>2, ServerAssumption DEF ConnInv, OnceServed
  <2>4. \A i \in 1 .. Len(backlog) : backlog[i] # c
    BY <2>2 DEF ConnInv, WaitingAreHere
  <2>5. Here' = Here \ {c}
    BY <1>1, <2>1, <2>2 DEF Here
  <2>6. OnceWaiting' /\ OnceServed'
    BY <2>1, <2>3 DEF ConnInv, OnceWaiting, OnceServed
  <2>7. WaitingAreHere' /\ ServedAreHere'
    <3>1. \A i \in 1 .. Len(backlog) : backlog[i] \in Client
      BY <1>1, ElementOfSeq
    <3>2. WaitingAreHere'
      BY <2>1, <2>3, <2>4, <2>5, <3>1, ServerAssumption DEF ConnInv, WaitingAreHere
    <3>3. QED BY <2>3, <2>5, <3>2 DEF ConnInv, ServedAreHere
  <2>8. PlacesFit' /\ StartsEmpty'
    BY <1>1, <2>1 DEF ConnInv, PlacesFit, StartsEmpty
  <2>9. QED BY <2>6, <2>7, <2>8 DEF ConnInv
<1>12. ASSUME NEW s \in Svc, Delete(s) PROVE ConnInv'
  <2>1. /\ co' = [co EXCEPT ![s] = "free"] /\ at' = [at EXCEPT ![s] = "none"]
        /\ hbuf' = [hbuf EXCEPT ![s] = <<>>]
        /\ UNCHANGED <<backlog, conn, peer>>
    BY <1>12 DEF Delete, Terminate, clientVars
  <2>2. PlacesFit' /\ StartsEmpty'
    BY <1>1, <2>1 DEF ConnInv, PlacesFit, StartsEmpty
  <2>3. QED
    BY <2>1, <2>2 DEF ConnInv, OnceWaiting, OnceServed, WaitingAreHere, ServedAreHere, Here
<1>13. ASSUME NEW s \in Svc, NEW t \in Svc, NEW f \in Fd, Accept(s, t, f) PROVE ConnInv'
  <2> DEFINE c == Head(backlog)
  <2>1. /\ co[t] = "free" /\ backlog # <<>>
        /\ co' = [co EXCEPT ![t] = "new"]
        /\ at' = [at EXCEPT ![t] = "entry"]
        /\ conn' = [conn EXCEPT ![f] = c] /\ backlog' = Tail(backlog)
        /\ UNCHANGED <<hbuf, peer>>
    BY <1>13 DEF Accept, Spawn, Construct
  <2>2. /\ c = backlog[1] /\ 1 \in 1 .. Len(backlog) /\ Len(backlog) \in Nat
        /\ Len(backlog') = Len(backlog) - 1
        /\ \A i \in 1 .. Len(backlog') : backlog'[i] = backlog[i + 1]
    BY <2>1, BacklogStep
  <2>3. c \in Here /\ Here' = Here /\ \A g \in Fd : conn[g] # c
    BY <2>1, <2>2 DEF ConnInv, WaitingAreHere, Here
  <2>4. \A i \in 1 .. Len(backlog') : i + 1 \in 1 .. Len(backlog) /\ backlog'[i] # c
    <3>1. \A i \in 1 .. Len(backlog') : i + 1 \in 1 .. Len(backlog) /\ i + 1 # 1
      BY <2>2
    <3>2. QED BY <2>2, <3>1 DEF ConnInv, OnceWaiting
  <2>5. OnceWaiting'
    <3> SUFFICES ASSUME NEW i \in 1 .. Len(backlog'), NEW j \in 1 .. Len(backlog'),
                        backlog'[i] = backlog'[j]
                 PROVE  i = j
      BY DEF OnceWaiting
    <3>1. backlog[i + 1] = backlog[j + 1]
      BY <2>2
    <3>2. i + 1 = j + 1
      BY <2>4, <3>1 DEF ConnInv, OnceWaiting
    <3>3. QED BY <2>2, <3>2
  <2>6. OnceServed' /\ ServedAreHere'
    BY <1>1, <2>1, <2>3 DEF ConnInv, OnceServed, ServedAreHere
  <2>7. WaitingAreHere'
    <3> SUFFICES ASSUME NEW i \in 1 .. Len(backlog')
                 PROVE  backlog'[i] \in Here' /\ \A g \in Fd : conn'[g] # backlog'[i]
      BY DEF WaitingAreHere
    <3>1. backlog'[i] \in Here /\ \A g \in Fd : conn[g] # backlog'[i]
      BY <2>2, <2>4 DEF ConnInv, WaitingAreHere
    <3>2. QED BY <1>1, <2>1, <2>3, <2>4, <3>1
  <2>8. PlacesFit' /\ StartsEmpty'
    BY <1>1, <2>1 DEF ConnInv, PlacesFit, StartsEmpty
  <2>9. QED BY <2>5, <2>6, <2>7, <2>8 DEF ConnInv
<1>14. ASSUME NEW c \in Client, Connect(c) PROVE ConnInv'
  <2>1. /\ peer[c] = "none" /\ peer' = [peer EXCEPT ![c] = "open"]
        /\ backlog' = Append(backlog, c) /\ UNCHANGED <<conn, co, at, hbuf>>
    BY <1>14 DEF Connect, vars, objVars, bodyVars
  <2>2. c \notin Here /\ Here' = Here \cup {c}
    BY <1>1, <2>1 DEF Here
  <2>3. /\ Len(backlog) \in Nat /\ Len(backlog') = Len(backlog) + 1
        /\ \A i \in 1 .. Len(backlog) : backlog'[i] = backlog[i]
        /\ backlog'[Len(backlog) + 1] = c
    BY <1>1, <2>1, AppendProperties, LenProperties
  <2>4. \A i \in 1 .. Len(backlog') : i \in 1 .. Len(backlog) \/ i = Len(backlog) + 1
    BY <2>3
  <2>5. /\ \A i \in 1 .. Len(backlog) : backlog[i] # c
        /\ \A f \in Fd : conn[f] # c
    BY <2>2, BacklogStep
  <2>6. OnceWaiting'
    BY <2>3, <2>4, <2>5 DEF ConnInv, OnceWaiting
  <2>7. WaitingAreHere'
    BY <2>1, <2>2, <2>3, <2>4, <2>5 DEF ConnInv, WaitingAreHere
  <2>8. OnceServed' /\ ServedAreHere' /\ PlacesFit' /\ StartsEmpty'
    BY <2>1, <2>2 DEF ConnInv, OnceServed, ServedAreHere, PlacesFit, StartsEmpty
  <2>9. QED BY <2>6, <2>7, <2>8 DEF ConnInv
<1>15. ASSUME NEW c \in Client,
              Finish(c) \/ Reset(c) \/ Drain(c) \/ \E n \in DOMAIN todo[c] : Send(c, n)
       PROVE  ConnInv'
  <2>1. UNCHANGED <<backlog, conn, hbuf, co, at>>
    BY <1>15 DEF Finish, Reset, Drain, Send, vars, objVars, bodyVars
  <2>2. Here' = Here
    BY <1>1, <1>15 DEF Finish, Reset, Drain, Send, Here
  <2>3. QED BY <1>2, <2>1, <2>2 DEF ConnInv, PlacesFit
<1>16. QED
  BY <1>4, <1>5, <1>6, <1>7, <1>8, <1>9, <1>10, <1>11, <1>12, <1>13, <1>14, <1>15
  DEF ServerNext, Thread, Loop, Coroutine, Waits, Environment

LEMMA ConnInductive == ServerSpec => [](ServerInv /\ ServerTypeInv /\ ConnInv)
<1>1. ServerInit => ConnInv
  <2> SUFFICES ASSUME ServerInit PROVE ConnInv
    OBVIOUS
  <2>1. /\ backlog = <<>> /\ conn = [f \in Fd |-> NoClient]
        /\ co = [s \in Svc |-> "free"] /\ hbuf = [s \in Svc |-> <<>>]
    BY DEF ServerInit, Init
  <2>2. Len(backlog) = 0
    BY <2>1
  <2>3. QED
    BY <2>1, <2>2 DEF ConnInv, OnceWaiting, OnceServed, WaitingAreHere, ServedAreHere,
                      PlacesFit, StartsEmpty
<1>2. ServerInv /\ ServerTypeInv /\ ConnInv /\ [ServerNext]_allVars => ConnInv'
  BY ConnStep
<1>3. QED BY <1>1, <1>2, ServerInductive, ServerTypeInductive, PTL DEF ServerSpec

\* What the mapping to Connections gives for a client, served or not.
Mapped ==
  \A c \in Client :
    /\ \A s \in Svc : Serves(s, c) =>
         c \in Here /\ ExchangeStage[c] = DoesAt(at[s]) /\ RequestRead[c] = hbuf[s]
    /\ (\A s \in Svc : ~Serves(s, c)) =>
         /\ RequestRead[c] = <<>>
         /\ peer[c] = "none" => ExchangeStage[c] = "none"
         /\ peer[c] = "gone" => ExchangeStage[c] = "over"
         /\ c \in Here => ExchangeStage[c] = "waiting"

LEMMA MappingHolds == ServerInv /\ ServerTypeInv /\ ConnInv => Mapped
<1> SUFFICES ASSUME ServerInv, ServerTypeInv, ConnInv, NEW c \in Client
             PROVE  /\ \A s \in Svc : Serves(s, c) =>
                         c \in Here /\ ExchangeStage[c] = DoesAt(at[s]) /\ RequestRead[c] = hbuf[s]
                    /\ (\A s \in Svc : ~Serves(s, c)) =>
                         /\ RequestRead[c] = <<>>
                         /\ peer[c] = "none" => ExchangeStage[c] = "none"
                         /\ peer[c] = "gone" => ExchangeStage[c] = "over"
                         /\ c \in Here => ExchangeStage[c] = "waiting"
  BY DEF Mapped
<1>1. ASSUME NEW s \in Svc, Serves(s, c)
      PROVE  c \in Here /\ ExchangeStage[c] = DoesAt(at[s]) /\ RequestRead[c] = hbuf[s]
  <2>1. sock[s] \in Fd /\ conn[sock[s]] = c /\ s \in Heap
    BY <1>1 DEF Serves, ServerInv, IInv, Owned, TypeOK, Heap
  <2>2. c \in Here
    BY <2>1, ServerAssumption DEF ConnInv, ServedAreHere
  <2>3. ASSUME NEW t \in Svc, Serves(t, c) PROVE t = s
    <3>1. sock[t] \in Fd /\ conn[sock[t]] = c /\ t \in Heap
      BY <2>3 DEF Serves, ServerInv, IInv, Owned, TypeOK, Heap
    <3>2. sock[t] = sock[s]
      BY <2>1, <3>1, ServerAssumption DEF ConnInv, OnceServed
    <3>3. QED BY <2>1, <3>1, <3>2 DEF ServerInv, IInv, FdsOwned
  <2>4. ServerOf(c) = s
    BY <1>1, <2>3 DEF ServerOf
  <2>5. peer[c] # "none" /\ peer[c] # "gone"
    BY <2>2 DEF Here
  <2>6. ExchangeStage[c] = DoesAt(at[s])
    BY <1>1, <2>4, <2>5 DEF ExchangeStage
  <2>7. RequestRead[c] = hbuf[s]
    BY <1>1, <2>4 DEF RequestRead
  <2>8. QED BY <2>2, <2>6, <2>7
<1>2. ASSUME \A s \in Svc : ~Serves(s, c)
      PROVE  /\ RequestRead[c] = <<>>
             /\ peer[c] = "none" => ExchangeStage[c] = "none"
             /\ peer[c] = "gone" => ExchangeStage[c] = "over"
             /\ c \in Here => ExchangeStage[c] = "waiting"
  BY <1>2 DEF RequestRead, ExchangeStage, Here
<1>3. QED BY <1>1, <1>2

LEMMA MappingInductive == ServerSpec => []Mapped
BY ConnInductive, MappingHolds, PTL

\* The mapped functions, point by point.
LEMMA MovesPointwise ==
  ASSUME NEW c \in Client, NEW p, ExchangeStage'[c] = p,
         \A d \in Client \ {c} : ExchangeStage'[d] = ExchangeStage[d]
  PROVE  Exchange!MovesTo(c, p)
<1>1. /\ ExchangeStage = [d \in Client |-> ExchangeStage[d]]
      /\ ExchangeStage' = [d \in Client |-> ExchangeStage'[d]]
  BY DEF ExchangeStage
<1>2. QED BY <1>1 DEF Exchange!MovesTo

LEMMA RequestPointwise ==
  ASSUME NEW c \in Client, NEW b, RequestRead'[c] = b,
         \A d \in Client \ {c} : RequestRead'[d] = RequestRead[d]
  PROVE  RequestRead' = [RequestRead EXCEPT ![c] = b]
<1>1. /\ RequestRead = [d \in Client |-> RequestRead[d]]
      /\ RequestRead' = [d \in Client |-> RequestRead'[d]]
  BY DEF RequestRead
<1>2. QED BY <1>1

LEMMA SamePointwise ==
  ASSUME \A c \in Client : ExchangeStage'[c] = ExchangeStage[c] /\ RequestRead'[c] = RequestRead[c]
  PROVE  UNCHANGED <<ExchangeStage, RequestRead>>
<1>1. /\ ExchangeStage = [d \in Client |-> ExchangeStage[d]]
      /\ ExchangeStage' = [d \in Client |-> ExchangeStage'[d]]
      /\ RequestRead = [d \in Client |-> RequestRead[d]]
      /\ RequestRead' = [d \in Client |-> RequestRead'[d]]
  BY DEF ExchangeStage, RequestRead
<1>2. QED BY <1>1

\* A client whose coroutine does what it did, and has what it had.
LEMMA StaysMapped ==
  ASSUME Mapped, Mapped', NEW c \in Client,
         \A s \in Svc : Serves(s, c)' <=> Serves(s, c),
         \A s \in Svc : Serves(s, c) => DoesAt(at[s])' = DoesAt(at[s]) /\ hbuf'[s] = hbuf[s],
         peer[c] \in Peer, peer'[c] = "none" <=> peer[c] = "none",
         peer'[c] = "gone" <=> peer[c] = "gone"
  PROVE  ExchangeStage'[c] = ExchangeStage[c] /\ RequestRead'[c] = RequestRead[c]
<1>1. CASE \E s \in Svc : Serves(s, c)
  BY <1>1 DEF Mapped
<1>2. CASE \A s \in Svc : ~Serves(s, c)
  <2>1. RequestRead'[c] = RequestRead[c]
    BY <1>2 DEF Mapped
  <2>2. CASE peer[c] = "none"
    BY <1>2, <2>1, <2>2 DEF Mapped
  <2>3. CASE peer[c] = "gone"
    BY <1>2, <2>1, <2>3 DEF Mapped
  <2>4. CASE peer[c] # "none" /\ peer[c] # "gone"
    <3>1. c \in Here /\ c \in Here'
      BY <2>4 DEF Here
    <3>2. QED BY <1>2, <2>1, <3>1 DEF Mapped
  <2>5. QED BY <2>2, <2>3, <2>4
<1>3. QED BY <1>1, <1>2

\* A step in which the clients, the buffers and the places stay.
LEMMA QuietStep ==
  ASSUME ServerTypeInv, Mapped, Mapped', UNCHANGED <<serverVars, sock>>,
         \A s \in Svc : co'[s] \in {"free", "closed"} <=> co[s] \in {"free", "closed"}
  PROVE  UNCHANGED Exchange!connectionsVars
<1>1. UNCHANGED <<at, hbuf, peer, backlog, rx, conn>>
  BY DEF serverVars, bodyVars, clientVars
<1>2. \A c \in Client : peer[c] \in Peer
  BY DEF ServerTypeInv, ServerTypeOK
<1>3. \A c \in Client : ExchangeStage'[c] = ExchangeStage[c] /\ RequestRead'[c] = RequestRead[c]
  <2> SUFFICES ASSUME NEW c \in Client
               PROVE  ExchangeStage'[c] = ExchangeStage[c] /\ RequestRead'[c] = RequestRead[c]
    OBVIOUS
  <2>1. \A s \in Svc : Serves(s, c)' <=> Serves(s, c)
    BY <1>1 DEF Serves
  <2>2. \A s \in Svc : DoesAt(at[s])' = DoesAt(at[s]) /\ hbuf'[s] = hbuf[s]
    BY <1>1 DEF DoesAt
  <2>3. QED BY <1>1, <1>2, <2>1, <2>2, StaysMapped
<1>4. UNCHANGED <<ExchangeStage, RequestRead>>
  BY <1>3, SamePointwise
<1>5. UNCHANGED ClientEnded
  BY <1>1 DEF ClientEnded
<1>6. QED BY <1>1, <1>4, <1>5 DEF Exchange!connectionsVars

\* A step of the coroutine of one client: the others are served as they were.
LEMMA OneCoroutine ==
  ASSUME ServerTypeInv, ServerTypeInv', ConnInv, Mapped, Mapped', NEW s \in Svc, Runs(s),
         at[s] # "accept", at'[s] # "accept", UNCHANGED <<co, sock, conn>>,
         \A t \in Svc \ {s} : at'[t] = at[t] /\ hbuf'[t] = hbuf[t],
         \A d \in Client : peer'[d] = peer[d] \/ (peer[d] = "rst" /\ peer'[d] = "dead")
  PROVE  /\ Sock(s) \in Client
         /\ ExchangeStage[Sock(s)] = DoesAt(at[s]) /\ ExchangeStage'[Sock(s)] = DoesAt(at[s])'
         /\ RequestRead[Sock(s)] = hbuf[s] /\ RequestRead'[Sock(s)] = hbuf'[s]
         /\ \A d \in Client \ {Sock(s)} :
              ExchangeStage'[d] = ExchangeStage[d] /\ RequestRead'[d] = RequestRead[d]
         /\ UNCHANGED ClientEnded
<1>1. PICK c \in Client : c = Sock(s)
  BY DEF ServerTypeInv, Connected, Sock, Runs
<1>2. Serves(s, c) /\ Serves(s, c)'
  BY <1>1 DEF Serves, Runs, Sock
<1>3. /\ ExchangeStage[c] = DoesAt(at[s]) /\ RequestRead[c] = hbuf[s]
  BY <1>1, <1>2 DEF Mapped
<1>4. /\ ExchangeStage'[c] = DoesAt(at[s])' /\ RequestRead'[c] = hbuf'[s]
  BY <1>1, <1>2 DEF Mapped
<1>5. ASSUME NEW d \in Client \ {c}
      PROVE  ExchangeStage'[d] = ExchangeStage[d] /\ RequestRead'[d] = RequestRead[d]
  <2>1. \A t \in Svc : Serves(t, d)' <=> Serves(t, d)
    <3>1. ~Serves(s, d) /\ ~Serves(s, d)'
      BY <1>1 DEF Serves, Sock
    <3>2. \A t \in Svc \ {s} : Serves(t, d)' <=> Serves(t, d)
      BY DEF Serves
    <3>3. QED BY <3>1, <3>2
  <2>2. \A t \in Svc : Serves(t, d) => DoesAt(at[t])' = DoesAt(at[t]) /\ hbuf'[t] = hbuf[t]
    BY <1>1 DEF Serves, Sock, DoesAt
  <2>3. /\ peer[d] \in Peer /\ (peer'[d] = "none" <=> peer[d] = "none")
        /\ (peer'[d] = "gone" <=> peer[d] = "gone")
    BY DEF ServerTypeInv, ServerTypeOK
  <2>4. QED BY <2>1, <2>2, <2>3, StaysMapped
<1>6. UNCHANGED ClientEnded
  BY DEF ClientEnded
<1>7. QED BY <1>1, <1>3, <1>4, <1>5, <1>6

\* read_header, read_body and read_chunked end with a whole request.
LEMMA ReadToWhole ==
  ASSUME NEW s, NEW b \in Seq(Token)
  PROVE  /\ DoesAt(ReadTo(s, b)) \in {"reading", "answering"}
         /\ DoesAt(ReadTo(s, b)) = "answering" => b \in WholeRequest
<1>1. CASE ~HasEnd(b)
  BY <1>1 DEF ReadTo, Reading, Writing, DoesAt
<1>2. CASE HasEnd(b) /\ ChunkedNow(s, b)
  BY <1>2 DEF ReadTo, Reading, Writing, DoesAt, WholeRequest, HeadedRequest
<1>3. CASE HasEnd(b) /\ ~ChunkedNow(s, b)
  <2>1. ~Header(b).chunked
    BY <1>3 DEF ChunkedNow
  <2>2. QED BY <1>3, <2>1 DEF ReadTo, Reading, Writing, DoesAt, WholeRequest, HeadedRequest
<1>4. QED BY <1>1, <1>2, <1>3

\* The steps of a connection's coroutine.
LEMMA CoroutineServes ==
  ASSUME ServerInv, ServerTypeInv, ServerTypeInv', ConnInv, Mapped, Mapped', NEW s \in Svc,
         \/ Enter(s) \/ Respond(s) \/ ArmOutput(s) \/ CatchTimeout(s) \/ WriteKills(s)
         \/ ReadEnds(s) \/ WriteData(s) \/ WriteFails(s) \/ ReadData(s) \/ EndResponse(s)
  PROVE  Exchange!ConnectionsNext \/ UNCHANGED Exchange!connectionsVars
<1>1. /\ co \in [Svc -> Stage] /\ at \in [Svc -> Place] /\ peer \in [Client -> Peer]
      /\ hbuf \in [Svc -> Seq(Token)] /\ rx \in [Client -> Seq(Token)]
      /\ \A t \in Svc : at[t] \in Parsed => HasEnd(hbuf[t])
  BY DEF ServerInv, ServerTypeInv, ServerTypeOK, IInv, TypeOK
<1>2. /\ Runs(s) /\ at[s] # "accept" /\ at'[s] # "accept" /\ UNCHANGED <<co, sock, conn, backlog>>
      /\ \A t \in Svc \ {s} : at'[t] = at[t] /\ hbuf'[t] = hbuf[t]
      /\ \A d \in Client : peer'[d] = peer[d] \/ (peer[d] = "rst" /\ peer'[d] = "dead")
  <2>1. CASE Enter(s) \/ Respond(s) \/ ArmOutput(s) \/ EndResponse(s)
    BY <1>1, <2>1 DEF Enter, Respond, ArmOutput, EndResponse, Request, Switch, Arm, In, clientVars
  <2>2. CASE CatchTimeout(s) \/ WriteKills(s)
    BY <1>1, <2>2 DEF CatchTimeout, WriteKills, In, Caught, Reading, Writing,
                      vars, objVars, bodyVars, clientVars
  <2>3. CASE ReadEnds(s) \/ WriteFails(s) \/ WriteData(s)
    BY <1>1, <2>3 DEF ReadEnds, WriteFails, WriteData, Written, In, AfterEof, Reading, Writing,
                      vars, objVars
  <2>4. CASE ReadData(s)
    <3>1. PICK n \in 1 .. Len(rx[Sock(s)]) :
            /\ hbuf' = [hbuf EXCEPT ![s] = hbuf[s] \o SubSeq(rx[Sock(s)], 1, n)]
            /\ at' = [at EXCEPT ![s] = ReadTo(s, hbuf[s] \o SubSeq(rx[Sock(s)], 1, n))]
      BY <2>4 DEF ReadData
    <3>2. at'[s] \in Reading \cup {"resp"}
      BY <1>1, <3>1, ReadToTyped
    <3>3. QED BY <1>1, <2>4, <3>1, <3>2 DEF ReadData, In, Reading, vars, objVars
  <2>5. QED BY <2>1, <2>2, <2>3, <2>4
<1>3. PICK c \in Client :
        /\ c = Sock(s)
        /\ ExchangeStage[c] = DoesAt(at[s]) /\ ExchangeStage'[c] = DoesAt(at[s])'
        /\ RequestRead[c] = hbuf[s] /\ RequestRead'[c] = hbuf'[s]
        /\ \A d \in Client \ {c} :
             ExchangeStage'[d] = ExchangeStage[d] /\ RequestRead'[d] = RequestRead[d]
        /\ UNCHANGED ClientEnded
  BY <1>2, OneCoroutine
<1>4. ASSUME hbuf' = hbuf PROVE UNCHANGED RequestRead
  BY <1>3, <1>4, RequestPointwise DEF RequestRead
<1>5. CASE \/ Enter(s) \/ Respond(s) \/ ArmOutput(s) \/ WriteKills(s)
           \/ WriteData(s) \/ WriteFails(s)
  <2>1. UNCHANGED <<hbuf, rx>> /\ DoesAt(at[s])' = DoesAt(at[s])
    <3>1. CASE Enter(s) \/ Respond(s) \/ ArmOutput(s)
      BY <1>1, <3>1 DEF Enter, Respond, ArmOutput, In, clientVars, DoesAt, Reading, Writing
    <3>2. CASE WriteKills(s)
      BY <3>2 DEF WriteKills, bodyVars, clientVars, DoesAt
    <3>3. CASE WriteData(s) \/ WriteFails(s)
      BY <1>1, <3>3 DEF WriteData, WriteFails, Written, In, DoesAt, Reading, Writing
    <3>4. QED BY <1>5, <3>1, <3>2, <3>3
  <2>2. UNCHANGED <<ExchangeStage, RequestRead>>
    BY <1>3, <2>1, SamePointwise
  <2>3. QED BY <1>2, <1>3, <2>1, <2>2 DEF Exchange!connectionsVars
<1>6. CASE CatchTimeout(s)
  <2>1. UNCHANGED <<hbuf, rx>> /\ DoesAt(at[s]) \in {"reading", "answering"}
        /\ DoesAt(at[s])' = "closing"
    BY <1>1, <1>6 DEF CatchTimeout, Caught, clientVars, DoesAt, Reading, Writing
  <2>2. Exchange!MovesTo(c, "closing") /\ UNCHANGED RequestRead
    BY <1>3, <1>4, <2>1, MovesPointwise
  <2>3. Exchange!GivesUp(c)
    BY <1>2, <1>3, <2>1, <2>2 DEF Exchange!GivesUp
  <2>4. QED BY <2>3 DEF Exchange!ConnectionsNext
<1>7. CASE ReadEnds(s)
  <2>1. /\ UNCHANGED <<hbuf, rx>> /\ DoesAt(at[s]) = "reading" /\ at[s] \in Reading
        /\ rx[c] = <<>> /\ peer[c] \in {"fin", "rst", "dead"} /\ at'[s] = AfterEof(at[s])
    <3>1. /\ UNCHANGED <<hbuf, rx>> /\ at[s] \in Reading
          /\ rx[c] = <<>> /\ peer[c] \in {"fin", "rst", "dead"} /\ at'[s] = AfterEof(at[s])
      BY <1>1, <1>3, <1>7 DEF ReadEnds, In
    <3>2. DoesAt(at[s]) = "reading"
      BY <3>1 DEF DoesAt, Reading, Writing
    <3>3. QED BY <3>1, <3>2
  <2>2. CASE at[s] = "hdr"
    <3>1. DoesAt(at[s])' = "closing"
      BY <2>1, <2>2 DEF AfterEof, DoesAt, Reading, Writing
    <3>2. Exchange!MovesTo(c, "closing") /\ UNCHANGED RequestRead
      BY <1>3, <1>4, <2>1, <3>1, MovesPointwise
    <3>3. Exchange!GivesUp(c)
      BY <1>2, <1>3, <2>1, <3>2 DEF Exchange!GivesUp
    <3>4. QED BY <3>3 DEF Exchange!ConnectionsNext
  <2>3. CASE at[s] # "hdr"
    <3>1. DoesAt(at[s])' = "answering"
      BY <2>1, <2>3 DEF AfterEof, DoesAt, Reading, Writing
    <3>2. Exchange!MovesTo(c, "answering") /\ UNCHANGED RequestRead
      BY <1>3, <1>4, <2>1, <3>1, MovesPointwise
    <3>3. RequestRead[c] \in HeadedRequest /\ ClientEnded[c]
      BY <1>1, <1>3, <2>1, <2>3 DEF HeadedRequest, ClientEnded, Reading, Parsed
    <3>4. Exchange!AnswersRest(c)
      BY <1>2, <1>3, <2>1, <3>2, <3>3 DEF Exchange!AnswersRest
    <3>5. QED BY <3>4 DEF Exchange!ConnectionsNext
  <2>4. QED BY <2>2, <2>3
<1>8. CASE ReadData(s)
  <2>1. PICK n \in 1 .. Len(rx[c]) :
          /\ hbuf' = [hbuf EXCEPT ![s] = hbuf[s] \o SubSeq(rx[c], 1, n)]
          /\ rx' = [rx EXCEPT ![c] = SubSeq(@, n + 1, Len(@))]
          /\ at' = [at EXCEPT ![s] = ReadTo(s, hbuf[s] \o SubSeq(rx[c], 1, n))]
    BY <1>3, <1>8 DEF ReadData
  <2> DEFINE b == hbuf[s] \o SubSeq(rx[c], 1, n)
  <2>2. hbuf'[s] = b /\ at'[s] = ReadTo(s, b) /\ b \in Seq(Token)
    <3>1. hbuf'[s] = b /\ at'[s] = ReadTo(s, b)
      BY <1>1, <2>1
    <3>2. hbuf'[s] \in Seq(Token)
      BY DEF ServerTypeInv, ServerTypeOK
    <3>3. QED BY <3>1, <3>2
  <2> HIDE DEF b
  <2>3. /\ DoesAt(at[s])' \in {"reading", "answering"}
        /\ DoesAt(at[s])' = "answering" => b \in WholeRequest
    BY <2>2, ReadToWhole
  <2>4. DoesAt(at[s]) = "reading"
    <3>1. at[s] \in Reading
      BY <1>8 DEF ReadData, In
    <3>2. QED BY <3>1 DEF DoesAt, Reading, Writing
  <2>5. RequestRead' = [RequestRead EXCEPT ![c] = b] /\ RequestRead'[c] = b
    BY <1>3, <2>2, RequestPointwise
  <2>6. b = RequestRead[c] \o SubSeq(rx[c], 1, n)
    BY <1>3 DEF b
  <2>7. \/ Exchange!MovesTo(c, "reading")
        \/ Exchange!MovesTo(c, "answering") /\ RequestRead'[c] \in WholeRequest
    <3>1. CASE DoesAt(at[s])' = "reading"
      BY <1>3, <3>1, MovesPointwise
    <3>2. CASE DoesAt(at[s])' = "answering"
      BY <1>3, <2>3, <2>5, <3>2, MovesPointwise
    <3>3. QED BY <2>3, <3>1, <3>2
  <2>8. Exchange!Reads(c, n)
    BY <1>2, <1>3, <2>1, <2>4, <2>5, <2>6, <2>7 DEF Exchange!Reads
  <2>9. QED BY <2>8 DEF Exchange!ConnectionsNext
<1>9. CASE EndResponse(s)
  <2>1. /\ at[s] = "after" /\ hbuf'[s] = <<>> /\ UNCHANGED rx
        /\ at'[s] \in {"hdr", "exit"} /\ (at'[s] = "hdr" => Header(hbuf[s]).keep)
    BY <1>1, <1>9 DEF EndResponse, In, clientVars
  <2>2. /\ DoesAt(at[s]) = "answering" /\ DoesAt(at[s])' \in {"reading", "closing"}
        /\ (DoesAt(at[s])' = "reading" => at'[s] = "hdr")
    BY <2>1 DEF DoesAt, Reading, Writing
  <2>3. RequestRead' = [RequestRead EXCEPT ![c] = <<>>]
    BY <1>3, <2>1, RequestPointwise
  <2>4. at'[s] = "hdr" => RequestRead[c] \in KeptRequest
    BY <1>1, <1>3, <2>1 DEF KeptRequest, HeadedRequest, Parsed
  <2>5. \/ Exchange!MovesTo(c, "closing")
        \/ Exchange!MovesTo(c, "reading") /\ RequestRead[c] \in KeptRequest
    <3>1. CASE DoesAt(at[s])' = "closing"
      BY <1>3, <3>1, MovesPointwise
    <3>2. CASE DoesAt(at[s])' = "reading"
      BY <1>3, <2>2, <2>4, <3>2, MovesPointwise
    <3>3. QED BY <2>2, <3>1, <3>2
  <2>6. Exchange!Answers(c)
    BY <1>2, <1>3, <2>1, <2>2, <2>3, <2>5 DEF Exchange!Answers
  <2>7. QED BY <2>6 DEF Exchange!ConnectionsNext
<1>10. QED BY <1>5, <1>6, <1>7, <1>8, <1>9

LEMMA FirstOfConcat ==
  ASSUME NEW a \in Seq(Token), NEW b \in Seq(Token)
  PROVE  SubSeq(a \o b, 1, Len(a)) = a
<1>1. /\ Len(a) \in Nat /\ Len(b) \in Nat /\ a \o b \in Seq(Token)
      /\ Len(a \o b) = Len(a) + Len(b) /\ \A i \in 1 .. Len(a) : (a \o b)[i] = a[i]
  BY ConcatProperties, LenProperties
<1>2. \A i \in 1 .. Len(a) : (a \o b)[i] \in Token
  BY <1>1, ElementOfSeq
<1>3. /\ SubSeq(a \o b, 1, Len(a)) \in Seq(Token) /\ Len(SubSeq(a \o b, 1, Len(a))) = Len(a)
      /\ \A i \in 1 .. Len(a) : SubSeq(a \o b, 1, Len(a))[i] = (a \o b)[i]
  BY <1>1, <1>2, SubSeqProperties
<1>4. QED BY <1>1, <1>3, SeqEqual

\* A step of the server is one of Connections, or none.
LEMMA ServerServes ==
  ASSUME ServerInv, ServerTypeInv, ServerTypeInv', ConnInv, Mapped, Mapped', [ServerNext]_allVars
  PROVE  Exchange!ConnectionsNext \/ UNCHANGED Exchange!connectionsVars
<1>1. /\ IInv /\ co \in [Svc -> Stage] /\ at \in [Svc -> Place] /\ peer \in [Client -> Peer]
      /\ sock \in [Svc -> Fd \cup {NoFd}] /\ conn \in [Fd -> Client \cup {NoClient}]
      /\ hbuf \in [Svc -> Seq(Token)] /\ rx \in [Client -> Seq(Token)]
      /\ backlog \in Seq(Client) /\ \A c \in Client : peer[c] \in Peer
  BY DEF ServerInv, ServerTypeInv, ServerTypeOK, IInv, TypeOK
<1>2. CASE \/ (StartRun \/ ExpireDone \/ DispatchDone) /\ UNCHANGED serverVars
           \/ Wait \/ Clock \/ WaitTimesOut \/ UNCHANGED allVars
  <2>1. UNCHANGED <<serverVars, sock, co>>
    BY <1>2 DEF StartRun, ExpireDone, DispatchDone, objVars, Wait, EpollWait, Clock, Lapse,
                WaitTimesOut, EpollIdle, allVars, vars
  <2>2. QED BY <2>1, QuietStep
<1>3. ASSUME NEW s \in Svc,
             \/ (Expire(s) \/ Dispatch(s)) /\ UNCHANGED serverVars
             \/ Waits(s) \/ Leave(s)
      PROVE  UNCHANGED Exchange!connectionsVars
  <2>1. UNCHANGED <<serverVars, sock>>
    BY <1>3 DEF Expire, Dispatch, Waits, ReadWaits, WriteWaits, AcceptFails, Blocks,
                Yields, Leave, ExitDel, Yield, vars, objVars
  <2>2. /\ co[s] \notin {"free", "closed"} /\ co'[s] \notin {"free", "closed"}
        /\ \A t \in Svc \ {s} : co'[t] = co[t]
    <3>1. CASE Expire(s) \/ Dispatch(s)
      BY <1>1, <3>1, SchedulerAssumption
      DEF Expire, Dispatch, Resume, IInv, TypeOK, LiveRefs, Linked, Heap, LeavingRuns
    <3>2. CASE Waits(s) \/ Leave(s)
      BY <1>1, <3>2 DEF Waits, ReadWaits, WriteWaits, AcceptFails, Blocks, Yields, Leave,
          ExitDel, Yield, vars, objVars, Runs, In
    <3>3. QED BY <1>3, <3>1, <3>2
  <2>3. QED BY <2>1, <2>2, QuietStep
<1>4. ASSUME NEW f \in Fd, AddListenPort(f) PROVE UNCHANGED Exchange!connectionsVars
  <2>1. /\ UNCHANGED <<hbuf, peer, rx, backlog, conn>>
        /\ at' = [at EXCEPT ![Listener] = "accept"]
        /\ \A t \in Svc : co[t] = "free" /\ (t # Listener => co'[t] = "free")
    BY <1>1, <1>4 DEF AddListenPort, AddListener, Construct, Heap, clientVars
  <2>2. \A s \in Svc, c \in Client : ~Serves(s, c) /\ ~Serves(s, c)'
    BY <1>1, <2>1 DEF Serves
  <2>3. \A c \in Client : ExchangeStage'[c] = ExchangeStage[c] /\ RequestRead'[c] = RequestRead[c]
    BY <1>1, <2>1, <2>2, StaysMapped
  <2>4. UNCHANGED <<ExchangeStage, RequestRead, ClientEnded>>
    BY <2>1, <2>3, SamePointwise DEF ClientEnded
  <2>5. QED BY <2>1, <2>4 DEF Exchange!connectionsVars
<1>5. ASSUME NEW s \in Svc, Delete(s) PROVE UNCHANGED Exchange!connectionsVars
  <2>1. /\ co[s] = "closed" /\ co' = [co EXCEPT ![s] = "free"]
        /\ at' = [at EXCEPT ![s] = "none"] /\ hbuf' = [hbuf EXCEPT ![s] = <<>>]
        /\ sock' = [sock EXCEPT ![s] = NoFd] /\ UNCHANGED <<peer, rx, backlog, conn>>
    BY <1>5 DEF Delete, Terminate, clientVars
  <2>2. \A c \in Client : ~Serves(s, c) /\ ~Serves(s, c)'
    BY <1>1, <2>1 DEF Serves
  <2>3. \A t \in Svc \ {s} :
          /\ DoesAt(at[t])' = DoesAt(at[t]) /\ hbuf'[t] = hbuf[t]
          /\ \A c \in Client : Serves(t, c)' <=> Serves(t, c)
    BY <1>1, <2>1 DEF Serves, DoesAt
  <2>4. \A c \in Client : ExchangeStage'[c] = ExchangeStage[c] /\ RequestRead'[c] = RequestRead[c]
    BY <1>1, <2>1, <2>2, <2>3, StaysMapped
  <2>5. UNCHANGED <<ExchangeStage, RequestRead, ClientEnded>>
    BY <2>1, <2>4, SamePointwise DEF ClientEnded
  <2>6. QED BY <2>1, <2>5 DEF Exchange!connectionsVars
<1>6. ASSUME NEW s \in Svc, Hangup(s) PROVE Exchange!ConnectionsNext
  <2>1. /\ co[s] = "exiting" /\ co' = [co EXCEPT ![s] = "closed"] /\ at[s] = "exit"
        /\ conn' = [conn EXCEPT ![sock[s]] = NoClient]
        /\ peer' = [peer EXCEPT ![Sock(s)] = "gone"]
        /\ rx' = [rx EXCEPT ![Sock(s)] = <<>>]
        /\ UNCHANGED <<sock, at, hbuf, backlog>>
    BY <1>6 DEF Hangup, ExitClose, bodyVars, ConnInv, PlacesFit
  <2>2. PICK c \in Client : c = Sock(s)
    BY <2>1 DEF ServerTypeInv, Connected, Sock
  <2>3. sock[s] \in Fd /\ conn[sock[s]] = c /\ Serves(s, c)
    BY <1>1, <2>1, <2>2 DEF IInv, Owned, TypeOK, Heap, Sock, Serves
  <2>4. /\ ExchangeStage[c] = "closing" /\ c \in Here
        /\ ~Serves(s, c)'
    <3>1. DoesAt(at[s]) = "closing"
      BY <2>1 DEF DoesAt, Reading, Writing
    <3>2. ExchangeStage[c] = "closing" /\ c \in Here
      BY <2>3, <3>1 DEF Mapped
    <3>3. co'[s] = "closed"
      BY <1>1, <2>1
    <3>4. QED BY <3>2, <3>3 DEF Serves
  <2>5. \A t \in Svc \ {s} : ~Serves(t, c)'
    <3> SUFFICES ASSUME NEW t \in Svc \ {s}, Serves(t, c)' PROVE FALSE
      OBVIOUS
    <3>1. co[t] \notin {"free", "closed"} /\ conn'[sock[t]] = c
      BY <1>1, <2>1 DEF Serves
    <3>2. sock[t] \in Fd /\ sock[t] # sock[s]
      BY <1>1, <2>1, <3>1 DEF IInv, Owned, FdsOwned, TypeOK, Heap
    <3>3. conn[sock[t]] = c
      BY <1>1, <2>1, <3>1, <3>2
    <3>4. QED BY <2>3, <3>2, <3>3, ServerAssumption DEF ConnInv, OnceServed
  <2>6. ExchangeStage'[c] = "over" /\ RequestRead'[c] = <<>>
    BY <1>1, <2>1, <2>2, <2>4, <2>5 DEF Mapped
  <2>7. ASSUME NEW d \in Client \ {c}
        PROVE  ExchangeStage'[d] = ExchangeStage[d] /\ RequestRead'[d] = RequestRead[d]
    <3>1. ~Serves(s, d) /\ ~Serves(s, d)'
      BY <1>1, <2>1, <2>3 DEF Serves
    <3>2. \A t \in Svc \ {s} : Serves(t, d)' <=> Serves(t, d)
      <4> SUFFICES ASSUME NEW t \in Svc \ {s} PROVE Serves(t, d)' <=> Serves(t, d)
        OBVIOUS
      <4>1. co'[t] = co[t] /\ at'[t] = at[t] /\ sock'[t] = sock[t]
        BY <1>1, <2>1
      <4>2. CASE co[t] = "free"
        BY <4>1, <4>2 DEF Serves
      <4>3. CASE co[t] # "free"
        <5>1. sock[t] # sock[s]
          BY <1>1, <2>1, <4>3 DEF IInv, FdsOwned, Heap
        <5>2. conn'[sock[t]] = conn[sock[t]]
          BY <1>1, <2>1, <2>3, <5>1
        <5>3. QED BY <4>1, <5>2 DEF Serves
      <4>4. QED BY <4>2, <4>3
    <3>3. \A t \in Svc : DoesAt(at[t])' = DoesAt(at[t]) /\ hbuf'[t] = hbuf[t]
      BY <2>1 DEF DoesAt
    <3>4. peer'[d] = peer[d]
      BY <1>1, <2>1, <2>2
    <3>5. QED BY <1>1, <3>1, <3>2, <3>3, <3>4, StaysMapped
  <2>8. Exchange!MovesTo(c, "over") /\ RequestRead' = [RequestRead EXCEPT ![c] = <<>>]
    BY <2>6, <2>7, MovesPointwise, RequestPointwise
  <2>9. ClientEnded' = [ClientEnded EXCEPT ![c] = TRUE]
    BY <1>1, <2>1, <2>2 DEF ClientEnded
  <2>10. Exchange!Closes(c)
    BY <2>1, <2>2, <2>4, <2>8, <2>9 DEF Exchange!Closes
  <2>11. QED BY <2>2, <2>10 DEF Exchange!ConnectionsNext
<1>7. ASSUME NEW s \in Svc, NEW t \in Svc, NEW f \in Fd, Accept(s, t, f)
      PROVE  Exchange!ConnectionsNext
  <2>1. /\ co[t] = "free" /\ f \notin open /\ backlog # <<>>
        /\ co' = [co EXCEPT ![t] = "new"] /\ sock' = [sock EXCEPT ![t] = f]
        /\ at' = [at EXCEPT ![t] = "entry"]
        /\ conn' = [conn EXCEPT ![f] = Head(backlog)] /\ backlog' = Tail(backlog)
        /\ UNCHANGED <<hbuf, peer, rx>>
    BY <1>7 DEF Accept, Spawn, Construct
  <2>2. PICK c \in Client : c = Head(backlog) /\ c = backlog[1] /\ 1 \in 1 .. Len(backlog)
    BY <1>1, <2>1, BacklogStep, ElementOfSeq
  <2>3. c \in Here /\ \A g \in Fd : conn[g] # c
    BY <2>2 DEF ConnInv, WaitingAreHere
  <2>4. \A u \in Svc : ~Serves(u, c)
    BY <1>1, <2>3 DEF Serves, IInv, Owned, TypeOK, Heap
  <2>5. Serves(t, c)' /\ hbuf[t] = <<>> /\ DoesAt(at[t])' = "reading"
    <3>1. co'[t] = "new" /\ at'[t] = "entry" /\ sock'[t] = f /\ conn'[f] = c
      BY <1>1, <2>1, <2>2
    <3>2. hbuf[t] = <<>>
      BY <2>1 DEF ConnInv, StartsEmpty
    <3>3. DoesAt(at[t])' = "reading"
      BY <3>1 DEF DoesAt, Reading, Writing
    <3>4. QED BY <3>1, <3>2, <3>3 DEF Serves
  <2>6. ExchangeStage[c] = "waiting" /\ RequestRead[c] = <<>>
    BY <2>3, <2>4 DEF Mapped
  <2>7. ExchangeStage'[c] = "reading" /\ RequestRead'[c] = <<>>
    BY <2>1, <2>5 DEF Mapped
  <2>8. ASSUME NEW d \in Client \ {c}
        PROVE  ExchangeStage'[d] = ExchangeStage[d] /\ RequestRead'[d] = RequestRead[d]
    <3>1. ~Serves(t, d) /\ ~Serves(t, d)'
      BY <1>1, <2>1, <2>2 DEF Serves
    <3>2. \A u \in Svc \ {t} :
            /\ Serves(u, d)' <=> Serves(u, d)
            /\ DoesAt(at[u])' = DoesAt(at[u]) /\ hbuf'[u] = hbuf[u]
      <4> SUFFICES ASSUME NEW u \in Svc \ {t}
                   PROVE  /\ Serves(u, d)' <=> Serves(u, d)
                          /\ DoesAt(at[u])' = DoesAt(at[u]) /\ hbuf'[u] = hbuf[u]
        OBVIOUS
      <4>1. co'[u] = co[u] /\ at'[u] = at[u] /\ sock'[u] = sock[u] /\ hbuf'[u] = hbuf[u]
        BY <1>1, <2>1
      <4>2. CASE co[u] \in {"free", "closed"}
        BY <4>1, <4>2 DEF Serves, DoesAt
      <4>3. CASE co[u] \notin {"free", "closed"}
        <5>1. sock[u] # f
          BY <1>1, <2>1, <4>3 DEF IInv, Owned, Heap
        <5>2. sock[u] \in Fd
          BY <1>1, <4>3 DEF IInv, Owned, TypeOK, Heap
        <5>3. conn'[sock[u]] = conn[sock[u]]
          BY <1>1, <2>1, <5>1, <5>2
        <5>4. QED BY <4>1, <5>3 DEF Serves, DoesAt
      <4>4. QED BY <4>2, <4>3
    <3>3. QED BY <1>1, <2>1, <3>1, <3>2, StaysMapped
  <2>9. Exchange!MovesTo(c, "reading")
    BY <2>7, <2>8, MovesPointwise
  <2>10. UNCHANGED RequestRead
    <3>1. \A d \in Client : RequestRead'[d] = RequestRead[d]
      BY <2>6, <2>7, <2>8
    <3>2. QED BY <3>1 DEF RequestRead
  <2>11. UNCHANGED ClientEnded
    BY <2>1 DEF ClientEnded
  <2>12. QED
    BY <2>1, <2>2, <2>6, <2>9, <2>10, <2>11 DEF Exchange!Accepts, Exchange!ConnectionsNext
<1>8. ASSUME NEW c \in Client,
             \/ Connect(c) \/ Finish(c) \/ Reset(c) \/ Drain(c)
             \/ \E n \in DOMAIN todo[c] : Send(c, n)
      PROVE  Exchange!ConnectionsNext \/ UNCHANGED Exchange!connectionsVars
  <2>1. UNCHANGED <<co, sock, at, hbuf, conn>>
    BY <1>8 DEF Connect, Finish, Reset, Drain, Send, vars, objVars, bodyVars
  <2>2. \A s \in Svc, d \in Client : Serves(s, d)' <=> Serves(s, d)
    BY <2>1 DEF Serves
  <2>3. \A s \in Svc : DoesAt(at[s])' = DoesAt(at[s]) /\ hbuf'[s] = hbuf[s]
    BY <2>1 DEF DoesAt
  <2>4. CASE Connect(c)
    <3>1. /\ peer[c] = "none" /\ peer' = [peer EXCEPT ![c] = "open"]
          /\ backlog' = Append(backlog, c) /\ UNCHANGED rx
      BY <2>4 DEF Connect
    <3>2. c \notin Here /\ c \in Here'
      BY <1>1, <3>1 DEF Here
    <3>3. \A s \in Svc : ~Serves(s, c)
      BY <3>2 DEF Mapped
    <3>4. /\ ExchangeStage[c] = "none" /\ ExchangeStage'[c] = "waiting"
          /\ RequestRead'[c] = RequestRead[c]
      BY <2>2, <3>1, <3>2, <3>3 DEF Mapped
    <3>5. \A d \in Client \ {c} :
            ExchangeStage'[d] = ExchangeStage[d] /\ RequestRead'[d] = RequestRead[d]
      BY <1>1, <2>2, <2>3, <3>1, StaysMapped
    <3>6. Exchange!MovesTo(c, "waiting")
      BY <3>4, <3>5, MovesPointwise
    <3>7. UNCHANGED RequestRead
      <4>1. \A d \in Client : RequestRead'[d] = RequestRead[d]
        BY <3>4, <3>5
      <4>2. QED BY <4>1 DEF RequestRead
    <3>8. UNCHANGED ClientEnded
      BY <1>1, <3>1 DEF ClientEnded
    <3>9. Exchange!Connects(c)
      BY <3>1, <3>4, <3>6, <3>7, <3>8 DEF Exchange!Connects
    <3>10. QED BY <3>9 DEF Exchange!ConnectionsNext
  <2>5. CASE Finish(c) \/ Reset(c) \/ Drain(c) \/ \E n \in DOMAIN todo[c] : Send(c, n)
    <3>1. /\ \A d \in Client : /\ peer'[d] = "none" <=> peer[d] = "none"
                               /\ peer'[d] = "gone" <=> peer[d] = "gone"
          /\ UNCHANGED backlog
      BY <1>1, <2>5 DEF Finish, Reset, Drain, Send
    <3>2. \A d \in Client :
            ExchangeStage'[d] = ExchangeStage[d] /\ RequestRead'[d] = RequestRead[d]
      BY <1>1, <2>2, <2>3, <3>1, StaysMapped
    <3>3. UNCHANGED <<ExchangeStage, RequestRead>>
      BY <3>2, SamePointwise
    <3>4. peer[c] = "open" => c \in Here /\ ExchangeStage[c] \notin {"none", "over"}
      <4> SUFFICES ASSUME peer[c] = "open" PROVE c \in Here /\ ExchangeStage[c] \notin {"none", "over"}
        OBVIOUS
      <4>1. c \in Here
        BY DEF Here
      <4>2. CASE \A s \in Svc : ~Serves(s, c)
        BY <4>1, <4>2 DEF Mapped
      <4>3. ASSUME NEW s \in Svc, Serves(s, c) PROVE ExchangeStage[c] \notin {"none", "over"}
        <5>1. ExchangeStage[c] = DoesAt(at[s])
          BY <4>3 DEF Mapped
        <5>2. at[s] \in Place \ {"accept", "none"}
          BY <1>1, <4>3 DEF Serves, ConnInv, PlacesFit
        <5>3. DoesAt(at[s]) \in {"reading", "answering", "closing"}
          BY <5>2 DEF DoesAt, Place, Reading, Writing
        <5>4. QED BY <5>1, <5>3
      <4>4. QED BY <4>1, <4>2, <4>3
    <3>5. CASE Finish(c) \/ Reset(c)
      <4>1. UNCHANGED rx /\ (ClientEnded' = ClientEnded \/
                (ClientEnded' = [ClientEnded EXCEPT ![c] = TRUE] /\ peer[c] = "open"))
        <5>1. CASE Finish(c) \/ (Reset(c) /\ peer[c] = "open")
          <6>1. UNCHANGED rx /\ peer[c] = "open" /\ peer'[c] \in {"fin", "rst"}
                /\ \A d \in Client \ {c} : peer'[d] = peer[d]
            BY <1>1, <5>1 DEF Finish, Reset
          <6>2. QED BY <6>1 DEF ClientEnded
        <5>2. CASE Reset(c) /\ peer[c] # "open"
          <6>1. UNCHANGED rx /\ peer[c] = "fin" /\ peer'[c] = "dead"
                /\ \A d \in Client \ {c} : peer'[d] = peer[d]
            BY <1>1, <5>2 DEF Reset
          <6>2. \A d \in Client : (peer'[d] \in {"fin", "rst", "dead", "gone"})
                                   = (peer[d] \in {"fin", "rst", "dead", "gone"})
            BY <6>1
          <6>3. QED BY <6>1, <6>2 DEF ClientEnded
        <5>3. QED BY <3>5, <5>1, <5>2
      <4>2. peer[c] = "open" => ~ClientEnded[c]
        BY DEF ClientEnded
      <4>3. QED
        BY <3>1, <3>3, <3>4, <4>1, <4>2
        DEF Exchange!Ends, Exchange!ConnectionsNext, Exchange!connectionsVars
    <3>6. CASE Drain(c)
      BY <3>3, <3>6 DEF Drain, ClientEnded, Exchange!connectionsVars
    <3>7. ASSUME NEW n \in DOMAIN todo[c], Send(c, n) PROVE Exchange!ConnectionsNext
      <4>1. /\ peer[c] = "open" /\ UNCHANGED ClientEnded
            /\ rx' = [rx EXCEPT ![c] = rx[c] \o SubSeq(todo[c], 1, n)]
        BY <3>7 DEF Send, ClientEnded
      <4>2. /\ SubSeq(todo[c], 1, n) \in Seq(Token) /\ Len(SubSeq(todo[c], 1, n)) = n
            /\ n > 0 /\ n \in Nat
        <5>1. todo[c] \in Seq(Token) /\ n \in 1 .. Len(todo[c]) /\ Len(todo[c]) \in Nat
          BY <3>7, LenProperties DEF ServerTypeInv, ServerTypeOK
        <5>2. QED BY <5>1, TokenParts
      <4> DEFINE b == SubSeq(todo[c], 1, n)
      <4>0. Len(b) \in Nat /\ Len(b) > 0
        BY <4>2
      <4> HIDE DEF b
      <4>3. /\ rx[c] \o b \in Seq(Token) /\ Len(rx[c] \o b) = Len(rx[c]) + Len(b)
            /\ SubSeq(rx[c] \o b, 1, Len(rx[c])) = rx[c] /\ Len(rx[c]) \in Nat
        BY <1>1, <4>2, ConcatProperties, LenProperties, FirstOfConcat DEF b
      <4>4. rx'[c] = rx[c] \o b
        BY <1>1, <4>1 DEF b
      <4>5. Len(rx'[c]) > Len(rx[c])
        BY <4>3, <4>4, <4>0
      <4>6. rx' = [rx EXCEPT ![c] = rx'[c]]
        BY <4>1, <4>4 DEF b
      <4>7. ~ClientEnded[c]
        BY <4>1 DEF ClientEnded
      <4>8. Exchange!Sends(c)
        BY <3>1, <3>3, <3>4, <4>1, <4>3, <4>4, <4>5, <4>6, <4>7 DEF Exchange!Sends
      <4>9. QED BY <4>8 DEF Exchange!ConnectionsNext
    <3>8. QED BY <2>5, <3>5, <3>6, <3>7
  <2>6. QED BY <1>8, <2>4, <2>5
<1>9. QED
  BY <1>2, <1>3, <1>4, <1>5, <1>6, <1>7, <1>8, CoroutineServes
  DEF ServerNext, Thread, Loop, Coroutine, Waits, Environment

\* Whatever services, descriptors, timers and buffers do, clients are served as module
\* Connections promises: in the order in which they came, each from its own input, one
\* exchange at a time, and answered when a whole request has been read.
THEOREM ServerImplementsConnections == ServerSpec => ImplementsConnections
<1>1. ServerInit => Exchange!ConnectionsInit
  <2> SUFFICES ASSUME ServerInit PROVE Exchange!ConnectionsInit
    OBVIOUS
  <2>1. /\ co = [s \in Svc |-> "free"] /\ peer = [c \in Client |-> "none"]
        /\ rx = [c \in Client |-> <<>>] /\ backlog = <<>>
    BY DEF ServerInit, Init
  <2>2. \A s \in Svc, c \in Client : ~Serves(s, c)
    BY <2>1 DEF Serves
  <2>3. ExchangeStage = [c \in Client |-> "none"] /\ RequestRead = [c \in Client |-> <<>>]
    BY <2>1, <2>2 DEF ExchangeStage, RequestRead
  <2>4. ClientEnded = [c \in Client |-> FALSE]
    <3>1. \A c \in Client : (peer[c] \in {"fin", "rst", "dead", "gone"}) = FALSE
      BY <2>1
    <3>2. QED BY <3>1 DEF ClientEnded
  <2>5. QED BY <2>1, <2>3, <2>4 DEF Exchange!ConnectionsInit
<1>2. /\ ServerInv /\ ServerTypeInv /\ ServerTypeInv' /\ ConnInv /\ Mapped /\ Mapped'
      /\ [ServerNext]_allVars
      => [Exchange!ConnectionsNext]_(Exchange!connectionsVars)
  BY ServerServes
<1>3. QED
  BY <1>1, <1>2, ConnInductive, MappingInductive, PTL
  DEF ServerSpec, ImplementsConnections, Exchange!ConnectionsSpec
-------------------------------------------------------------------------------
(***************************************************************************)
(* Where the runs find a promise of the code broken: what it takes to      *)
(* break it, and that nothing else does.                                   *)
(***************************************************************************)
\* No connection is reset: clients end with a FIN, if they do.
NoResets == [][\A c \in Client : ~Reset(c)]_allVars

\* Then write_sock meets no connection that is dead.
Unreset == ~killed /\ \A c \in Client : peer[c] \notin {"rst", "dead"}

LEMMA UnresetStep ==
  ASSUME ServerInv, ServerTypeInv, Unreset, [ServerNext]_allVars,
         [\A c \in Client : ~Reset(c)]_allVars
  PROVE  Unreset'
<1> USE DEF Unreset
<1>1. peer \in [Client -> Peer] /\ IInv
  BY DEF ServerInv, ServerTypeInv, ServerTypeOK
<1>2. ASSUME UNCHANGED <<peer, killed>> PROVE Unreset'
  BY <1>2
<1>3. CASE \/ (StartRun \/ ExpireDone \/ DispatchDone) /\ UNCHANGED serverVars
           \/ Wait \/ Clock \/ WaitTimesOut \/ UNCHANGED allVars
  BY <1>2, <1>3 DEF Wait, Clock, WaitTimesOut, allVars, serverVars, clientVars
<1>4. ASSUME NEW s \in Svc,
             \/ (Expire(s) \/ Dispatch(s)) /\ UNCHANGED serverVars
             \/ Waits(s) \/ Leave(s)
      PROVE  Unreset'
  BY <1>2, <1>4 DEF Waits, ReadWaits, WriteWaits, AcceptFails, Blocks, Yields, Leave, serverVars, clientVars
<1>5. ASSUME NEW f \in Fd, AddListenPort(f) PROVE Unreset'
  BY <1>2, <1>5 DEF AddListenPort, clientVars
<1>6. ASSUME NEW s \in Svc,
             \/ Enter(s) \/ ReadData(s) \/ Respond(s) \/ ArmOutput(s) \/ WriteData(s)
             \/ EndResponse(s) \/ CatchTimeout(s) \/ Delete(s)
             \/ \E t \in Svc, f \in Fd : Accept(s, t, f)
      PROVE  Unreset'
  BY <1>2, <1>6
  DEF Enter, ReadData, Respond, ArmOutput, WriteData, EndResponse, CatchTimeout, Delete,
      Accept, clientVars
<1>7. ASSUME NEW s \in Svc, ReadEnds(s) \/ WriteFails(s) \/ WriteKills(s) PROVE Unreset'
  <2>1. Runs(s) /\ at[s] \in Reading \cup Writing
    BY <1>7 DEF ReadEnds, WriteFails, WriteKills, In
  <2>2. Sock(s) \in Client
    BY <2>1 DEF ServerTypeInv, Connected, Runs, Reading, Writing, Sock
  <2>3. peer[Sock(s)] \notin {"rst", "dead"}
    BY <2>2
  <2>4. ~WriteFails(s) /\ ~WriteKills(s)
    BY <2>3 DEF WriteFails, WriteKills
  <2>5. peer' = peer /\ killed' = killed
    BY <1>1, <1>7, <2>2, <2>3, <2>4 DEF ReadEnds
  <2>6. QED BY <1>2, <2>5
<1>8. ASSUME NEW s \in Svc, Hangup(s) PROVE Unreset'
  BY <1>1, <1>8 DEF Hangup
<1>9. ASSUME NEW c \in Client,
             \/ Connect(c) \/ Finish(c) \/ Reset(c) \/ Drain(c)
             \/ \E n \in DOMAIN todo[c] : Send(c, n)
      PROVE  Unreset'
  <2>1. CASE Connect(c) \/ Finish(c)
    BY <1>1, <2>1 DEF Connect, Finish
  <2>2. CASE Drain(c) \/ \E n \in DOMAIN todo[c] : Send(c, n)
    BY <1>2, <2>2 DEF Drain, Send
  <2>3. CASE Reset(c)
    <3>1. peer'[c] \in {"rst", "dead"} /\ peer[c] \in {"open", "fin"}
      BY <1>1, <2>3 DEF Reset
    <3>2. allVars' # allVars
      BY <3>1 DEF allVars, serverVars, clientVars
    <3>3. QED BY <2>3, <3>2
  <2>4. QED BY <1>9, <2>1, <2>2, <2>3
<1>10. QED
  BY <1>3, <1>4, <1>5, <1>6, <1>7, <1>8, <1>9
  DEF ServerNext, Thread, Loop, Coroutine, Waits, Environment

\* The process is ended by a signal only when a client resets its connection.
THEOREM OnlyResetsKill == ServerSpec /\ NoResets => []WriteFailureReturned
<1>1. ServerInit => Unreset
  BY DEF ServerInit, Unreset
<1>2. /\ ServerInv /\ ServerTypeInv /\ Unreset /\ [ServerNext]_allVars
      /\ [\A c \in Client : ~Reset(c)]_allVars
      => Unreset'
  BY UnresetStep
<1>3. Unreset => WriteFailureReturned
  BY DEF Unreset, WriteFailureReturned
<1>4. QED
  BY <1>1, <1>2, <1>3, ServerInductive, ServerTypeInductive, PTL
  DEF ServerSpec, NoResets
-------------------------------------------------------------------------------
\* The requests that a client may send are all chunked or none is.
Alike ==
  \A c \in Client : \A q \in Scripts[c] : \A i, j \in 1 .. Len(q) :
    q[i].kind = "end" /\ q[j].kind = "end" => q[i].chunked = q[j].chunked

\* Each header end in q declares a chunked body, or none does.
Declares(q, k) == \A i \in 1 .. Len(q) : q[i].kind = "end" => q[i].chunked = k

\* So it is for all that a client has still to send, that is on the way, and that its
\* coroutine has read; and chunkedf is set only if it was declared.
Uniform(c, k) ==
  /\ Declares(todo[c], k) /\ Declares(rx[c], k)
  /\ \A s \in Svc : Serves(s, c) => Declares(hbuf[s], k) /\ (chunked[s] => k = TRUE)

AlikeInv ==
  /\ \A c \in Client : \E k \in BOOLEAN : Uniform(c, k)
  /\ \A c \in Client : peer[c] = "none" => rx[c] = <<>>
  /\ \A s \in Svc : co[s] \in {"free", "new"} => ~chunked[s]
  /\ \A s \in Svc : at[s] = "chunk" => chunked[s] /\ co[s] \notin {"free", "closed"}

LEMMA LeastNat ==
  ASSUME NEW T \in SUBSET Nat, T # {}
  PROVE  \E m \in T : \A i \in T : m <= i
<1> DEFINE R == OpToRel(<, Nat)
<1>1. IsWellFoundedOn(R, Nat)
  BY NatLessThanWellFounded
<1> HIDE DEF R
<1>2. PICK m \in T : \A i \in T : ~(<<i, m>> \in R)
  BY <1>1, WFMin
<1>3. \A i \in T : ~(i < m)
  BY <1>2 DEF R, OpToRel
<1>4. QED BY <1>3

\* The header that is parsed is that of the first end.
LEMMA HeaderIsEnd ==
  ASSUME NEW b \in Seq(Token), HasEnd(b)
  PROVE  \E i \in 1 .. Len(b) : Header(b) = b[i] /\ b[i].kind = "end"
<1> DEFINE T == {i \in 1 .. Len(b) : b[i].kind = "end"}
<1>1. DOMAIN b = 1 .. Len(b) /\ Len(b) \in Nat
  BY LenProperties
<1>2. T \in SUBSET Nat /\ T # {}
  BY <1>1 DEF HasEnd
<1>3. PICK m \in T : \A i \in T : m <= i
  <2> HIDE DEF T
  <2>1. QED BY <1>2, LeastNat
<1>4. m \in DOMAIN b /\ b[m].kind = "end" /\ \A j \in 1 .. m - 1 : b[j].kind # "end"
  BY <1>1, <1>3
<1>5. EndPos(b) \in DOMAIN b /\ b[EndPos(b)].kind = "end"
  BY <1>4 DEF EndPos
<1>6. QED BY <1>1, <1>5 DEF Header

LEMMA DeclaresConcat ==
  ASSUME NEW a \in Seq(Token), NEW b \in Seq(Token), NEW k, Declares(a, k), Declares(b, k)
  PROVE  Declares(a \o b, k)
<1>1. /\ Len(a) \in Nat /\ Len(b) \in Nat /\ Len(a \o b) = Len(a) + Len(b)
      /\ \A i \in 1 .. Len(a) + Len(b) :
           (a \o b)[i] = IF i <= Len(a) THEN a[i] ELSE b[i - Len(a)]
  BY ConcatProperties, LenProperties
<1>2. \A i \in 1 .. Len(a) + Len(b) : i > Len(a) => i - Len(a) \in 1 .. Len(b)
  BY <1>1
<1>3. \A i \in 1 .. Len(a) + Len(b) : i <= Len(a) => i \in 1 .. Len(a)
  BY <1>1
<1>4. QED BY <1>1, <1>2, <1>3 DEF Declares

LEMMA DeclaresParts ==
  ASSUME NEW q \in Seq(Token), NEW n \in 1 .. Len(q), NEW k, Declares(q, k)
  PROVE  Declares(SubSeq(q, 1, n), k) /\ Declares(SubSeq(q, n + 1, Len(q)), k)
<1>1. Len(q) \in Nat /\ n \in Nat /\ \A i \in 1 .. Len(q) : q[i] \in Token
  BY LenProperties, ElementOfSeq
<1>2. /\ Len(SubSeq(q, 1, n)) = n
      /\ \A i \in 1 .. n : SubSeq(q, 1, n)[i] = q[i] /\ i \in 1 .. Len(q)
  <2>1. \A i \in 1 .. n : q[i] \in Token
    BY <1>1
  <2>2. QED BY <1>1, <2>1, SubSeqProperties
<1>3. /\ Len(SubSeq(q, n + 1, Len(q))) = Len(q) - n
      /\ \A i \in 1 .. Len(q) - n :
           SubSeq(q, n + 1, Len(q))[i] = q[n + i] /\ n + i \in 1 .. Len(q)
  <2>1. \A i \in n + 1 .. Len(q) : q[i] \in Token
    BY <1>1
  <2>2. /\ Len(SubSeq(q, n + 1, Len(q))) = (IF n + 1 <= Len(q) THEN Len(q) - (n + 1) + 1 ELSE 0)
        /\ \A i \in 1 .. Len(q) - (n + 1) + 1 :
             SubSeq(q, n + 1, Len(q))[i] = q[(n + 1) + i - 1]
    BY <1>1, <2>1, SubSeqProperties
  <2>3. Len(q) - (n + 1) + 1 = Len(q) - n /\ n <= Len(q)
    BY <1>1
  <2>4. Len(SubSeq(q, n + 1, Len(q))) = Len(q) - n
    <3>1. CASE n < Len(q)
      <4>1. n + 1 <= Len(q)
        BY <1>1, <3>1
      <4>2. QED BY <2>2, <2>3, <4>1
    <3>2. CASE n = Len(q)
      <4>1. n + 1 \in Int /\ Len(q) \in Int /\ Len(q) < n + 1 /\ Len(q) - n = 0
        BY <1>1, <3>2
      <4>2. SubSeq(q, n + 1, Len(q)) = <<>>
        BY <4>1, SubSeqEmpty
      <4>3. Len(SubSeq(q, n + 1, Len(q))) = 0
        BY <4>2
      <4>4. QED BY <1>1, <4>1, <4>3
    <3>3. n < Len(q) \/ n = Len(q)
      BY <1>1
    <3>4. QED BY <3>1, <3>2, <3>3
  <2>5. ASSUME NEW i \in 1 .. Len(q) - n
        PROVE  SubSeq(q, n + 1, Len(q))[i] = q[n + i] /\ n + i \in 1 .. Len(q)
    <3>1. (n + 1) + i - 1 = n + i /\ n + i \in 1 .. Len(q)
      BY <1>1
    <3>2. SubSeq(q, n + 1, Len(q))[i] = q[(n + 1) + i - 1]
      BY <2>2, <2>3
    <3>3. QED BY <3>1, <3>2
  <2>6. QED BY <2>4, <2>5
<1>4. QED BY <1>2, <1>3 DEF Declares

\* What read_header, read_body and read_chunked add to hbuf leaves it uniform.
LEMMA ChunkedNowDeclared ==
  ASSUME NEW s \in Svc, NEW b \in Seq(Token), NEW k, Declares(b, k), chunked[s] => k = TRUE,
         ChunkedNow(s, b)
  PROVE  k = TRUE
<1>1. CASE chunked[s]
  BY <1>1
<1>2. CASE HasEnd(b) /\ Header(b).chunked
  <2>1. PICK i \in 1 .. Len(b) : Header(b) = b[i] /\ b[i].kind = "end"
    BY <1>2, HeaderIsEnd
  <2>2. b[i] \in Token
    BY ElementOfSeq
  <2>3. b[i].chunked \in BOOLEAN /\ b[i].chunked = k
    BY <2>1, <2>2 DEF Token, Declares
  <2>4. QED BY <1>2, <2>1, <2>3
<1>3. QED BY <1>1, <1>2 DEF ChunkedNow

LEMMA AlikeStep ==
  ASSUME Alike, ServerInv, ServerTypeInv, ServerTypeInv', ConnInv, ConnInv', AlikeInv,
         [ServerNext]_allVars
  PROVE  AlikeInv'
<1>1. /\ IInv /\ co \in [Svc -> Stage] /\ sock \in [Svc -> Fd \cup {NoFd}]
      /\ at \in [Svc -> Place] /\ peer \in [Client -> Peer]
      /\ conn \in [Fd -> Client \cup {NoClient}] /\ hbuf \in [Svc -> Seq(Token)]
      /\ chunked \in [Svc -> BOOLEAN]
      /\ rx \in [Client -> Seq(Token)] /\ todo \in [Client -> Seq(Token)]
  BY DEF ServerInv, ServerTypeInv, ServerTypeOK, IInv, TypeOK
<1>2. \A k : Declares(<<>>, k)
  BY DEF Declares
\* Most steps leave alone what is said of tokens.
<1>3. ASSUME UNCHANGED <<todo, rx, hbuf, chunked>>,
             \A t \in Svc, c \in Client : Serves(t, c)' => Serves(t, c)
      PROVE  \A c \in Client : \E k \in BOOLEAN : Uniform(c, k)'
  <2> SUFFICES ASSUME NEW c \in Client PROVE \E k \in BOOLEAN : Uniform(c, k)'
    OBVIOUS
  <2>1. PICK k \in BOOLEAN : Uniform(c, k)
    BY DEF AlikeInv
  <2>2. Uniform(c, k)'
    BY <1>3, <2>1 DEF Uniform, Declares
  <2>3. QED BY <2>2
<1>4. ASSUME UNCHANGED <<serverVars, sock>>,
             \A t \in Svc : co'[t] \in {"free", "closed"} <=> co[t] \in {"free", "closed"},
             \A t \in Svc : co'[t] \in {"free", "new"} => co[t] \in {"free", "new"}
      PROVE  AlikeInv'
  <2>1. UNCHANGED <<todo, rx, hbuf, chunked, at, conn, peer>>
    BY <1>4 DEF serverVars, bodyVars, clientVars
  <2>2. \A t \in Svc, c \in Client : Serves(t, c)' => Serves(t, c)
    BY <1>4, <2>1 DEF Serves
  <2>3. \A c \in Client : \E k \in BOOLEAN : Uniform(c, k)'
    BY <1>3, <2>1, <2>2
  <2>4. QED BY <1>4, <2>1, <2>3 DEF AlikeInv
<1>5. CASE \/ (StartRun \/ ExpireDone \/ DispatchDone) /\ UNCHANGED serverVars
           \/ Wait \/ Clock \/ WaitTimesOut \/ UNCHANGED allVars
  <2>1. UNCHANGED <<serverVars, sock, co>>
    BY <1>5 DEF StartRun, ExpireDone, DispatchDone, objVars, Wait, EpollWait, Clock, Lapse,
                WaitTimesOut, EpollIdle, allVars, vars
  <2>2. QED BY <1>4, <2>1
<1>6. ASSUME NEW s \in Svc,
             \/ (Expire(s) \/ Dispatch(s)) /\ UNCHANGED serverVars
             \/ Waits(s) \/ Leave(s)
      PROVE  AlikeInv'
  <2>1. UNCHANGED <<serverVars, sock>>
    BY <1>6 DEF Expire, Dispatch, Waits, ReadWaits, WriteWaits, AcceptFails, Blocks,
                Yields, Leave, ExitDel, Yield, vars, objVars
  <2>2. /\ co[s] \notin {"free", "closed"} /\ co'[s] \notin {"free", "closed", "new"}
        /\ \A t \in Svc \ {s} : co'[t] = co[t]
    <3>1. CASE Expire(s) \/ Dispatch(s)
      <4>1. co[s] \notin {"free", "closed"}
        BY <1>1, <3>1, SchedulerAssumption
        DEF Expire, Dispatch, IInv, TypeOK, LiveRefs, Linked, Heap, LeavingRuns
      <4>2. co'[s] \in {"entered", "active"} /\ \A t \in Svc \ {s} : co'[t] = co[t]
        BY <1>1, <3>1 DEF Expire, Dispatch, Resume
      <4>3. QED BY <4>1, <4>2
    <3>2. CASE Leave(s)
      BY <1>1, <3>2 DEF Leave, ExitDel, Runs
    <3>3. CASE Waits(s)
      BY <1>1, <3>3 DEF Waits, ReadWaits, WriteWaits, AcceptFails, Blocks, Yields, Yield, In, Runs,
                vars, objVars
    <3>4. QED BY <1>6, <3>1, <3>2, <3>3
  <2>3. QED BY <1>4, <2>1, <2>2
<1>7. ASSUME NEW f \in Fd, AddListenPort(f) PROVE AlikeInv'
  <2>1. /\ co[Listener] = "free" /\ co' = [co EXCEPT ![Listener] = "new"]
        /\ \A t \in Svc : t # Listener => co'[t] = "free" /\ at'[t] = at[t]
        /\ at'[Listener] = "accept"
        /\ UNCHANGED <<todo, rx, hbuf, chunked, conn, peer>>
    BY <1>1, <1>7, ServerAssumption
    DEF AddListenPort, AddListener, Construct, Heap, clientVars
  <2>2. \A t \in Svc, c \in Client : ~Serves(t, c)'
    BY <2>1 DEF Serves
  <2>3. \A c \in Client : \E k \in BOOLEAN : Uniform(c, k)'
    BY <1>3, <2>1, <2>2
  <2>4. \A t \in Svc : co'[t] \in {"free", "new"} => co[t] \in {"free", "new"}
    BY <1>1, <2>1, ServerAssumption
  <2>5. \A t \in Svc : t # Listener => co[t] = "free"
    BY <1>1, <2>1, ServerAssumption
  <2>6. QED BY <2>1, <2>3, <2>4, <2>5, ServerAssumption DEF AlikeInv
<1>8. ASSUME NEW s \in Svc,
             \/ Enter(s) \/ Respond(s) \/ ArmOutput(s) \/ CatchTimeout(s) \/ WriteKills(s)
             \/ ReadEnds(s) \/ WriteData(s) \/ WriteFails(s)
      PROVE  AlikeInv'
  <2>1. UNCHANGED <<todo, rx, hbuf, chunked, conn, co, sock>>
    <3>1. CASE \/ Enter(s) \/ Respond(s) \/ ArmOutput(s) \/ CatchTimeout(s) \/ WriteKills(s)
      BY <3>1 DEF Enter, Respond, ArmOutput, CatchTimeout, WriteKills, Request, Switch, Arm,
                  vars, objVars, bodyVars, clientVars
    <3>2. CASE ReadEnds(s) \/ WriteData(s) \/ WriteFails(s)
      BY <3>2 DEF ReadEnds, WriteData, WriteFails, vars, objVars
    <3>3. QED BY <1>8, <3>1, <3>2
  <2>2. /\ at[s] # "accept" /\ \A t \in Svc \ {s} : at'[t] = at[t]
        /\ at'[s] = "chunk" => at[s] = "chunk"
    BY <1>1, <1>8 DEF Enter, Respond, ArmOutput, CatchTimeout, WriteKills, ReadEnds, WriteData,
                WriteFails, bodyVars, In, Reading, Writing, Written, AfterEof, Caught
  <2>3. \A t \in Svc, c \in Client : Serves(t, c)' => Serves(t, c)
    BY <2>1, <2>2 DEF Serves
  <2>4. \A c \in Client : \E k \in BOOLEAN : Uniform(c, k)'
    BY <1>3, <2>1, <2>3
  <2>5. \A c \in Client : peer'[c] = "none" => peer[c] = "none"
    <3>1. CASE \/ Enter(s) \/ Respond(s) \/ ArmOutput(s) \/ CatchTimeout(s) \/ WriteKills(s)
               \/ WriteData(s)
      BY <3>1 DEF Enter, Respond, ArmOutput, CatchTimeout, WriteKills, WriteData, clientVars
    <3>2. CASE ReadEnds(s) \/ WriteFails(s)
      BY <1>1, <3>2 DEF ReadEnds, WriteFails
    <3>3. QED BY <1>8, <3>1, <3>2
  <2>6. \A t \in Svc : at'[t] = "chunk" => at[t] = "chunk"
    BY <2>2
  <2>7. QED BY <2>1, <2>4, <2>5, <2>6 DEF AlikeInv
<1>9. ASSUME NEW s \in Svc, ReadData(s) PROVE AlikeInv'
  <2>0. Runs(s) /\ at[s] \in Reading
    BY <1>9 DEF ReadData, In
  <2>1. PICK c \in Client : c = Sock(s) /\ Serves(s, c)
    BY <2>0 DEF Runs, Reading, Sock, Serves, ServerTypeInv, Connected
  <2>2. PICK n \in 1 .. Len(rx[c]) :
          /\ hbuf' = [hbuf EXCEPT ![s] = hbuf[s] \o SubSeq(rx[c], 1, n)]
          /\ rx' = [rx EXCEPT ![c] = SubSeq(@, n + 1, Len(@))]
          /\ chunked' = [chunked EXCEPT ![s] = ChunkedNow(s, hbuf[s] \o SubSeq(rx[c], 1, n))]
          /\ at' = [at EXCEPT ![s] = ReadTo(s, hbuf[s] \o SubSeq(rx[c], 1, n))]
    BY <1>9, <2>1 DEF ReadData
  <2> DEFINE b == hbuf[s] \o SubSeq(rx[c], 1, n)
  <2>3. /\ UNCHANGED <<co, sock, peer, todo, conn>> /\ Runs(s) /\ at[s] \in Reading
    BY <1>9, <2>0 DEF ReadData, vars, objVars
  <2>4. /\ SubSeq(rx[c], 1, n) \in Seq(Token) /\ SubSeq(rx[c], n + 1, Len(rx[c])) \in Seq(Token)
        /\ b \in Seq(Token)
    BY <1>1, <2>1, TokenParts, ConcatProperties
  <2>5. PICK k \in BOOLEAN : Uniform(c, k)
    BY <2>1 DEF AlikeInv
  <2>6. Declares(b, k) /\ Declares(SubSeq(rx[c], n + 1, Len(rx[c])), k)
    <3>1. Declares(rx[c], k) /\ Declares(hbuf[s], k)
      BY <2>1, <2>5 DEF Uniform
    <3>2. Declares(SubSeq(rx[c], 1, n), k) /\ Declares(SubSeq(rx[c], n + 1, Len(rx[c])), k)
      BY <1>1, <2>1, <3>1, DeclaresParts
    <3>3. QED BY <1>1, <2>4, <3>1, <3>2, DeclaresConcat
  <2>7. ChunkedNow(s, b) => k = TRUE
    <3>1. chunked[s] => k = TRUE
      BY <2>1, <2>5 DEF Uniform
    <3>2. QED BY <2>4, <2>6, <3>1, ChunkedNowDeclared
  <2> HIDE DEF b
  <2>8. /\ rx'[c] = SubSeq(rx[c], n + 1, Len(rx[c])) /\ hbuf'[s] = b
        /\ chunked'[s] = ChunkedNow(s, b) /\ at'[s] = ReadTo(s, b)
        /\ \A d \in Client \ {c} : rx'[d] = rx[d]
        /\ \A t \in Svc \ {s} : hbuf'[t] = hbuf[t] /\ chunked'[t] = chunked[t] /\ at'[t] = at[t]
    BY <1>1, <2>1, <2>2 DEF b
  <2>9. \A t \in Svc, d \in Client : Serves(t, d)' => Serves(t, d) /\ (t = s => d = c)
    BY <2>1, <2>3, <2>8 DEF Serves, Reading, Sock
  <2>10. Uniform(c, k)'
    <3>1. Declares(todo'[c], k) /\ Declares(rx'[c], k)
      BY <2>3, <2>5, <2>6, <2>8 DEF Uniform
    <3>2. \A t \in Svc : Serves(t, c)' => Declares(hbuf'[t], k) /\ (chunked'[t] => k = TRUE)
      <4> SUFFICES ASSUME NEW t \in Svc, Serves(t, c)'
                   PROVE  Declares(hbuf'[t], k) /\ (chunked'[t] => k = TRUE)
        OBVIOUS
      <4>1. CASE t = s
        BY <2>6, <2>7, <2>8, <4>1
      <4>2. CASE t # s
        <5>1. Serves(t, c)
          BY <2>1, <2>9
        <5>2. Declares(hbuf[t], k) /\ (chunked[t] => k = TRUE)
          BY <2>5, <5>1 DEF Uniform
        <5>3. QED BY <2>8, <4>2, <5>2
      <4>3. QED BY <4>1, <4>2
    <3>3. QED BY <3>1, <3>2 DEF Uniform, Declares
  <2>11. ASSUME NEW d \in Client \ {c} PROVE \E j \in BOOLEAN : Uniform(d, j)'
    <3>1. PICK j \in BOOLEAN : Uniform(d, j)
      BY DEF AlikeInv
    <3>2. \A t \in Svc : Serves(t, d)' => Serves(t, d) /\ t # s
      BY <2>9
    <3>3. rx'[d] = rx[d] /\ todo'[d] = todo[d]
      BY <2>3, <2>8
    <3>4. Uniform(d, j)'
      BY <2>8, <3>1, <3>2, <3>3 DEF Uniform, Declares
    <3>5. QED BY <3>4
  <2>12. \A d \in Client : \E j \in BOOLEAN : Uniform(d, j)'
    BY <2>10, <2>11
  <2>13. \A d \in Client : peer'[d] = "none" => rx'[d] = <<>>
    <3>1. peer[c] # "none"
      <4>1. c \in Here
        BY <1>1, <2>1, <2>3, ServerAssumption
        DEF ConnInv, ServedAreHere, Sock, IInv, Owned, Heap, Runs, TypeOK
      <4>2. QED BY <4>1 DEF Here
    <3>2. QED BY <2>3, <2>8, <3>1 DEF AlikeInv
  <2>14. \A t \in Svc : co'[t] \in {"free", "new"} => ~chunked'[t]
    BY <2>3, <2>8 DEF AlikeInv, Runs
  <2>15. at'[s] = "chunk" => chunked'[s]
    BY <2>8 DEF ReadTo
  <2>16. \A t \in Svc : at'[t] = "chunk" => chunked'[t] /\ co'[t] \notin {"free", "closed"}
    BY <2>3, <2>8, <2>15 DEF AlikeInv, Runs
  <2>17. QED BY <2>12, <2>13, <2>14, <2>16 DEF AlikeInv
<1>10. ASSUME NEW s \in Svc, EndResponse(s) \/ Delete(s) PROVE AlikeInv'
  <2>1. /\ UNCHANGED <<todo, rx, peer, conn>>
        /\ hbuf'[s] = <<>> /\ (chunked'[s] = chunked[s] \/ ~chunked'[s])
        /\ at[s] # "accept" \/ co'[s] = "free"
        /\ at'[s] # "chunk"
        /\ \A t \in Svc \ {s} : /\ hbuf'[t] = hbuf[t] /\ chunked'[t] = chunked[t]
                                /\ at'[t] = at[t] /\ co'[t] = co[t] /\ sock'[t] = sock[t]
    BY <1>1, <1>10 DEF EndResponse, Switch, In, Delete, Terminate, clientVars
  <2>2. (UNCHANGED <<co, sock>> /\ Runs(s)) \/ (co'[s] = "free" /\ ~chunked'[s])
    BY <1>1, <1>10 DEF EndResponse, Switch, In, Delete, Terminate
  <2>3. \A t \in Svc, d \in Client : Serves(t, d)' => Serves(t, d)
    BY <2>1, <2>2 DEF Serves
  <2>4. ASSUME NEW d \in Client PROVE \E j \in BOOLEAN : Uniform(d, j)'
    <3>1. PICK j \in BOOLEAN : Uniform(d, j)
      BY DEF AlikeInv
    <3>2. \A t \in Svc : Serves(t, d)' => Declares(hbuf'[t], j) /\ (chunked'[t] => j = TRUE)
      <4> SUFFICES ASSUME NEW t \in Svc, Serves(t, d)'
                   PROVE  Declares(hbuf'[t], j) /\ (chunked'[t] => j = TRUE)
        OBVIOUS
      <4>1. Declares(hbuf[t], j) /\ (chunked[t] => j = TRUE)
        BY <2>3, <3>1 DEF Uniform
      <4>2. QED BY <1>2, <2>1, <4>1
    <3>3. Uniform(d, j)'
      BY <2>1, <3>1, <3>2 DEF Uniform, Declares
    <3>4. QED BY <3>3
  <2>5. /\ \A t \in Svc : co'[t] \in {"free", "new"} => ~chunked'[t]
        /\ \A t \in Svc : at'[t] = "chunk" => chunked'[t] /\ co'[t] \notin {"free", "closed"}
    BY <2>1, <2>2 DEF AlikeInv, Runs
  <2>6. QED BY <2>1, <2>4, <2>5 DEF AlikeInv
<1>11. ASSUME NEW s \in Svc, Hangup(s) PROVE AlikeInv'
  <2> DEFINE c == Sock(s)
  <2>1. /\ co[s] = "exiting" /\ co' = [co EXCEPT ![s] = "closed"] /\ at[s] = "exit"
        /\ conn' = [conn EXCEPT ![sock[s]] = NoClient]
        /\ peer' = [peer EXCEPT ![c] = "gone"]
        /\ rx' = [rx EXCEPT ![c] = <<>>] /\ todo' = [todo EXCEPT ![c] = <<>>]
        /\ UNCHANGED <<sock, at, hbuf, chunked>>
    BY <1>11 DEF Hangup, ExitClose, bodyVars, ConnInv, PlacesFit
  <2>2. \A t \in Svc, d \in Client : Serves(t, d)' => Serves(t, d)
    <3> SUFFICES ASSUME NEW t \in Svc, NEW d \in Client, Serves(t, d)' PROVE Serves(t, d)
      OBVIOUS
    <3>1. co'[t] \notin {"free", "closed"} /\ at[t] # "accept" /\ conn'[sock[t]] = d
      BY <2>1 DEF Serves
    <3>2. t # s /\ co[t] \notin {"free", "closed"}
      BY <1>1, <2>1, <3>1
    <3>3. sock[t] \in Fd
      BY <1>1, <3>2 DEF IInv, Owned, TypeOK, Heap
    <3>4. conn[sock[t]] = d
      BY <1>1, <2>1, <3>1, <3>3, ServerAssumption
    <3>5. QED BY <3>1, <3>2, <3>4 DEF Serves
  <2>3. ASSUME NEW d \in Client PROVE \E j \in BOOLEAN : Uniform(d, j)'
    <3>1. PICK j \in BOOLEAN : Uniform(d, j)
      BY DEF AlikeInv
    <3>2. Declares(rx'[d], j) /\ Declares(todo'[d], j)
      <4>1. Declares(rx[d], j) /\ Declares(todo[d], j)
        BY <3>1 DEF Uniform
      <4>2. (rx'[d] = rx[d] \/ rx'[d] = <<>>) /\ (todo'[d] = todo[d] \/ todo'[d] = <<>>)
        BY <1>1, <2>1
      <4>3. QED BY <1>2, <4>1, <4>2
    <3>3. \A t \in Svc : Serves(t, d)' => Declares(hbuf'[t], j) /\ (chunked'[t] => j = TRUE)
      BY <2>1, <2>2, <3>1 DEF Uniform
    <3>4. Uniform(d, j)'
      BY <3>2, <3>3 DEF Uniform, Declares
    <3>5. QED BY <3>4
  <2>4. \A d \in Client : peer'[d] = "none" => rx'[d] = <<>>
    BY <1>1, <2>1 DEF AlikeInv
  <2>5. \A t \in Svc : co'[t] \in {"free", "new"} => co[t] \in {"free", "new"}
    BY <1>1, <2>1
  <2>6. \A t \in Svc : at[t] = "chunk" => t # s /\ co'[t] = co[t]
    BY <1>1, <2>1
  <2>7. QED BY <2>1, <2>3, <2>4, <2>5, <2>6 DEF AlikeInv
<1>12. ASSUME NEW s \in Svc, NEW t \in Svc, NEW f \in Fd, Accept(s, t, f) PROVE AlikeInv'
  <2>1. /\ co[t] = "free" /\ f \notin open
        /\ co' = [co EXCEPT ![t] = "new"] /\ sock' = [sock EXCEPT ![t] = f]
        /\ at' = [at EXCEPT ![t] = "entry"]
        /\ conn' = [conn EXCEPT ![f] = Head(backlog)]
        /\ UNCHANGED <<hbuf, chunked, peer, rx, todo>>
    BY <1>12 DEF Accept, Spawn, Construct
  <2>2. \A u \in Svc : co[u] \notin {"free", "closed"} => sock[u] # f
    BY <1>1, <2>1 DEF IInv, Owned, Heap
  <2>3. \A u \in Svc \ {t}, d \in Client : Serves(u, d)' => Serves(u, d)
    <3> SUFFICES ASSUME NEW u \in Svc \ {t}, NEW d \in Client, Serves(u, d)' PROVE Serves(u, d)
      OBVIOUS
    <3>1. /\ co[u] \notin {"free", "closed"} /\ at[u] # "accept" /\ sock'[u] = sock[u]
          /\ conn'[sock[u]] = d
      BY <1>1, <2>1 DEF Serves
    <3>2. sock[u] # f /\ sock[u] \in Fd
      BY <1>1, <2>2, <3>1 DEF IInv, Owned, TypeOK, Heap
    <3>3. QED BY <1>1, <2>1, <3>1, <3>2 DEF Serves
  <2>4. hbuf[t] = <<>> /\ ~chunked[t]
    BY <2>1 DEF ConnInv, StartsEmpty, AlikeInv
  <2>5. ASSUME NEW d \in Client PROVE \E j \in BOOLEAN : Uniform(d, j)'
    <3>1. PICK j \in BOOLEAN : Uniform(d, j)
      BY DEF AlikeInv
    <3>2. \A u \in Svc : Serves(u, d)' => Declares(hbuf[u], j) /\ (chunked[u] => j = TRUE)
      BY <1>2, <2>3, <2>4, <3>1 DEF Uniform
    <3>3. Uniform(d, j)'
      BY <2>1, <3>1, <3>2 DEF Uniform, Declares
    <3>4. QED BY <3>3
  <2>6. \A u \in Svc : co'[u] \in {"free", "new"} => ~chunked[u]
    BY <1>1, <2>1, <2>4 DEF AlikeInv
  <2>7. \A u \in Svc : at'[u] = "chunk" => u # t /\ at[u] = "chunk" /\ co'[u] = co[u]
    BY <1>1, <2>1
  <2>8. QED BY <2>1, <2>5, <2>6, <2>7 DEF AlikeInv
<1>13. ASSUME NEW c \in Client,
              \/ Connect(c) \/ Finish(c) \/ Reset(c) \/ Drain(c)
              \/ \E n \in DOMAIN todo[c] : Send(c, n)
       PROVE  AlikeInv'
  <2>1. UNCHANGED <<co, sock, at, hbuf, chunked, conn>>
    BY <1>13 DEF Connect, Finish, Reset, Drain, Send, vars, objVars, bodyVars
  <2>2. \A t \in Svc, d \in Client : Serves(t, d)' <=> Serves(t, d)
    BY <2>1 DEF Serves
  <2>3. \A d \in Client \ {c} : rx'[d] = rx[d] /\ todo'[d] = todo[d] /\ peer'[d] = peer[d]
    BY <1>1, <1>13 DEF Connect, Finish, Reset, Drain, Send
  <2>4. ASSUME NEW d \in Client \ {c} PROVE \E j \in BOOLEAN : Uniform(d, j)'
    <3>1. PICK j \in BOOLEAN : Uniform(d, j)
      BY DEF AlikeInv
    <3>2. Uniform(d, j)'
      BY <2>1, <2>2, <2>3, <3>1 DEF Uniform, Declares
    <3>3. QED BY <3>2
  <2>5. \E j \in BOOLEAN : Uniform(c, j)'
    <3>1. CASE Connect(c)
      <4>1. PICK q \in Scripts[c] : todo' = [todo EXCEPT ![c] = q]
        BY <3>1 DEF Connect
      <4>2. todo'[c] = q /\ rx'[c] = <<>> /\ q \in Seq(Token)
        BY <1>1, <3>1, <4>1, ServerAssumption DEF Connect, AlikeInv
      <4>3. \A t \in Svc : ~Serves(t, c)'
        <5>1. peer[c] = "none"
          BY <3>1 DEF Connect
        <5>2. \A f \in Fd : conn[f] # c
          BY <5>1, ServerAssumption DEF ConnInv, ServedAreHere, Here
        <5>3. \A t \in Svc : co[t] \notin {"free", "closed"} => sock[t] \in Fd
          BY <1>1 DEF IInv, Owned, TypeOK, Heap
        <5>4. QED BY <2>2, <5>2, <5>3 DEF Serves
      <4>4. \E j \in BOOLEAN : Declares(q, j)
        <5>1. CASE \E i \in 1 .. Len(q) : q[i].kind = "end"
          <6>1. PICK i \in 1 .. Len(q) : q[i].kind = "end"
            BY <5>1
          <6>2. q[i].chunked \in BOOLEAN
            BY <4>2, <6>1, ElementOfSeq DEF Token
          <6>3. Declares(q, q[i].chunked)
            BY <6>1 DEF Alike, Declares
          <6>4. QED BY <6>2, <6>3
        <5>2. CASE \A i \in 1 .. Len(q) : q[i].kind # "end"
          BY <5>2 DEF Declares
        <5>3. QED BY <5>1, <5>2
      <4>5. PICK j \in BOOLEAN : Declares(q, j)
        BY <4>4
      <4>6. Declares(todo'[c], j) /\ Declares(rx'[c], j)
        BY <1>2, <4>2, <4>5
      <4>7. Uniform(c, j)'
        BY <4>3, <4>6 DEF Uniform, Declares
      <4>8. QED BY <4>7
    <3>2. CASE Finish(c) \/ Reset(c) \/ Drain(c)
      <4>1. PICK j \in BOOLEAN : Uniform(c, j)
        BY DEF AlikeInv
      <4>2. rx'[c] = rx[c] /\ (todo'[c] = todo[c] \/ todo'[c] = <<>>)
        BY <1>1, <3>2 DEF Finish, Reset, Drain
      <4>3. Declares(todo'[c], j) /\ Declares(rx'[c], j)
        <5>1. Declares(todo[c], j) /\ Declares(rx[c], j)
          BY <4>1 DEF Uniform
        <5>2. QED BY <1>2, <4>2, <5>1
      <4>4. \A t \in Svc : Serves(t, c)' => Declares(hbuf'[t], j) /\ (chunked'[t] => j = TRUE)
        BY <2>1, <2>2, <4>1 DEF Uniform
      <4>5. Uniform(c, j)'
        BY <4>3, <4>4 DEF Uniform, Declares
      <4>6. QED BY <4>5
    <3>3. ASSUME NEW n \in DOMAIN todo[c], Send(c, n) PROVE \E j \in BOOLEAN : Uniform(c, j)'
      <4>1. PICK j \in BOOLEAN : Uniform(c, j)
        BY DEF AlikeInv
      <4>2. todo[c] \in Seq(Token) /\ rx[c] \in Seq(Token) /\ n \in 1 .. Len(todo[c])
        BY <1>1, LenProperties
      <4>3. /\ rx'[c] = rx[c] \o SubSeq(todo[c], 1, n)
            /\ todo'[c] = SubSeq(todo[c], n + 1, Len(todo[c]))
        BY <1>1, <3>3 DEF Send
      <4>4. SubSeq(todo[c], 1, n) \in Seq(Token)
        BY <4>2, TokenParts
      <4>5. Declares(SubSeq(todo[c], 1, n), j) /\ Declares(SubSeq(todo[c], n + 1, Len(todo[c])), j)
        BY <4>1, <4>2, DeclaresParts DEF Uniform
      <4>6. Declares(rx[c] \o SubSeq(todo[c], 1, n), j)
        <5>1. Declares(rx[c], j)
          BY <4>1 DEF Uniform
        <5>2. QED BY <4>2, <4>4, <4>5, <5>1, DeclaresConcat
      <4>7. Declares(todo'[c], j) /\ Declares(rx'[c], j)
        BY <4>3, <4>5, <4>6
      <4>8. \A t \in Svc : Serves(t, c)' => Declares(hbuf'[t], j) /\ (chunked'[t] => j = TRUE)
        BY <2>1, <2>2, <4>1 DEF Uniform
      <4>9. Uniform(c, j)'
        BY <4>7, <4>8 DEF Uniform, Declares
      <4>10. QED BY <4>9
    <3>4. QED BY <1>13, <3>1, <3>2, <3>3
  <2>6. peer'[c] = "none" => rx'[c] = <<>>
    <3>1. CASE Connect(c) \/ Finish(c) \/ Reset(c)
      BY <1>1, <3>1 DEF Connect, Finish, Reset
    <3>2. CASE Drain(c)
      BY <3>2 DEF Drain, AlikeInv
    <3>3. CASE \E n \in DOMAIN todo[c] : Send(c, n)
      BY <3>3 DEF Send
    <3>4. QED BY <1>13, <3>1, <3>2, <3>3
  <2>7. QED BY <2>1, <2>3, <2>4, <2>5, <2>6 DEF AlikeInv
<1>14. QED
  BY <1>5, <1>6, <1>7, <1>8, <1>9, <1>10, <1>11, <1>12, <1>13
  DEF ServerNext, Thread, Loop, Coroutine, Waits, Environment

\* chunkedf, which is never cleared, misleads only a client that sends both kinds of
\* body on a connection: for others a body is read as its header declares it.
THEOREM AlikeBodiesAsDeclared == ASSUME Alike PROVE ServerSpec => []ChunkedAsDeclared
<1>1. ServerInit => AlikeInv
  <2> SUFFICES ASSUME ServerInit PROVE AlikeInv
    OBVIOUS
  <2>1. /\ at = [s \in Svc |-> "none"] /\ co = [s \in Svc |-> "free"]
        /\ chunked = [s \in Svc |-> FALSE]
        /\ rx = [c \in Client |-> <<>>] /\ todo = [c \in Client |-> <<>>]
    BY DEF ServerInit, Init
  <2>2. \A s \in Svc, c \in Client : ~Serves(s, c)
    BY <2>1 DEF Serves
  <2>3. \A c \in Client : Uniform(c, TRUE)
    BY <2>1, <2>2 DEF Uniform, Declares
  <2>4. QED BY <2>1, <2>3 DEF AlikeInv
<1>2. /\ ServerInv /\ ServerTypeInv /\ ServerTypeInv' /\ ConnInv /\ ConnInv' /\ AlikeInv
      /\ [ServerNext]_allVars
      => AlikeInv'
  BY AlikeStep
<1>3. ServerTypeInv /\ AlikeInv => ChunkedAsDeclared
  <2> SUFFICES ASSUME ServerTypeInv, AlikeInv, NEW s \in Svc, at[s] = "chunk"
               PROVE  Header(hbuf[s]).chunked
    BY DEF ChunkedAsDeclared
  <2>1. hbuf[s] \in Seq(Token) /\ HasEnd(hbuf[s])
    BY DEF ServerTypeInv, ServerTypeOK, Parsed
  <2>2. PICK c \in Client : Serves(s, c)
    BY DEF AlikeInv, ServerTypeInv, Connected, Serves
  <2>3. PICK k \in BOOLEAN : Uniform(c, k)
    BY DEF AlikeInv
  <2>4. k = TRUE /\ Declares(hbuf[s], k)
    BY <2>2, <2>3 DEF AlikeInv, Uniform
  <2>5. PICK i \in 1 .. Len(hbuf[s]) : Header(hbuf[s]) = hbuf[s][i] /\ hbuf[s][i].kind = "end"
    BY <2>1, HeaderIsEnd
  <2>6. QED BY <2>4, <2>5 DEF Declares
<1>4. QED BY <1>1, <1>2, <1>3, ConnInductive, PTL DEF ServerSpec
===============================================================================
