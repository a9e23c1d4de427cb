------------------------------- MODULE Services --------------------------------
(***************************************************************************)
(* What the Scheduler promises the functions of its Services, whatever     *)
(* lists, hooks and marks it keeps to do so: one runs at a time and until  *)
(* it waits or ends; it is resumed for an event that was reported or for a *)
(* timer that was armed, and for each once; it gets no Timeout but one     *)
(* that was armed in its own life, although it may be where another        *)
(* Service was; and while it lives nobody else has its descriptor.         *)
(***************************************************************************)
EXTENDS Integers

CONSTANTS Svc,      \* where a Service may be
          Fd,       \* descriptors
          Timer, NoTimer,
          Main,     \* the scheduler, when no service runs
          NoFd

VARIABLES running,  \* who runs
          alive,    \* the services there are
          started,  \* those whose function has been entered
          called,   \* those for whom there are events to be told
          holds,    \* the descriptor of each
          owed,     \* how many Timeouts of each timer each may still get
          thrown    \* the timer whose Timeout the running service got, or NoTimer

servicesVars == <<running, alive, started, called, holds, owed, thrown>>

\* Armed once, or not at all if x is NoTimer.
Armed(x) == [y \in Timer |-> IF y = x THEN 1 ELSE 0]

\* Nothing is owed to s beyond this, nor anything else to others.
OwedAtMost(s, most) ==
  /\ \A x \in Timer : owed'[s][x] \in 0 .. most[x]
  /\ \A t \in Svc \ {s} : owed'[t] = owed[t]

ServicesInit ==
  /\ running = Main
  /\ alive = {} /\ started = {} /\ called = {}
  /\ holds = [s \in Svc |-> NoFd]
  /\ owed = [s \in Svc |-> Armed(NoTimer)]
  /\ thrown = NoTimer

Create(t, f, x) ==
  /\ t \notin alive /\ \A s \in alive : holds[s] # f
  /\ alive' = alive \cup {t}
  /\ holds' = [holds EXCEPT ![t] = f]
  /\ owed' = [owed EXCEPT ![t] = Armed(x)]
  /\ UNCHANGED <<running, started, called, thrown>>

\* A running service arms its timer: for a time of its own or for a new one.
Arm(s, x) ==
  /\ running = s
  /\ OwedAtMost(s, [y \in Timer |-> owed[s][y] + Armed(x)[y]])
  /\ UNCHANGED <<running, alive, started, called, holds, thrown>>

\* Events are reported for some, when all have been told of those before.
Report(S) ==
  /\ running = Main
  /\ called = {} /\ S # {} /\ S \subseteq alive
  /\ called' = S
  /\ UNCHANGED <<running, alive, started, holds, owed, thrown>>

\* s is resumed, and gets the Timeout of x unless that is NoTimer: for its
\* events, or because a timer has struck.  One that struck before the function
\* was entered starts it, and is still owed.
Wake(s, x) ==
  /\ running = Main /\ s \in alive
  /\ running' = s
  /\ \/ s \in called /\ called' = called \ {s}
     \/ /\ UNCHANGED called
        /\ \E y \in Timer : owed[s][y] > 0 /\ (x = y \/ s \notin started)
  /\ x # NoTimer => s \in started /\ owed[s][x] > 0
  /\ OwedAtMost(s, [y \in Timer |-> owed[s][y] - Armed(x)[y]])
  /\ started' = started \cup {s}
  /\ thrown' = x
  /\ UNCHANGED <<alive, holds>>

Wait(s) ==
  /\ running = s /\ s \in alive
  /\ running' = Main
  /\ thrown' = NoTimer
  /\ UNCHANGED <<alive, started, called, holds, owed>>

\* The function ends, and with it all that was to come.
Leave(s) ==
  /\ running = s /\ s \in alive
  /\ running' = Main
  /\ alive' = alive \ {s} /\ started' = started \ {s} /\ called' = called \ {s}
  /\ holds' = [holds EXCEPT ![s] = NoFd]
  /\ owed' = [owed EXCEPT ![s] = Armed(NoTimer)]
  /\ thrown' = NoTimer

ServicesNext ==
  \/ \E S \in SUBSET Svc : Report(S)
  \/ \E s \in Svc : \/ Wait(s) \/ Leave(s)
                    \/ \E x \in Timer \cup {NoTimer} :
                         Arm(s, x) \/ Wake(s, x) \/ \E f \in Fd : Create(s, f, x)

ServicesSpec == ServicesInit /\ [][ServicesNext]_servicesVars
===============================================================================
