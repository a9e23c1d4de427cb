------------------------------- MODULE TimerSet -------------------------------
(***************************************************************************)
(* What a timer of the Scheduler promises its users, whatever structure it *)
(* is kept in: an object that is armed is called back once, less than one  *)
(* granule before its time or in the first round of expire() that comes a  *)
(* granule after it, or earlier.                                           *)
(***************************************************************************)
EXTENDS Integers

CONSTANTS Obj,         \* the objects that can be armed
          Granularity, \* of the timer
          Delays,      \* delays asked for
          MaxLag       \* how long after a round's clock reading arming goes on

\* Not armed.  Readings of the clock are not negative.
Never == -1

VARIABLES now,       \* the clock
          round,     \* "idle", "expiring", "callback" or "arming"
          upto,      \* the clock reading of the current or last round
          deadline   \* of each object, or Never

timerSetVars == <<now, round, upto, deadline>>

Armed == {o \in Obj : deadline[o] # Never}

TimerSetInit ==
  /\ now \in Nat
  /\ round = "idle"
  /\ upto = now
  /\ deadline = [o \in Obj |-> Never]

Passes ==
  /\ now' = now + 1
  /\ UNCHANGED <<round, upto, deadline>>

Begins ==
  /\ round = "idle"
  /\ round' = "expiring"
  /\ upto' = now
  /\ UNCHANGED <<now, deadline>>

\* An object is called back, at most a granule before its time.
Fires(o) ==
  /\ round = "expiring"
  /\ o \in Armed
  /\ deadline[o] < upto + Granularity
  /\ deadline' = [deadline EXCEPT ![o] = Never]
  /\ round' = "callback"
  /\ UNCHANGED <<now, upto>>

Returns ==
  /\ round = "callback"
  /\ round' = "expiring"
  /\ UNCHANGED <<now, upto, deadline>>

\* The round ends when nothing that is a granule overdue is left.
Ends ==
  /\ round = "expiring"
  /\ \A o \in Armed : upto < deadline[o] + Granularity
  /\ round' = "arming"
  /\ UNCHANGED <<now, upto, deadline>>

Arms(o, ms) ==
  /\ round \in {"callback", "arming"}
  /\ now - upto <= MaxLag
  /\ deadline' = [deadline EXCEPT ![o] = now + ms]
  /\ UNCHANGED <<now, round, upto>>

Sleeps ==
  /\ round = "arming"
  /\ round' = "idle"
  /\ UNCHANGED <<now, upto, deadline>>

TimerSetNext ==
  \/ Passes \/ Begins \/ Returns \/ Ends \/ Sleeps
  \/ \E o \in Obj : Fires(o) \/ \E ms \in Delays : Arms(o, ms)

TimerSetSpec == TimerSetInit /\ [][TimerSetNext]_timerSetVars
===============================================================================
