-------------------------------- MODULE EvTimer --------------------------------
(***************************************************************************)
(* evtimer.hpp on circarray.hpp: a timer as a circular array of lists, one *)
(* for each increment of time from epoch on; utility.cpp's clock; and the  *)
(* rounds in which Scheduler::run uses it: expire(now), whose callbacks    *)
(* resume services, then the dispatching of services.  Services arm        *)
(* timers.                                                                 *)
(*                                                                         *)
(* A list is the set of objects whose slot is its index: all of a list is  *)
(* popped before the array moves on.                                       *)
(***************************************************************************)
EXTENDS Timespec

CONSTANTS
  Obj,           \* the Services
  SecsMax,       \* EvTimer(secs_max, granularity_ms)
  Granularity,
  Delays,        \* time_ms of the calls of insert
  MaxGap,        \* services that callbacks resume arm timers only in rounds that
                 \* begin within this time of the last round's clock reading, in ns
  MaxLag,        \* a round arms timers within this time of its clock reading, in ns
  MaxSecs        \* bound of the clock, in s

ASSUME EvTimerAssumption ==
  /\ SecsMax \in Nat \ {0}
  /\ Granularity \in Nat \ {0}
  /\ Delays \subseteq Nat \ {0}
  /\ MaxGap \in Nat
  /\ MaxLag \in Nat

\* The constructor.  incr.tv_nsec takes all of granularity_ms, not its
\* remainder, so a second or more is counted twice.
Size == (SecsMax * Thousand) \div Granularity + 1
Incr == [sec |-> Granularity \div Thousand, nsec |-> Granularity * Million]

Slots == 0 .. Size - 1
Unlinked == -1

VARIABLES
  now,      \* timeofday()
  epoch,    \* carray[0] begins at this time
  headx,    \* CircArray::headx
  slot,     \* index in CircArray::array of the list with the object, or Unlinked
  round,    \* where run() is: "idle" (waiting), "expiring", "callback" or
            \* "arming" (dispatching services)
  upto,     \* the now that expire() was given
  prompt,   \* history: it came within MaxGap of the one before
  asked,    \* history: the time, in ns, each object in a list was armed for
  aborted   \* CircArray::operator[] has called abort()

evtimerVars == <<now, epoch, headx, slot, round, upto, prompt, asked, aborted>>

\* Mutant of Index: the head is left out.
FromZero(x) == x

\* CircArray::operator[]: where carray[x] is.
Index(x) == (headx + x) % Size

\* CircArray::advance(1).
NextHead == (headx + 1) % Size

\* C++ division of integers, which truncates.
Quot(a, b) == IF a >= 0 THEN a \div b ELSE -((-a) \div b)

\* The clock is at any fraction of a second when the timer is made.
EvTimerInit ==
  /\ now \in [sec : {0}, nsec : 0 .. Billion - 1]
  /\ epoch = now
  /\ headx = 0
  /\ slot = [o \in Obj |-> Unlinked]
  /\ round = "idle"
  /\ upto = now
  /\ prompt = TRUE
  /\ asked = [o \in Obj |-> 0]
  /\ aborted = FALSE

Tick ==
  /\ now.sec < MaxSecs
  /\ now' = IF now.nsec < Billion - 1 THEN [now EXCEPT !.nsec = @ + 1]
                                      ELSE [sec |-> now.sec + 1, nsec |-> 0]
  /\ UNCHANGED <<epoch, headx, slot, round, upto, prompt, asked, aborted>>

\* run() reads the clock when epoll_wait returned, and calls expire.
ExpireBegin ==
  /\ round = "idle"
  /\ round' = "expiring"
  /\ upto' = now
  /\ prompt' = (Nanosecs(now) - Nanosecs(upto) <= MaxGap)
  /\ UNCHANGED <<now, epoch, headx, slot, asked, aborted>>

\* expire pops an object of carray[0] and calls back, which resumes a service.
ExpirePop(o) ==
  /\ round = "expiring"
  /\ LessEq(epoch, upto)
  /\ slot[o] = Index(0)
  /\ slot' = [slot EXCEPT ![o] = Unlinked]
  /\ asked' = [asked EXCEPT ![o] = 0]
  /\ round' = "callback"
  /\ UNCHANGED <<now, epoch, headx, upto, prompt, aborted>>

CallbackEnd ==
  /\ round = "callback"
  /\ round' = "expiring"
  /\ UNCHANGED <<now, epoch, headx, slot, upto, prompt, asked, aborted>>

\* carray[0] is empty: advance(1) and epoch += incr.
ExpireAdvance ==
  /\ round = "expiring"
  /\ LessEq(epoch, upto)
  /\ \A o \in Obj : slot[o] # Index(0)
  /\ headx' = NextHead
  /\ epoch' = Plus(epoch, Incr)
  /\ UNCHANGED <<now, slot, round, upto, prompt, asked, aborted>>

ExpireEnd ==
  /\ round = "expiring"
  /\ ~LessEq(epoch, upto)
  /\ round' = "arming"
  /\ UNCHANGED <<now, epoch, headx, slot, upto, prompt, asked, aborted>>

\* Mutant of Wanted: the epoch is not subtracted.
WantedFromStart(ms) == Quot(Millisecs(now) + ms, Millisecs(Incr))

\* Where insert puts an object that is to fire in ms.
Wanted(ms) == Quot(Millisecs(Minus(now, epoch)) + ms, Millisecs(Incr))
Clamped(x) == IF x > Size THEN Size - 1 ELSE x

\* EvTimer::insert: out of the list the object is in, then into the list of
\* its time; operator[] aborts on an index past the array.
Insert(o, ms) ==
  LET x == Clamped(Wanted(ms)) IN
  /\ round = "arming" \/ (round = "callback" /\ prompt)
  /\ Nanosecs(now) - Nanosecs(upto) <= MaxLag
  /\ IF x \in Slots
     THEN slot' = [slot EXCEPT ![o] = Index(x)] /\ UNCHANGED aborted
     ELSE slot' = [slot EXCEPT ![o] = Unlinked] /\ aborted' = TRUE
  /\ asked' = [asked EXCEPT ![o] = Nanosecs(now) + ms * Million]
  /\ UNCHANGED <<now, epoch, headx, round, upto, prompt>>

RoundEnd ==
  /\ round = "arming"
  /\ round' = "idle"
  /\ UNCHANGED <<now, epoch, headx, slot, upto, prompt, asked, aborted>>

EvTimerNext ==
  /\ ~aborted
  /\ \/ Tick \/ ExpireBegin \/ CallbackEnd \/ ExpireAdvance \/ ExpireEnd
     \/ RoundEnd
     \/ \E o \in Obj : ExpirePop(o) \/ \E ms \in Delays : Insert(o, ms)

EvTimerSpec == EvTimerInit /\ [][EvTimerNext]_evtimerVars
-------------------------------------------------------------------------------
EvTimerTypeOK ==
  /\ Normal(now) /\ Normal(upto) /\ Almost(epoch)
  /\ headx \in Slots
  /\ slot \in [Obj -> Slots \cup {Unlinked}]
  /\ round \in {"idle", "expiring", "callback", "arming"}
  /\ asked \in [Obj -> Nat]
  /\ prompt \in BOOLEAN /\ aborted \in BOOLEAN

\* The lists are a timer as module TimerSet describes it: nothing survives a
\* round that is a granule overdue, and nothing fires a granule early
\* ("Granularity of the timer in milliseconds", scheduler.cpp:248).
Timers == INSTANCE TimerSet WITH
  now <- Nanosecs(now), upto <- Nanosecs(upto),
  Granularity <- Granularity * Million, Delays <- {ms * Million : ms \in Delays},
  deadline <- [o \in Obj |-> IF slot[o] = Unlinked THEN -1 ELSE asked[o]]

ImplementsTimerSet == Timers!TimerSetSpec

\* insert always finds a list: operator[] never aborts.
NeverAborts == ~aborted
===============================================================================
