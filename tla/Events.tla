-------------------------------- MODULE Events --------------------------------
(***************************************************************************)
(* events.hpp, class Events: the epoll(2) events a service asks for.       *)
(*                                                                         *)
(* A bit mask is the set of its bits, so ^ is symmetric difference, | is   *)
(* union and & ~x is set difference.  The object holds the events it has   *)
(* handed to the scheduler (events) and the bits that differ from what the *)
(* service asked for since (chgs).                                         *)
(***************************************************************************)
CONSTANTS Flag,      \* the event bits the program uses (EPOLLIN, EPOLLOUT, ...)
          ErrFlag,   \* EPOLLERR|EPOLLHUP|EPOLLRDHUP
          Forced     \* EPOLLERR and EPOLLHUP: reported whatever the mask says

ASSUME FlagAssumption ==
  /\ ErrFlag \subseteq Flag
  /\ Forced \subseteq ErrFlag

\* The states of an Events object.
EventsObj == [events : SUBSET Flag, chgs : SUBSET Flag]

\* a ^ b on bit masks.
Xor(a, b) == (a \ b) \cup (b \ a)

\* Events(uint32_t ev=0): Service never passes an argument.
EventsInit == [events |-> {}, chgs |-> {}]

\* ev_events ^ ev_chgs: what sync_ev would hand over now.
Asked(e) == Xor(e.events, e.chgs)

SetEv(e, f) == [e EXCEPT !.chgs = Xor(f, e.events)]

EnableEv(e, f) == [e EXCEPT !.chgs = Xor(Asked(e) \cup f, e.events)]

DisableEv(e, f) == [e EXCEPT !.chgs = Xor(Asked(e) \ f, e.events)]

\* The boolean sync_ev returns: is there anything to apply?
HasChanges(e) == e.chgs # {}

\* sync_ev's effect: the changes are applied, and ev_chgs keeps its value.
SyncEv(e) == [e EXCEPT !.events = Xor(@, e.chgs)]
===============================================================================
