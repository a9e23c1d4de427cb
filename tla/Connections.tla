------------------------------ MODULE Connections ------------------------------
(***************************************************************************)
(* What the server promises its clients, whatever services, descriptors,   *)
(* timers and buffers it keeps to do so: connections are accepted in the   *)
(* order in which they came; what a client sends is read in order and goes *)
(* to its own request only; a connection has one exchange at a time; and a *)
(* response is made to a whole request, unless the client ended in the     *)
(* body of it.  A connection may be given up at any time.                  *)
(***************************************************************************)
EXTENDS Sequences, Naturals

CONSTANTS Client,   \* one connection each
          Headed,   \* what may have been read that holds a whole header
          Whole,    \* what holds a whole request
          Kept      \* what asks to keep the connection for another request

VARIABLES waiting,  \* connections to be accepted, in order
          stage,    \* of each connection: "none" at first, then "waiting",
                    \* "reading" and "answering" in turn, "closing", "over"
          ended,    \* the client will send no more
          unread,   \* what the client has sent and the server not read
          request   \* what has been read of the request that is served

connectionsVars == <<waiting, stage, ended, unread, request>>

MovesTo(c, p) == stage' = [stage EXCEPT ![c] = p]

ConnectionsInit ==
  /\ waiting = <<>>
  /\ stage = [c \in Client |-> "none"]
  /\ ended = [c \in Client |-> FALSE]
  /\ unread = [c \in Client |-> <<>>]
  /\ request = [c \in Client |-> <<>>]

Connects(c) ==
  /\ stage[c] = "none"
  /\ MovesTo(c, "waiting")
  /\ waiting' = Append(waiting, c)
  /\ UNCHANGED <<ended, unread, request>>

\* The client sends something, which comes after what it sent before.
Sends(c) ==
  /\ stage[c] \notin {"none", "over"} /\ ~ended[c]
  /\ Len(unread'[c]) > Len(unread[c])
  /\ SubSeq(unread'[c], 1, Len(unread[c])) = unread[c]
  /\ unread' = [unread EXCEPT ![c] = unread'[c]]
  /\ UNCHANGED <<waiting, stage, ended, request>>

Ends(c) ==
  /\ stage[c] \notin {"none", "over"} /\ ~ended[c]
  /\ ended' = [ended EXCEPT ![c] = TRUE]
  /\ UNCHANGED <<waiting, stage, unread, request>>

Accepts ==
  /\ waiting # <<>>
  /\ stage[Head(waiting)] = "waiting"
  /\ MovesTo(Head(waiting), "reading")
  /\ waiting' = Tail(waiting)
  /\ UNCHANGED <<ended, unread, request>>

\* Something is read.  The request may be answered when it is whole.
Reads(c, n) ==
  /\ stage[c] = "reading"
  /\ request' = [request EXCEPT ![c] = @ \o SubSeq(unread[c], 1, n)]
  /\ unread' = [unread EXCEPT ![c] = SubSeq(@, n + 1, Len(@))]
  /\ \/ MovesTo(c, "reading")
     \/ MovesTo(c, "answering") /\ request'[c] \in Whole
  /\ UNCHANGED <<waiting, ended>>

\* The client ended and all it sent was read: what there is is answered, if the
\* header is.
AnswersRest(c) ==
  /\ stage[c] = "reading"
  /\ ended[c] /\ unread[c] = <<>> /\ request[c] \in Headed
  /\ MovesTo(c, "answering")
  /\ UNCHANGED <<waiting, ended, unread, request>>

\* The response is out: the next request is awaited, or no more.
Answers(c) ==
  /\ stage[c] = "answering"
  /\ \/ MovesTo(c, "closing")
     \/ MovesTo(c, "reading") /\ request[c] \in Kept
  /\ request' = [request EXCEPT ![c] = <<>>]
  /\ UNCHANGED <<waiting, ended, unread>>

GivesUp(c) ==
  /\ stage[c] \in {"reading", "answering"}
  /\ MovesTo(c, "closing")
  /\ UNCHANGED <<waiting, ended, unread, request>>

Closes(c) ==
  /\ stage[c] = "closing"
  /\ MovesTo(c, "over")
  /\ ended' = [ended EXCEPT ![c] = TRUE]
  /\ unread' = [unread EXCEPT ![c] = <<>>]
  /\ request' = [request EXCEPT ![c] = <<>>]
  /\ UNCHANGED waiting

ConnectionsNext ==
  \/ Accepts
  \/ \E c \in Client :
       \/ Connects(c) \/ Sends(c) \/ Ends(c)
       \/ AnswersRest(c) \/ Answers(c) \/ GivesUp(c) \/ Closes(c)
       \/ \E n \in 1 .. Len(unread[c]) : Reads(c, n)

ConnectionsSpec == ConnectionsInit /\ [][ConnectionsNext]_connectionsVars
===============================================================================
