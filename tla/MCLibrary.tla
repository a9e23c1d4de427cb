------------------------------ MODULE MCLibrary -------------------------------
(***************************************************************************)
(* EvTimer, Gzip, Fields and StartUp for TLC: a timer, and functions that  *)
(* are called and run to their end.  They share nothing: a behaviour is    *)
(* that of a timer, or one call, the others having returned.               *)
(***************************************************************************)
EXTENDS EvTimer, Gzip, Fields, StartUp

\* Nothing, whole streams, streams cut short, corrupt or followed by something.
MCJob ==
  {[mode |-> "Compress", given |-> n, len |-> n, once |-> FALSE, corrupt |-> FALSE] : n \in 0 .. 7}
  \cup {[mode |-> "Decompress", given |-> n, len |-> k, once |-> o, corrupt |-> c] :
          n \in 0 .. 7, k \in {5, 7}, o \in BOOLEAN, c \in BOOLEAN}

MCText == UNION {[1 .. n -> {"sp", "semi", "comma", "eq", "nl", "x"}] : n \in 0 .. 5}

\* No more than three addresses, also the same twice and one that does not parse.
MCArgs == UNION {[1 .. n -> {"v4", "v6", "bad"}] : n \in 1 .. 3}

VARIABLE unit  \* the one that runs

GzipReturned == GzipAt("done") /\ job.given = 0 /\ job.mode = "Compress"
FieldsReturned == FieldsInit /\ text = <<>> /\ into = "words"
StartedUp == StartUpInit /\ args = <<"v4">>
TimerUnused == EvTimerInit /\ now.nsec = 0

LibraryInit ==
  \/ unit = "timer" /\ EvTimerInit /\ GzipReturned /\ FieldsReturned /\ StartedUp
  \/ unit = "gzip" /\ TimerUnused /\ GzipInit /\ FieldsReturned /\ StartedUp
  \/ unit = "fields" /\ TimerUnused /\ GzipReturned /\ FieldsInit /\ StartedUp
  \/ unit = "startup" /\ TimerUnused /\ GzipReturned /\ FieldsReturned /\ StartUpInit

LibraryNext ==
  /\ UNCHANGED unit
  /\ \/ /\ unit = "timer" /\ EvTimerNext
        /\ UNCHANGED <<gzipVars, fieldsVars, startUpVars>>
     \/ /\ unit = "gzip" /\ GzipNext
        /\ UNCHANGED <<evtimerVars, fieldsVars, startUpVars>>
     \/ /\ unit = "fields" /\ FieldsNext
        /\ UNCHANGED <<evtimerVars, gzipVars, startUpVars>>
     \/ /\ unit = "startup" /\ StartUpNext
        /\ UNCHANGED <<evtimerVars, gzipVars, fieldsVars>>

LibrarySpec ==
  /\ LibraryInit
  /\ [][LibraryNext]_<<unit, evtimerVars, gzipVars, fieldsVars, startUpVars>>
  /\ WF_gzipVars(GzipNext)
===============================================================================
