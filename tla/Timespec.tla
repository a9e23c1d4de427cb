-------------------------------- MODULE Timespec --------------------------------
(***************************************************************************)
(* utility.hpp: comparison and arithmetic of struct timespec, two integers *)
(* that stand for one number of nanoseconds.                               *)
(***************************************************************************)
EXTENDS Integers

CONSTANTS Million,  \* nanoseconds of a millisecond
          Thousand  \* milliseconds of a second

ASSUME TimespecAssumption == Million \in Nat \ {0} /\ Thousand \in Nat \ {0}

Billion == Thousand * Million

Timespec == [sec : Int, nsec : Int]

\* The number it stands for.
Nanosecs(a) == a.sec * Billion + a.nsec

\* What clock_gettime gives, and what += may leave: it carries only what is more
\* than a second.
Normal(a) == a \in Timespec /\ a.nsec \in 0 .. Billion - 1
Almost(a) == a \in Timespec /\ a.nsec \in 0 .. Billion

Equal(a, b) == a.sec = b.sec /\ a.nsec = b.nsec
NotEqual(a, b) == a.sec # b.sec \/ a.nsec # b.nsec
Less(a, b) == a.sec < b.sec \/ (a.sec = b.sec /\ a.nsec < b.nsec)
Greater(a, b) == a.sec > b.sec \/ (a.sec = b.sec /\ a.nsec > b.nsec)
LessEq(a, b) == a.sec <= b.sec /\ (a.sec = b.sec => a.nsec <= b.nsec)
GreaterEq(a, b) == a.sec >= b.sec /\ (a.sec = b.sec => a.nsec >= b.nsec)

\* Mutant of Plus: no carry.
PlusNoCarry(a, b) == [sec |-> a.sec + b.sec, nsec |-> a.nsec + b.nsec]

Plus(a, b) ==
  LET s == a.sec + b.sec
      ns == a.nsec + b.nsec
  IN  IF ns > Billion THEN [sec |-> s + ns \div Billion, nsec |-> ns % Billion]
                      ELSE [sec |-> s, nsec |-> ns]

Minus(a, b) ==
  IF a.nsec < b.nsec
  THEN [sec |-> a.sec - b.sec - 1, nsec |-> a.nsec + Billion - b.nsec]
  ELSE [sec |-> a.sec - b.sec, nsec |-> a.nsec - b.nsec]

Millisecs(a) == a.sec * Thousand + a.nsec \div Million
===============================================================================
