----------------------------- MODULE EvTimerProofs -----------------------------
(***************************************************************************)
(* What the operators on timespecs compute, for every pair of them that    *)
(* the timers can meet, and for every size and granularity of the timer    *)
(* and every phase of the clock: the indexes stay in the array; and as     *)
(* long as what insert is asked for lies within the range from epoch on,   *)
(* operator[] does not abort and objects fire in their time.               *)
(***************************************************************************)
EXTENDS EvTimer, TLAPS

LEMMA BillionType == Billion \in Nat \ {0} /\ Billion \in Int
<1>1. \A a, b \in Nat \ {0} : a * b \in Nat \ {0}
  OBVIOUS
<1>2. QED BY <1>1, TimespecAssumption DEF Billion

LEMMA DivMod ==
  ASSUME NEW n \in Nat, NEW d \in Nat \ {0}
  PROVE  /\ n \div d \in Nat /\ n % d \in 0 .. d - 1
         /\ n = (n \div d) * d + (n % d)
<1>1. n \div d \in Nat /\ n % d \in 0 .. d - 1
  OBVIOUS
<1>2. n = d * (n \div d) + (n % d)
  OBVIOUS
<1>3. d * (n \div d) = (n \div d) * d
  BY <1>1
<1>4. QED BY <1>1, <1>2, <1>3

\* Seconds count for more than any nanoseconds that do not make a second.
LEMMA SecondsFirst ==
  ASSUME NEW s \in Int, NEW t \in Int, s < t
  PROVE  s * Billion + Billion <= t * Billion
<1>1. (t - s) * Billion >= Billion
  <2>1. \A d \in Nat \ {0}, b \in Nat \ {0} : d * b >= b
    OBVIOUS
  <2>2. t - s \in Nat \ {0}
    OBVIOUS
  <2>3. QED BY <2>1, <2>2, BillionType
<1>2. (t - s) * Billion = t * Billion - s * Billion
  BY BillionType
<1>3. s * Billion \in Int /\ t * Billion \in Int
  BY BillionType
<1>4. QED BY <1>1, <1>2, <1>3, BillionType

\* a += b adds, and leaves a timespec that is normal but for a full second of
\* nanoseconds, which it does not carry.
THEOREM PlusAdds ==
  ASSUME NEW a \in Timespec, NEW b \in Timespec, a.nsec \in Nat, b.nsec \in Nat
  PROVE  /\ Almost(Plus(a, b))
         /\ Nanosecs(Plus(a, b)) = Nanosecs(a) + Nanosecs(b)
<1> DEFINE s == a.sec + b.sec
           ns == a.nsec + b.nsec
<1>1. s \in Int /\ ns \in Nat /\ a.sec \in Int /\ b.sec \in Int
  BY DEF Timespec
<1>2. s * Billion + ns = Nanosecs(a) + Nanosecs(b)
  <2>1. s * Billion = a.sec * Billion + b.sec * Billion
    BY <1>1, BillionType
  <2>2. a.sec * Billion \in Int /\ b.sec * Billion \in Int
    BY <1>1, BillionType
  <2>3. QED BY <1>1, <2>1, <2>2 DEF Nanosecs
<1>3. CASE ns > Billion
  <2>1. PICK q \in Nat, r \in 0 .. Billion - 1 :
               /\ ns = q * Billion + r
               /\ Plus(a, b) = [sec |-> s + q, nsec |-> r]
    <3>1. Plus(a, b) = [sec |-> s + ns \div Billion, nsec |-> ns % Billion]
      BY <1>3 DEF Plus
    <3>2. QED BY <1>1, <3>1, BillionType, DivMod
  <2>2. (s + q) * Billion = s * Billion + q * Billion
    BY <1>1, BillionType
  <2>3. s * Billion \in Int /\ q * Billion \in Int
    BY <1>1, BillionType
  <2>4. Nanosecs(Plus(a, b)) = s * Billion + ns
    BY <1>1, <2>1, <2>2, <2>3 DEF Nanosecs
  <2>5. Almost(Plus(a, b))
    BY <1>1, <2>1, BillionType DEF Almost, Timespec
  <2>6. QED BY <1>2, <2>4, <2>5
<1>4. CASE ~(ns > Billion)
  <2>1. Plus(a, b) = [sec |-> s, nsec |-> ns]
    BY <1>4 DEF Plus
  <2>2. Almost(Plus(a, b))
    BY <1>1, <1>4, <2>1, BillionType DEF Almost, Timespec
  <2>3. QED BY <1>2, <2>1, <2>2 DEF Nanosecs
<1>5. QED BY <1>3, <1>4

\* a -= b subtracts, also when b has the full second.
THEOREM MinusSubtracts ==
  ASSUME NEW a, NEW b, Normal(a), Almost(b)
  PROVE  /\ Normal(Minus(a, b))
         /\ Nanosecs(Minus(a, b)) = Nanosecs(a) - Nanosecs(b)
<1>1. /\ a.sec \in Int /\ b.sec \in Int /\ a.nsec \in 0 .. Billion - 1
      /\ b.nsec \in 0 .. Billion
  BY DEF Normal, Almost, Timespec
<1>2. a.sec * Billion \in Int /\ b.sec * Billion \in Int
  BY <1>1, BillionType
<1>3. /\ (a.sec - b.sec) * Billion = a.sec * Billion - b.sec * Billion
      /\ (a.sec - b.sec - 1) * Billion = a.sec * Billion - b.sec * Billion - Billion
  BY <1>1, BillionType
<1>4. CASE a.nsec < b.nsec
  <2>1. Minus(a, b) = [sec |-> a.sec - b.sec - 1, nsec |-> a.nsec + Billion - b.nsec]
    BY <1>4 DEF Minus
  <2>2. Normal(Minus(a, b))
    BY <1>1, <1>4, <2>1, BillionType DEF Normal, Timespec
  <2>3. QED BY <1>1, <1>2, <1>3, <2>1, <2>2, BillionType DEF Nanosecs
<1>5. CASE ~(a.nsec < b.nsec)
  <2>1. Minus(a, b) = [sec |-> a.sec - b.sec, nsec |-> a.nsec - b.nsec]
    BY <1>5 DEF Minus
  <2>2. Normal(Minus(a, b))
    BY <1>1, <1>5, <2>1, BillionType DEF Normal, Timespec
  <2>3. QED BY <1>1, <1>2, <1>3, <2>1, <2>2, BillionType DEF Nanosecs
<1>6. QED BY <1>4, <1>5

\* a <= b is right when a has been added to and b comes from the clock.
THEOREM LessEqCompares ==
  ASSUME NEW a, NEW b, Almost(a), Normal(b)
  PROVE  LessEq(a, b) <=> Nanosecs(a) <= Nanosecs(b)
<1>1. /\ a.sec \in Int /\ b.sec \in Int /\ a.nsec \in 0 .. Billion
      /\ b.nsec \in 0 .. Billion - 1
  BY DEF Normal, Almost, Timespec
<1>2. a.sec * Billion \in Int /\ b.sec * Billion \in Int
  BY <1>1, BillionType
<1>3. CASE a.sec < b.sec
  <2>1. a.sec * Billion + Billion <= b.sec * Billion
    BY <1>1, <1>3, SecondsFirst
  <2>2. QED BY <1>1, <1>2, <1>3, <2>1, BillionType DEF LessEq, Nanosecs
<1>4. CASE a.sec = b.sec
  BY <1>1, <1>2, <1>4, BillionType DEF LessEq, Nanosecs
<1>5. CASE a.sec > b.sec
  <2>1. b.sec * Billion + Billion <= a.sec * Billion
    BY <1>1, <1>5, SecondsFirst
  <2>2. QED BY <1>1, <1>2, <1>5, <2>1, BillionType DEF LessEq, Nanosecs
<1>6. QED BY <1>1, <1>3, <1>4, <1>5

\* The six comparisons of two clock readings are those of the numbers.
THEOREM ComparisonsAgree ==
  ASSUME NEW a, NEW b, Normal(a), Normal(b)
  PROVE  /\ LessEq(a, b) <=> Nanosecs(a) <= Nanosecs(b)
         /\ GreaterEq(a, b) <=> Nanosecs(a) >= Nanosecs(b)
         /\ Less(a, b) <=> Nanosecs(a) < Nanosecs(b)
         /\ Greater(a, b) <=> Nanosecs(a) > Nanosecs(b)
         /\ Equal(a, b) <=> Nanosecs(a) = Nanosecs(b)
         /\ NotEqual(a, b) <=> Nanosecs(a) # Nanosecs(b)
<1>1. /\ a.sec \in Int /\ b.sec \in Int /\ a.nsec \in 0 .. Billion - 1
      /\ b.nsec \in 0 .. Billion - 1 /\ Almost(a) /\ Almost(b)
  BY BillionType DEF Normal, Almost, Timespec
<1>2. Nanosecs(a) \in Int /\ Nanosecs(b) \in Int
  BY <1>1, BillionType DEF Nanosecs
<1>3. /\ LessEq(a, b) <=> Nanosecs(a) <= Nanosecs(b)
      /\ LessEq(b, a) <=> Nanosecs(b) <= Nanosecs(a)
  BY <1>1, LessEqCompares
<1>4. /\ GreaterEq(a, b) <=> LessEq(b, a)
      /\ Less(a, b) <=> ~LessEq(b, a)
      /\ Greater(a, b) <=> ~LessEq(a, b)
      /\ Equal(a, b) <=> LessEq(a, b) /\ LessEq(b, a)
      /\ NotEqual(a, b) <=> ~Equal(a, b)
  BY <1>1 DEF LessEq, GreaterEq, Less, Greater, Equal, NotEqual
<1>5. QED BY <1>2, <1>3, <1>4

\* Milliseconds are whole ones, rounded down also before the epoch.
THEOREM MillisecsRoundDown ==
  ASSUME NEW a, Normal(a)
  PROVE  /\ Millisecs(a) \in Int
         /\ Millisecs(a) * Million <= Nanosecs(a)
         /\ Nanosecs(a) < Millisecs(a) * Million + Million
<1>1. a.sec \in Int /\ a.nsec \in Nat
  BY BillionType DEF Normal, Timespec
<1>2. PICK q \in Nat, r \in 0 .. Million - 1 :
             /\ a.nsec = q * Million + r
             /\ Millisecs(a) = a.sec * Thousand + q
  <2>1. Millisecs(a) = a.sec * Thousand + a.nsec \div Million
    BY DEF Millisecs
  <2>2. QED BY <1>1, <2>1, TimespecAssumption, DivMod
<1>3. a.sec * Thousand \in Int /\ (a.sec * Thousand) * Million = a.sec * Billion
  BY <1>1, TimespecAssumption DEF Billion
<1>4. Millisecs(a) * Million = (a.sec * Thousand) * Million + q * Million
  BY <1>2, <1>3, TimespecAssumption
<1>5. q * Million \in Int /\ a.sec * Billion \in Int
  BY <1>1, <1>2, BillionType, TimespecAssumption
<1>6. Nanosecs(a) = Millisecs(a) * Million + r
  BY <1>2, <1>3, <1>4, <1>5 DEF Nanosecs
<1>7. Millisecs(a) \in Int /\ Millisecs(a) * Million \in Int
  BY <1>2, <1>3, <1>4, <1>5
<1>8. QED BY <1>2, <1>6, <1>7, TimespecAssumption
-------------------------------------------------------------------------------
\* The time that insert is asked for is within the timer's range from epoch on.
InRange(ms) == Nanosecs(now) - Nanosecs(epoch) + ms * Million < SecsMax * Billion

\* What insert needs, whoever calls it: services that are dispatched, or those that
\* a callback resumes, when epoch may be as far behind as the last round.
InsertsInRange ==
  [][\A o \in Obj, ms \in Delays : Insert(o, ms) => InRange(ms)]_evtimerVars

\* A timer for which insert gets what it needs: the increment is not counted twice,
\* and a delay is within the timer's range together with the time that epoch may be
\* behind the clock: the time since the clock was read, and, where callbacks arm, the
\* time since the round before.
Fits ==
  /\ Granularity < Thousand
  /\ \A ms \in Delays : ms * Million + MaxGap + MaxLag < SecsMax * Billion

EvTimerInv ==
  /\ EvTimerTypeOK
  /\ now.sec >= 0
  /\ Nanosecs(upto) <= Nanosecs(now)
  /\ Nanosecs(epoch) <= Nanosecs(upto) + Nanosecs(Incr)
  /\ round \in {"arming", "idle"} => Nanosecs(upto) <= Nanosecs(epoch)
  /\ prompt => Nanosecs(upto) - Nanosecs(epoch) <= MaxGap

LEMMA IncrType == Incr \in Timespec /\ Incr.nsec \in Nat /\ Incr.sec \in Nat /\ Nanosecs(Incr) \in Nat
<1>1. Granularity * Million \in Nat /\ Granularity \div Thousand \in Nat
  <2>1. \A a, b \in Nat : a * b \in Nat
    OBVIOUS
  <2>2. QED BY <2>1, EvTimerAssumption, TimespecAssumption, DivMod
<1>2. Incr \in Timespec /\ Incr.nsec \in Nat /\ Incr.sec \in Nat
  BY <1>1 DEF Incr, Timespec
<1>3. \A a, b, c \in Nat : a * b + c \in Nat
  OBVIOUS
<1>4. QED BY <1>2, <1>3, BillionType DEF Nanosecs

LEMMA SizeType == Size \in Nat \ {0}
<1>1. SecsMax * Thousand \in Nat
  <2>1. \A a, b \in Nat : a * b \in Nat
    OBVIOUS
  <2>2. QED BY <2>1, EvTimerAssumption, TimespecAssumption
<1>2. (SecsMax * Thousand) \div Granularity \in Nat
  BY <1>1, DivMod, EvTimerAssumption
<1>3. QED BY <1>2 DEF Size

LEMMA NanosecsType ==
  ASSUME NEW a \in Timespec
  PROVE  Nanosecs(a) \in Int
BY BillionType DEF Nanosecs, Timespec

LEMMA ModType ==
  ASSUME NEW k \in Nat
  PROVE  k % Size \in Slots
<1>1. k % Size \in 0 .. Size - 1
  BY SizeType, DivMod
<1>2. QED BY <1>1 DEF Slots

\* The increment, in ns, of a timer that fits.
G == Granularity * Million

LEMMA GType == G \in Nat \ {0}
<1>1. \A a, b \in Nat \ {0} : a * b \in Nat \ {0}
  OBVIOUS
<1>2. QED BY <1>1, EvTimerAssumption, TimespecAssumption DEF G

LEMMA IncrIsG ==
  ASSUME Granularity < Thousand
  PROVE  Nanosecs(Incr) = G /\ Millisecs(Incr) = Granularity
<1>1. Granularity \in Nat \ {0} /\ Million \in Nat \ {0} /\ Thousand \in Nat \ {0}
  BY EvTimerAssumption, TimespecAssumption
<1>2. Incr = [sec |-> 0, nsec |-> G]
  BY <1>1 DEF Incr, G
<1>3. \A a \in Nat, b \in Nat \ {0} : (a * b) \div b = a
  OBVIOUS
<1>4. QED BY <1>1, <1>2, <1>3, GType, BillionType DEF Nanosecs, Millisecs, G

\* insert's index: not negative, within the array if the time is within its range, and
\* that of the list of the object's time.
LEMMA WantedFits ==
  ASSUME EvTimerInv, Granularity < Thousand, NEW ms \in Delays, InRange(ms)
  PROVE  /\ Wanted(ms) \in Slots /\ Clamped(Wanted(ms)) = Wanted(ms)
         /\ Nanosecs(epoch) + Wanted(ms) * G <= Nanosecs(now) + ms * Million + G
         /\ Nanosecs(now) + ms * Million < Nanosecs(epoch) + Wanted(ms) * G + G
<1> DEFINE d == Minus(now, epoch)
           t == Millisecs(d) + ms
<1>1. /\ Normal(now) /\ Almost(epoch) /\ Normal(upto)
      /\ now \in Timespec /\ epoch \in Timespec /\ upto \in Timespec
  BY DEF EvTimerInv, EvTimerTypeOK, Normal, Almost
<1>2. /\ Nanosecs(now) \in Int /\ Nanosecs(epoch) \in Int /\ Nanosecs(upto) \in Int
  BY <1>1, NanosecsType
<1>3. /\ Granularity \in Nat \ {0} /\ Million \in Nat \ {0} /\ Thousand \in Nat \ {0}
      /\ SecsMax \in Nat \ {0} /\ ms \in Nat \ {0}
  BY EvTimerAssumption, TimespecAssumption
<1>4. G \in Nat \ {0} /\ G = Granularity * Million
  BY GType DEF G
<1>5. Nanosecs(Incr) = G /\ Millisecs(Incr) = Granularity
  BY IncrIsG
<1>7. /\ Normal(d) /\ Nanosecs(d) = Nanosecs(now) - Nanosecs(epoch)
      /\ Millisecs(d) \in Int
      /\ Millisecs(d) * Million <= Nanosecs(d)
      /\ Nanosecs(d) < Millisecs(d) * Million + Million
  BY <1>1, MinusSubtracts, MillisecsRoundDown
\* At the earliest the epoch is one increment ahead.
<1>8. t > -Granularity
  <2>1. Nanosecs(d) >= -G
    BY <1>2, <1>4, <1>5, <1>7 DEF EvTimerInv
  <2>2. Millisecs(d) * Million + Million > -G
    <3>1. Nanosecs(d) \in Int /\ Millisecs(d) * Million \in Int
      BY <1>2, <1>3, <1>7
    <3>2. QED BY <1>3, <1>4, <1>7, <2>1, <3>1
  <2>3. (Millisecs(d) + 1 + Granularity) * Million > 0
    <3>1. \A a \in Int, b, c \in Nat : (a + 1 + b) * c = a * c + c + b * c
      OBVIOUS
    <3>2. (Millisecs(d) + 1 + Granularity) * Million
            = Millisecs(d) * Million + Million + Granularity * Million
      BY <1>3, <1>7, <3>1
    <3>3. Millisecs(d) * Million \in Int
      BY <1>3, <1>7
    <3>4. QED BY <1>3, <1>4, <2>2, <3>2, <3>3
  <2>4. \A a \in Int, b \in Nat \ {0} : a * b > 0 => a > 0
    OBVIOUS
  <2>5. Millisecs(d) + 1 + Granularity > 0
    BY <1>3, <1>7, <2>3, <2>4
  <2>6. QED BY <1>3, <1>7, <2>5
<1>9. t < SecsMax * Thousand
  <2>1. Nanosecs(d) + ms * Million < SecsMax * Billion
    BY <1>7 DEF InRange
  <2>3. /\ ms * Million \in Int /\ Millisecs(d) * Million \in Int
        /\ t * Million = Millisecs(d) * Million + ms * Million
    BY <1>3, <1>7
  <2>4. SecsMax * Billion = (SecsMax * Thousand) * Million
    BY <1>3 DEF Billion
  <2>5. t * Million < (SecsMax * Thousand) * Million
    <3>1. (SecsMax * Thousand) * Million \in Int /\ t * Million \in Int /\ Nanosecs(d) \in Int
      BY <1>2, <1>3, <1>7
    <3>2. QED BY <1>3, <1>7, <2>1, <2>3, <2>4, <3>1
  <2>6. \A a, b \in Int, c \in Nat \ {0} : a * c < b * c => a < b
    OBVIOUS
  <2>7. QED BY <1>3, <1>7, <2>5, <2>6
<1>10. Wanted(ms) = IF t >= 0 THEN t \div Granularity ELSE -((-t) \div Granularity)
  BY <1>5 DEF Wanted, Quot
\* The time from the epoch on, in ns, is t in ms, rounded down.
<1>11. /\ t \in Int /\ t * Million \in Int /\ ms * Million \in Int
       /\ t * Million <= Nanosecs(now) - Nanosecs(epoch) + ms * Million
       /\ Nanosecs(now) - Nanosecs(epoch) + ms * Million < t * Million + Million
  <2>1. t * Million = Millisecs(d) * Million + ms * Million
    BY <1>3, <1>7
  <2>2. Millisecs(d) * Million \in Int /\ ms * Million \in Int /\ t * Million \in Int
    BY <1>3, <1>7
  <2>3. QED BY <1>2, <1>3, <1>7, <2>1, <2>2
<1>12. CASE t >= 0
  <2>1. PICK q \in Nat, r \in 0 .. Granularity - 1 : t = q * Granularity + r /\ t \div Granularity = q
    <3>1. t \in Nat
      BY <1>3, <1>7, <1>12
    <3> HIDE DEF t
    <3>2. /\ t \div Granularity \in Nat /\ t % Granularity \in 0 .. Granularity - 1
          /\ t = (t \div Granularity) * Granularity + (t % Granularity)
      BY <1>3, <3>1, DivMod
    <3>3. QED BY <3>2
  <2>2. PICK p \in Nat, u \in 0 .. Granularity - 1 :
          SecsMax * Thousand = p * Granularity + u /\ Size = p + 1
    <3>1. SecsMax * Thousand \in Nat
      BY <1>3
    <3>2. QED BY <1>3, <3>1, DivMod DEF Size
  <2>3. q * Granularity < (p + 1) * Granularity
    <3>1. q * Granularity \in Nat /\ p * Granularity \in Nat
          /\ (p + 1) * Granularity = p * Granularity + Granularity
      BY <1>3
    <3>2. QED BY <1>3, <1>9, <2>1, <2>2, <3>1
  <2>4. \A a, b \in Int, c \in Nat \ {0} : a * c < b * c => a < b
    OBVIOUS
  <2>5. q < p + 1
    BY <1>3, <2>3, <2>4
  <2>6. Wanted(ms) = q
    BY <1>10, <1>12, <2>1
  <2>7. Wanted(ms) \in Slots /\ Clamped(Wanted(ms)) = Wanted(ms)
    BY <2>2, <2>5, <2>6 DEF Clamped, Slots
  <2>8. /\ q * G \in Nat /\ q * G <= t * Million
        /\ t * Million + Million <= q * G + G
    <3> HIDE DEF t
    <3>1. t * Million = q * G + r * Million
      <4>1. \A x1, x2, x3, x4 \in Nat : (x1 * x2 + x3) * x4 = x1 * (x2 * x4) + x3 * x4
        OBVIOUS
      <4>2. r \in Nat
        BY <1>3
      <4>3. QED BY <1>3, <1>4, <2>1, <4>1, <4>2
    <3>2. /\ r * Million \in Nat /\ q * G \in Nat
          /\ r * Million + Million <= Granularity * Million
      <4>1. \A x1, x2, x3 \in Nat : x1 < x2 => x1 * x3 + x3 <= x2 * x3
        <5> SUFFICES ASSUME NEW x1 \in Nat, NEW x2 \in Nat, NEW x3 \in Nat, x1 < x2
                     PROVE  x1 * x3 + x3 <= x2 * x3
          OBVIOUS
        <5>1. (x2 - x1 - 1) * x3 \in Nat
          <6>1. \A y1, y2 \in Nat : y1 * y2 \in Nat
            OBVIOUS
          <6>2. QED BY <6>1
        <5>2. (x2 - x1 - 1) * x3 = x2 * x3 - x1 * x3 - x3
          OBVIOUS
        <5>3. x2 * x3 \in Int /\ x1 * x3 \in Int
          OBVIOUS
        <5>4. QED BY <5>1, <5>2, <5>3
      <4>2. r \in Nat /\ r < Granularity
        BY <1>3
      <4>3. \A x1, x2 \in Nat : x1 * x2 \in Nat
        OBVIOUS
      <4>4. QED BY <1>3, <1>4, <4>1, <4>2, <4>3
    <3>3. QED BY <1>3, <1>4, <1>11, <3>1, <3>2
  <2>9. QED BY <1>2, <1>3, <1>4, <1>11, <2>6, <2>7, <2>8
<1>13. CASE t < 0
  <2>1. (-t) \in Nat /\ (-t) < Granularity
    BY <1>3, <1>7, <1>8, <1>13
  <2>2. \A a \in Nat, b \in Nat \ {0} : a < b => a \div b = 0
    OBVIOUS
  <2>3. Wanted(ms) = 0
    BY <1>3, <1>7, <1>10, <1>13, <2>1, <2>2
  <2>4. Wanted(ms) \in Slots /\ Clamped(Wanted(ms)) = Wanted(ms)
    BY <2>3, SizeType DEF Clamped, Slots
  <2>5. Wanted(ms) * G = 0
    BY <1>4, <2>3
  <2>6. Nanosecs(epoch) <= Nanosecs(now) + G
    BY <1>2, <1>4, <1>5 DEF EvTimerInv
  <2>7. ms * Million >= 0 /\ t * Million + Million <= 0
    <3>1. \A x1, x2 \in Nat : x1 * x2 \in Nat
      OBVIOUS
    <3>2. -t - 1 \in Nat
      BY <1>11, <1>13
    <3>3. (-t - 1) * Million = -(t * Million) - Million
      BY <1>3, <1>11
    <3>4. (-t - 1) * Million \in Nat /\ ms * Million \in Nat
      BY <1>3, <3>1, <3>2
    <3>5. QED BY <1>3, <1>11, <3>3, <3>4
  <2>8. QED BY <1>2, <1>3, <1>4, <1>11, <2>4, <2>5, <2>6, <2>7
<1>14. QED BY <1>11, <1>12, <1>13

LEMMA EvTimerInvInit == EvTimerInit => EvTimerInv
<1> SUFFICES ASSUME EvTimerInit PROVE EvTimerInv
  OBVIOUS
<1>1. Normal(now) /\ Normal(upto) /\ epoch = now /\ upto = now /\ now.sec = 0
  <2>1. /\ now \in Timespec /\ now.nsec \in 0 .. Billion - 1 /\ now.sec = 0
        /\ epoch = now /\ upto = now
    BY BillionType DEF EvTimerInit, Timespec
  <2>2. QED BY <2>1 DEF Normal
<1>2. Almost(epoch) /\ Nanosecs(now) \in Int
  BY <1>1, NanosecsType, BillionType DEF Normal, Almost
<1>3. EvTimerTypeOK
  <2>1. headx \in Slots /\ slot \in [Obj -> Slots \cup {Unlinked}] /\ asked \in [Obj -> Nat]
    BY SizeType DEF EvTimerInit, Slots
  <2>2. round = "idle" /\ prompt \in BOOLEAN /\ aborted \in BOOLEAN
    BY DEF EvTimerInit
  <2>3. QED BY <1>1, <1>2, <2>1, <2>2 DEF EvTimerTypeOK
<1>4. QED BY <1>1, <1>2, <1>3, IncrType, EvTimerAssumption DEF EvTimerInit, EvTimerInv

LEMMA EvTimerInvStep == EvTimerInv /\ [EvTimerNext]_evtimerVars => EvTimerInv'
<1> SUFFICES ASSUME EvTimerInv, [EvTimerNext]_evtimerVars PROVE EvTimerInv'
  OBVIOUS
<1>1. /\ Normal(now) /\ Normal(upto) /\ Almost(epoch) /\ now.sec \in Nat
      /\ now \in Timespec /\ upto \in Timespec /\ epoch \in Timespec
      /\ headx \in Nat
  BY SizeType DEF EvTimerInv, EvTimerTypeOK, Normal, Almost, Timespec, Slots
<1>2. /\ Nanosecs(now) \in Int /\ Nanosecs(upto) \in Int /\ Nanosecs(epoch) \in Int
      /\ Nanosecs(Incr) \in Nat
  BY <1>1, NanosecsType, IncrType
<1>3. LessEq(epoch, upto) <=> Nanosecs(epoch) <= Nanosecs(upto)
  BY <1>1, LessEqCompares
<1>4. CASE Tick
  <2>1. /\ Normal(now') /\ now'.sec >= 0 /\ Nanosecs(now') = Nanosecs(now) + 1
    <3>1. CASE now.nsec < Billion - 1
      <4>1. now' = [now EXCEPT !.nsec = @ + 1]
        BY <1>4, <3>1 DEF Tick
      <4>2. now'.sec = now.sec /\ now'.nsec = now.nsec + 1 /\ now' \in Timespec
        BY <1>1, <4>1 DEF Timespec
      <4>3. now.sec * Billion \in Int
        BY <1>1, BillionType
      <4>4. QED BY <1>1, <3>1, <4>2, <4>3, BillionType DEF Normal, Nanosecs
    <3>2. CASE ~(now.nsec < Billion - 1)
      <4>1. now' = [sec |-> now.sec + 1, nsec |-> 0]
        BY <1>4, <3>2 DEF Tick
      <4>2. now.nsec = Billion - 1
        BY <1>1, <3>2, BillionType DEF Normal
      <4>3. (now.sec + 1) * Billion = now.sec * Billion + Billion /\ now.sec * Billion \in Int
        BY <1>1, BillionType
      <4>4. QED BY <1>1, <4>1, <4>2, <4>3, BillionType DEF Normal, Nanosecs, Timespec
    <3>3. QED BY <3>1, <3>2
  <2>2. UNCHANGED <<epoch, headx, slot, round, upto, prompt, asked, aborted>>
    BY <1>4 DEF Tick
  <2>3. QED BY <1>2, <2>1, <2>2 DEF EvTimerInv, EvTimerTypeOK, Nanosecs
<1>5. CASE ExpireBegin
  <2>1. /\ upto' = now /\ round = "idle" /\ round' = "expiring"
        /\ prompt' = (Nanosecs(now) - Nanosecs(upto) <= MaxGap)
        /\ UNCHANGED <<now, epoch, headx, slot, asked, aborted>>
    BY <1>5 DEF ExpireBegin
  <2>2. prompt' => Nanosecs(upto') - Nanosecs(epoch') <= MaxGap
    <3>1. Nanosecs(upto) <= Nanosecs(epoch)
      BY <2>1 DEF EvTimerInv
    <3>2. MaxGap \in Nat /\ Nanosecs(upto') = Nanosecs(now) /\ Nanosecs(epoch') = Nanosecs(epoch)
      BY <2>1, EvTimerAssumption DEF Nanosecs
    <3>3. prompt' => Nanosecs(now) - Nanosecs(upto) <= MaxGap
      BY <2>1, Zenon
    <3>4. Nanosecs(now) - Nanosecs(upto) <= MaxGap => Nanosecs(now) - Nanosecs(epoch) <= MaxGap
      BY <1>2, <3>1, <3>2
    <3>5. QED BY <3>2, <3>3, <3>4, Zenon
  <2>3. prompt' \in BOOLEAN
    BY <2>1
  <2>4. QED BY <1>1, <1>2, <2>1, <2>2, <2>3 DEF EvTimerInv, EvTimerTypeOK, Nanosecs
<1>6. ASSUME NEW o \in Obj, ExpirePop(o) PROVE EvTimerInv'
  <2>1. asked' \in [Obj -> Nat] /\ slot' \in [Obj -> Slots \cup {Unlinked}]
    BY <1>6 DEF ExpirePop, EvTimerInv, EvTimerTypeOK
  <2>2. QED BY <1>6, <2>1 DEF ExpirePop, EvTimerInv, EvTimerTypeOK, Nanosecs
<1>7. CASE CallbackEnd
  BY <1>7 DEF CallbackEnd, EvTimerInv, EvTimerTypeOK, Nanosecs
<1>8. CASE ExpireAdvance
  <2>1. /\ Nanosecs(epoch) <= Nanosecs(upto) /\ round = "expiring"
        /\ headx' = NextHead /\ epoch' = Plus(epoch, Incr)
        /\ UNCHANGED <<now, slot, round, upto, prompt, asked, aborted>>
    BY <1>3, <1>8 DEF ExpireAdvance
  <2>2. Almost(epoch') /\ Nanosecs(epoch') = Nanosecs(epoch) + Nanosecs(Incr)
    BY <1>1, <2>1, IncrType, PlusAdds, BillionType DEF Almost
  <2>3. headx' \in Slots
    BY <1>1, <2>1, ModType DEF NextHead
  <2>4. prompt' => Nanosecs(upto') - Nanosecs(epoch') <= MaxGap
    BY <1>2, <2>1, <2>2, EvTimerAssumption DEF EvTimerInv
  <2>5. QED BY <1>2, <2>1, <2>2, <2>3, <2>4 DEF EvTimerInv, EvTimerTypeOK, Nanosecs
<1>9. CASE ExpireEnd
  <2>1. ~(Nanosecs(epoch) <= Nanosecs(upto))
    BY <1>3, <1>9 DEF ExpireEnd
  <2>2. QED BY <1>2, <1>9, <2>1 DEF ExpireEnd, EvTimerInv, EvTimerTypeOK, Nanosecs
<1>10. ASSUME NEW o \in Obj, NEW ms \in Delays, Insert(o, ms) PROVE EvTimerInv'
  <2> DEFINE y == Clamped(Wanted(ms))
  <2>1. /\ IF y \in Slots
           THEN slot' = [slot EXCEPT ![o] = Index(y)] /\ UNCHANGED aborted
           ELSE slot' = [slot EXCEPT ![o] = Unlinked] /\ aborted' = TRUE
        /\ asked' = [asked EXCEPT ![o] = Nanosecs(now) + ms * Million]
        /\ UNCHANGED <<now, epoch, headx, round, upto, prompt>>
        /\ Nanosecs(now) - Nanosecs(upto) <= MaxLag
    BY <1>10 DEF Insert
  <2> HIDE DEF y
  <2>3. y \in Slots => Index(y) \in Slots
    <3>1. y \in Slots => headx + y \in Nat
      BY <1>1, SizeType DEF Slots
    <3>2. QED BY <3>1, ModType DEF Index
  <2>4. slot' \in [Obj -> Slots \cup {Unlinked}] /\ aborted' \in BOOLEAN
    BY <2>1, <2>3 DEF EvTimerInv, EvTimerTypeOK
  <2>5. asked' \in [Obj -> Nat]
    <3>1. Nanosecs(now) + ms * Million \in Nat
      <4>1. \A a, b, c \in Nat : a * b + c \in Nat /\ a * b \in Nat
        OBVIOUS
      <4>2. ms \in Nat /\ now.nsec \in Nat
        BY <1>1, EvTimerAssumption, BillionType DEF Normal
      <4>3. Nanosecs(now) \in Nat /\ ms * Million \in Nat
        BY <1>1, <4>1, <4>2, BillionType, TimespecAssumption DEF Nanosecs
      <4>4. QED BY <4>3
    <3>2. QED BY <2>1, <3>1 DEF EvTimerInv, EvTimerTypeOK
  <2>6. QED BY <2>1, <2>4, <2>5 DEF EvTimerInv, EvTimerTypeOK, Nanosecs
<1>11. CASE RoundEnd
  BY <1>11 DEF RoundEnd, EvTimerInv, EvTimerTypeOK, Nanosecs
<1>12. CASE UNCHANGED evtimerVars
  BY <1>12 DEF evtimerVars, EvTimerInv, EvTimerTypeOK, Nanosecs
<1>13. QED
  BY <1>4, <1>5, <1>6, <1>7, <1>8, <1>9, <1>10, <1>11, <1>12 DEF EvTimerNext

\* The head and every slot are indexes of the array, and epoch and the clock
\* readings are timespecs that the comparisons and differences get right.
THEOREM TimerTypeCorrect == EvTimerSpec => []EvTimerTypeOK
<1>1. EvTimerInv => EvTimerTypeOK
  BY DEF EvTimerInv
<1>2. QED BY <1>1, EvTimerInvInit, EvTimerInvStep, PTL DEF EvTimerSpec

\* insert finds a list for a time in range.
LEMMA InsertFinds ==
  ASSUME EvTimerInv, Granularity < Thousand, NEW o \in Obj, NEW ms \in Delays,
         Insert(o, ms), InRange(ms)
  PROVE  slot' = [slot EXCEPT ![o] = Index(Wanted(ms))] /\ UNCHANGED aborted
BY WantedFits DEF Insert

LEMMA NeverAbortsStep ==
  ASSUME Granularity < Thousand, EvTimerInv, NeverAborts, [EvTimerNext]_evtimerVars,
         \A o \in Obj, ms \in Delays : Insert(o, ms) => InRange(ms)
  PROVE  NeverAborts'
<1>1. ASSUME NEW o \in Obj, NEW ms \in Delays, Insert(o, ms) PROVE NeverAborts'
  BY <1>1, InsertFinds DEF NeverAborts
<1>2. QED
  BY <1>1 DEF EvTimerNext, evtimerVars, NeverAborts, Tick, ExpireBegin, ExpirePop,
              CallbackEnd, ExpireAdvance, ExpireEnd, RoundEnd

\* Services ask a timer that fits for times in its range, those that callbacks resume
\* as well as those that are dispatched.
LEMMA FitsInRange ==
  ASSUME Fits, EvTimerInv, NEW o \in Obj, NEW ms \in Delays, Insert(o, ms)
  PROVE  InRange(ms)
<1>1. /\ Nanosecs(now) - Nanosecs(upto) <= MaxLag
      /\ ms * Million + MaxGap + MaxLag < SecsMax * Billion
  BY DEF Fits, Insert
<1>2. /\ Nanosecs(now) \in Int /\ Nanosecs(upto) \in Int /\ Nanosecs(epoch) \in Int
  BY NanosecsType DEF EvTimerInv, EvTimerTypeOK, Normal, Almost
<1>3. /\ ms * Million \in Int /\ SecsMax * Billion \in Int
      /\ MaxLag \in Nat /\ MaxGap \in Nat
  BY EvTimerAssumption, TimespecAssumption, BillionType
<1>4. Nanosecs(upto) - Nanosecs(epoch) <= MaxGap
  <2>1. CASE round = "arming"
    BY <1>2, <1>3, <2>1 DEF EvTimerInv
  <2>2. CASE round = "callback" /\ prompt
    BY <2>2 DEF EvTimerInv
  <2>3. QED BY <2>1, <2>2 DEF Insert
<1>5. QED BY <1>1, <1>2, <1>3, <1>4 DEF InRange

\* operator[] does not abort in insert, if what it is asked for is in range.
THEOREM InRangeNeverAborts ==
  ASSUME Granularity < Thousand
  PROVE  EvTimerSpec /\ InsertsInRange => []NeverAborts
<1>1. EvTimerInit => EvTimerInv /\ NeverAborts
  BY EvTimerInvInit DEF EvTimerInit, NeverAborts
<1>2. EvTimerInv /\ [EvTimerNext]_evtimerVars => EvTimerInv'
  BY EvTimerInvStep
<1>3. /\ EvTimerInv /\ NeverAborts /\ [EvTimerNext]_evtimerVars
      /\ [\A o \in Obj, ms \in Delays : Insert(o, ms) => InRange(ms)]_evtimerVars
      => NeverAborts'
  <2>1. UNCHANGED evtimerVars /\ NeverAborts => NeverAborts'
    BY DEF evtimerVars, NeverAborts
  <2>2. QED BY <2>1, NeverAbortsStep
<1>4. QED BY <1>1, <1>2, <1>3, PTL DEF EvTimerSpec, InsertsInRange

\* What services ask of a timer that fits is in range.
LEMMA FittingTimerInRange == ASSUME Fits PROVE EvTimerSpec => InsertsInRange
<1>1. EvTimerInv => [\A o \in Obj, ms \in Delays : Insert(o, ms) => InRange(ms)]_evtimerVars
  BY FitsInRange
<1>2. QED BY <1>1, EvTimerInvInit, EvTimerInvStep, PTL DEF EvTimerSpec, InsertsInRange

\* operator[] does not abort in insert, also where a callback resumes a service that
\* arms (scheduler.cpp:112, server.cpp:192), if the timer's range covers a delay with
\* the time between two rounds and that of a round.
THEOREM FittingTimerNeverAborts == ASSUME Fits PROVE EvTimerSpec => []NeverAborts
<1>1. Granularity < Thousand
  BY DEF Fits
<1>2. QED BY <1>1, FittingTimerInRange, InRangeNeverAborts, PTL
-------------------------------------------------------------------------------
\* An object that is armed is in the list k increments ahead of the epoch: its
\* time is before the end of that list's time, and not an increment and more
\* before its start.
Placed(o, k) ==
  /\ slot[o] = Index(k)
  /\ Nanosecs(epoch) + k * G <= asked[o] + G
  /\ asked[o] < Nanosecs(epoch) + k * G + G

PlacedInv == \A o \in Obj : slot[o] # Unlinked => \E k \in Slots : Placed(o, k)

\* The array goes around once.
LEMMA Around ==
  ASSUME NEW h \in Slots, NEW k \in Slots
  PROVE  (h + k) % Size = IF h + k < Size THEN h + k ELSE h + k - Size
<1>1. \A a, b \in Nat, n \in Nat \ {0} : a + b < n => (a + b) % n = a + b
  OBVIOUS
<1>2. \A a, b \in Nat, n \in Nat \ {0} :
        n <= a + b /\ a + b < n + n => (a + b) % n = a + b - n
  OBVIOUS
<1>3. Size \in Nat \ {0} /\ h \in 0 .. Size - 1 /\ k \in 0 .. Size - 1
  BY SizeType DEF Slots
<1>4. h \in Nat /\ k \in Nat /\ h + k < Size + Size
  BY <1>3
<1>5. CASE h + k < Size
  BY <1>1, <1>3, <1>4, <1>5
<1>6. CASE ~(h + k < Size)
  <2>1. Size <= h + k
    BY <1>3, <1>4, <1>6
  <2>2. (h + k) % Size = h + k - Size
    BY <1>2, <1>3, <1>4, <2>1
  <2>3. QED BY <1>6, <2>2
<1>7. QED BY <1>5, <1>6

LEMMA PlacedInvStep ==
  ASSUME Granularity < Thousand, EvTimerInv, PlacedInv, [EvTimerNext]_evtimerVars,
         \A o \in Obj, ms \in Delays : Insert(o, ms) => InRange(ms)
  PROVE  PlacedInv'
<1>1. /\ headx \in Slots /\ Nanosecs(epoch) \in Int /\ asked \in [Obj -> Nat]
      /\ slot \in [Obj -> Slots \cup {Unlinked}] /\ epoch \in Timespec
      /\ \A k \in Slots : k * G \in Nat
  <2>1. epoch \in Timespec
    BY DEF EvTimerInv, EvTimerTypeOK, Almost
  <2>2. \A k \in Slots : k * G \in Nat
    <3>1. \A a, b \in Nat : a * b \in Nat
      OBVIOUS
    <3>2. QED BY <3>1, GType, SizeType DEF Slots
  <2>3. QED BY <2>1, <2>2, NanosecsType DEF EvTimerInv, EvTimerTypeOK
<1>2. Size \in Nat \ {0} /\ Slots = 0 .. Size - 1 /\ G \in Nat \ {0}
  BY SizeType, GType DEF Slots
<1>3. ASSUME UNCHANGED <<epoch, headx, slot, asked>> PROVE PlacedInv'
  BY <1>3 DEF PlacedInv, Placed, Index, Nanosecs
<1>4. ASSUME NEW p \in Obj, ExpirePop(p) PROVE PlacedInv'
  <2>1. /\ slot' = [slot EXCEPT ![p] = Unlinked] /\ asked' = [asked EXCEPT ![p] = 0]
        /\ UNCHANGED <<epoch, headx>>
    BY <1>4 DEF ExpirePop
  <2>2. ASSUME NEW o \in Obj, slot'[o] # Unlinked PROVE \E k \in Slots : Placed(o, k)'
    <3>1. slot'[o] = slot[o] /\ asked'[o] = asked[o] /\ slot[o] # Unlinked
      BY <1>1, <2>1, <2>2
    <3>2. PICK k \in Slots : Placed(o, k)
      BY <3>1 DEF PlacedInv
    <3>3. Placed(o, k)'
      BY <2>1, <3>1, <3>2 DEF Placed, Index, Nanosecs
    <3>4. QED BY <3>3
  <2>3. QED BY <2>2 DEF PlacedInv
<1>5. CASE ExpireAdvance
  <2>1. /\ \A o \in Obj : slot[o] # Index(0)
        /\ headx' = NextHead /\ epoch' = Plus(epoch, Incr)
        /\ UNCHANGED <<slot, asked>>
    BY <1>5 DEF ExpireAdvance
  <2>2. Nanosecs(epoch') = Nanosecs(epoch) + G
    <3>1. epoch.nsec \in Nat
      BY BillionType DEF EvTimerInv, EvTimerTypeOK, Almost
    <3>2. QED BY <1>1, <2>1, <3>1, IncrType, IncrIsG, PlusAdds
  <2>3. headx' = (IF headx + 1 < Size THEN headx + 1 ELSE headx + 1 - Size) /\ headx' \in Slots
    <3>1. CASE Size = 1
      BY <1>1, <1>2, <2>1, <3>1, ModType DEF NextHead
    <3>2. CASE Size # 1
      <4>1. 1 \in Slots
        BY <1>2, <3>2
      <4>2. QED BY <1>1, <1>2, <2>1, <4>1, Around DEF NextHead
    <3>3. QED BY <3>1, <3>2
  <2>4. ASSUME NEW o \in Obj, slot'[o] # Unlinked PROVE \E k \in Slots : Placed(o, k)'
    <3>1. PICK k \in Slots : Placed(o, k)
      BY <2>1, <2>4 DEF PlacedInv
    <3>2. k # 0
      BY <2>1, <3>1 DEF Placed
    <3>3. k - 1 \in Slots /\ k \in Nat
      BY <1>2, <3>2
    <3>4. (headx' + (k - 1)) % Size = (headx + k) % Size
      <4>1. /\ (headx' + (k - 1)) % Size =
                  IF headx' + (k - 1) < Size THEN headx' + (k - 1) ELSE headx' + (k - 1) - Size
            /\ (headx + k) % Size = IF headx + k < Size THEN headx + k ELSE headx + k - Size
        BY <1>1, <2>3, <3>3, Around
      <4>2. headx \in 0 .. Size - 1 /\ k \in 1 .. Size - 1
        BY <1>1, <1>2, <3>2
      <4>3. QED BY <1>2, <2>3, <4>1, <4>2
    <3>5. (k - 1) * G = k * G - G
      BY <1>2, <3>3
    <3>6. Placed(o, k - 1)'
      <4>1. /\ slot'[o] = (headx + k) % Size
            /\ Nanosecs(epoch) + k * G <= asked[o] + G
            /\ asked[o] < Nanosecs(epoch) + k * G + G
        BY <2>1, <3>1 DEF Placed, Index
      <4>2. slot'[o] = (headx' + (k - 1)) % Size
        BY <3>4, <4>1
      <4>3. k * G \in Nat /\ asked[o] \in Nat /\ asked' = asked
        BY <1>1, <2>1
      <4>4. /\ Nanosecs(epoch') + (k - 1) * G <= asked'[o] + G
            /\ asked'[o] < Nanosecs(epoch') + (k - 1) * G + G
        BY <1>1, <1>2, <2>2, <3>5, <4>1, <4>3
      <4>5. QED BY <4>2, <4>4 DEF Placed, Index, Nanosecs
    <3>7. QED BY <3>3, <3>6
  <2>5. QED BY <2>4 DEF PlacedInv
<1>6. ASSUME NEW p \in Obj, NEW ms \in Delays, Insert(p, ms) PROVE PlacedInv'
  <2>1. /\ InRange(ms)
        /\ asked' = [asked EXCEPT ![p] = Nanosecs(now) + ms * Million]
        /\ UNCHANGED <<epoch, headx>>
    BY <1>6 DEF Insert
  <2>2. /\ Wanted(ms) \in Slots /\ Clamped(Wanted(ms)) = Wanted(ms)
        /\ Nanosecs(epoch) + Wanted(ms) * G <= Nanosecs(now) + ms * Million + G
        /\ Nanosecs(now) + ms * Million < Nanosecs(epoch) + Wanted(ms) * G + G
    BY <2>1, WantedFits
  <2>3. slot' = [slot EXCEPT ![p] = Index(Wanted(ms))]
    BY <1>6, <2>1, InsertFinds
  <2>4. ASSUME NEW o \in Obj, slot'[o] # Unlinked PROVE \E k \in Slots : Placed(o, k)'
    <3>1. CASE o = p
      <4>1. /\ slot'[p] = Index(Wanted(ms)) /\ asked'[p] = Nanosecs(now) + ms * Million
        BY <1>1, <2>1, <2>3
      <4>2. PICK k \in Slots : k = Wanted(ms)
        BY <2>2
      <4>3. /\ slot'[p] = Index(k)
            /\ Nanosecs(epoch) + k * G <= asked'[p] + G
            /\ asked'[p] < Nanosecs(epoch) + k * G + G
        BY <2>2, <4>1, <4>2
      <4>4. Placed(p, k)'
        BY <2>1, <4>3 DEF Placed, Index, Nanosecs
      <4>5. QED BY <3>1, <4>4
    <3>2. CASE o # p
      <4>1. slot'[o] = slot[o] /\ asked'[o] = asked[o]
        BY <1>1, <2>1, <2>3, <3>2
      <4>2. PICK k \in Slots : Placed(o, k)
        BY <2>4, <4>1 DEF PlacedInv
      <4>3. Placed(o, k)'
        BY <2>1, <4>1, <4>2 DEF Placed, Index, Nanosecs
      <4>4. QED BY <4>3
    <3>3. QED BY <3>1, <3>2
  <2>5. QED BY <2>4 DEF PlacedInv
<1>7. CASE UNCHANGED evtimerVars
  BY <1>3, <1>7 DEF evtimerVars
<1>8. QED
  BY <1>3, <1>4, <1>5, <1>6, <1>7
  DEF EvTimerNext, Tick, ExpireBegin, CallbackEnd, ExpireEnd, RoundEnd

LEMMA PlacedInvInit == EvTimerInit => PlacedInv
BY DEF EvTimerInit, PlacedInv

LEMMA TimerSetInit == EvTimerInit => Timers!TimerSetInit
<1> SUFFICES ASSUME EvTimerInit PROVE Timers!TimerSetInit
  OBVIOUS
<1>1. now.sec = 0 /\ now.nsec \in Nat
  BY BillionType DEF EvTimerInit
<1>2. Nanosecs(now) \in Nat
  BY <1>1, BillionType DEF Nanosecs
<1>3. QED BY <1>2 DEF EvTimerInit, Timers!TimerSetInit, Timers!Never

\* An object in the first list is due within an increment of the epoch.
LEMMA HeadIsDue ==
  ASSUME EvTimerInv, PlacedInv, NEW o \in Obj, slot[o] = Index(0)
  PROVE  slot[o] # Unlinked /\ asked[o] < Nanosecs(epoch) + G
<1>1. headx \in Slots /\ Size \in Nat \ {0} /\ Slots = 0 .. Size - 1 /\ 0 \in Slots
  BY SizeType DEF EvTimerInv, EvTimerTypeOK, Slots
<1>2. slot[o] \in Slots /\ slot[o] # Unlinked
  <2>1. headx + 0 \in Nat
    BY <1>1
  <2>2. Index(0) \in Slots
    BY <2>1, ModType DEF Index
  <2>3. QED BY <1>1, <2>2 DEF Unlinked
<1>3. PICK k \in Slots : Placed(o, k)
  BY <1>2 DEF PlacedInv
<1>4. k = 0
  <2>1. (headx + k) % Size = (headx + 0) % Size
    BY <1>3 DEF Placed, Index
  <2>2. /\ (headx + k) % Size = IF headx + k < Size THEN headx + k ELSE headx + k - Size
        /\ (headx + 0) % Size = IF headx + 0 < Size THEN headx + 0 ELSE headx + 0 - Size
    BY <1>1, Around
  <2>3. QED BY <1>1, <2>1, <2>2
<1>5. k * G = 0
  BY <1>4, GType
<1>6. epoch \in Timespec
  BY DEF EvTimerInv, EvTimerTypeOK, Almost
<1>7. Nanosecs(epoch) \in Int
  BY <1>6, NanosecsType
<1>8. QED BY <1>2, <1>3, <1>5, <1>7, GType DEF Placed

\* Nothing that is armed is an increment before the epoch.
LEMMA NoneIsOverdue ==
  ASSUME EvTimerInv, PlacedInv, NEW o \in Obj, slot[o] # Unlinked
  PROVE  Nanosecs(epoch) <= asked[o] + G
<1>1. PICK k \in Slots : Placed(o, k)
  BY DEF PlacedInv
<1>2. k * G \in Nat
  <2>1. \A a, b \in Nat : a * b \in Nat
    OBVIOUS
  <2>2. QED BY <2>1, GType, SizeType DEF Slots
<1>3. epoch \in Timespec /\ asked[o] \in Nat
  BY DEF EvTimerInv, EvTimerTypeOK, Almost
<1>4. Nanosecs(epoch) \in Int
  BY <1>3, NanosecsType
<1>5. QED BY <1>1, <1>2, <1>3, <1>4, GType DEF Placed

LEMMA TimerSetStep ==
  ASSUME Granularity < Thousand, EvTimerInv, PlacedInv, [EvTimerNext]_evtimerVars,
         \A o \in Obj, ms \in Delays : Insert(o, ms) => InRange(ms)
  PROVE  [Timers!TimerSetNext]_(Timers!timerSetVars)
<1> DEFINE due == [o \in Obj |-> IF slot[o] = Unlinked THEN -1 ELSE asked[o]]
<1>1. /\ now \in Timespec /\ upto \in Timespec /\ epoch \in Timespec
      /\ Normal(now) /\ Normal(upto) /\ Almost(epoch)
      /\ asked \in [Obj -> Nat] /\ slot \in [Obj -> Slots \cup {Unlinked}]
  BY DEF EvTimerInv, EvTimerTypeOK, Normal, Almost
<1>2. /\ Nanosecs(now) \in Int /\ Nanosecs(upto) \in Int /\ Nanosecs(epoch) \in Int
      /\ G \in Nat \ {0}
  BY <1>1, NanosecsType, GType
<1>3. LessEq(epoch, upto) <=> Nanosecs(epoch) <= Nanosecs(upto)
  BY <1>1, LessEqCompares
<1>4. CASE Tick
  <2>1. Nanosecs(now)' = Nanosecs(now) + 1
    <3>1. now' = IF now.nsec < Billion - 1 THEN [now EXCEPT !.nsec = @ + 1]
                                           ELSE [sec |-> now.sec + 1, nsec |-> 0]
      BY <1>4 DEF Tick
    <3>2. /\ now.sec \in Int /\ now.nsec \in 0 .. Billion - 1
          /\ (now.sec + 1) * Billion = now.sec * Billion + Billion
          /\ now.sec * Billion \in Int
      BY <1>1, BillionType DEF Normal, Timespec
    <3>3. CASE now.nsec < Billion - 1
      BY <1>1, <3>1, <3>2, <3>3, BillionType DEF Nanosecs, Timespec
    <3>4. CASE ~(now.nsec < Billion - 1)
      BY <1>1, <3>1, <3>2, <3>4, BillionType DEF Nanosecs, Timespec
    <3>5. QED BY <3>3, <3>4
  <2>2. UNCHANGED <<slot, round, upto, asked>>
    BY <1>4 DEF Tick
  <2>3. Timers!Passes
    BY <2>1, <2>2 DEF Timers!Passes, Nanosecs
  <2>4. QED BY <2>3 DEF Timers!TimerSetNext
<1>5. CASE ExpireBegin
  BY <1>5 DEF ExpireBegin, Timers!Begins, Timers!TimerSetNext, Nanosecs
<1>6. ASSUME NEW o \in Obj, ExpirePop(o) PROVE Timers!TimerSetNext
  <2>1. /\ round = "expiring" /\ slot[o] = Index(0) /\ Nanosecs(epoch) <= Nanosecs(upto)
        /\ slot' = [slot EXCEPT ![o] = Unlinked] /\ round' = "callback"
        /\ asked' = [asked EXCEPT ![o] = 0] /\ UNCHANGED <<now, upto>>
    BY <1>3, <1>6 DEF ExpirePop
  <2>2. slot[o] # Unlinked /\ asked[o] < Nanosecs(epoch) + G
    BY <2>1, HeadIsDue
  <2>3. due[o] # -1 /\ due[o] < Nanosecs(upto) + Granularity * Million
    BY <1>1, <1>2, <2>1, <2>2 DEF G
  <2>4. due' = [due EXCEPT ![o] = -1]
    BY <1>1, <2>1
  <2>5. Timers!Fires(o)
    BY <2>1, <2>3, <2>4 DEF Timers!Fires, Timers!Armed, Timers!Never, Nanosecs
  <2>6. QED BY <2>5 DEF Timers!TimerSetNext
<1>7. CASE CallbackEnd
  BY <1>7 DEF CallbackEnd, Timers!Returns, Timers!TimerSetNext, Nanosecs
<1>8. CASE ExpireAdvance
  BY <1>8 DEF ExpireAdvance, Timers!timerSetVars, Nanosecs
<1>9. CASE ExpireEnd
  <2>1. /\ Nanosecs(upto) < Nanosecs(epoch) /\ round = "expiring" /\ round' = "arming"
        /\ UNCHANGED <<now, slot, upto, asked>>
    BY <1>2, <1>3, <1>9 DEF ExpireEnd
  <2>2. \A o \in Obj : due[o] # -1 => Nanosecs(upto) < due[o] + Granularity * Million
    <3>1. \A o \in Obj : slot[o] # Unlinked => Nanosecs(epoch) <= asked[o] + G
      BY NoneIsOverdue
    <3>2. QED BY <1>1, <1>2, <2>1, <3>1 DEF G
  <2>3. Timers!Ends
    BY <2>1, <2>2 DEF Timers!Ends, Timers!Armed, Timers!Never, Nanosecs
  <2>4. QED BY <2>3 DEF Timers!TimerSetNext
<1>10. ASSUME NEW o \in Obj, NEW ms \in Delays, Insert(o, ms) PROVE Timers!TimerSetNext
  <2>1. /\ round \in {"callback", "arming"} /\ Nanosecs(now) - Nanosecs(upto) <= MaxLag
        /\ asked' = [asked EXCEPT ![o] = Nanosecs(now) + ms * Million]
        /\ UNCHANGED <<now, round, upto, headx>> /\ InRange(ms)
    BY <1>10 DEF Insert
  <2>2. Wanted(ms) \in Slots /\ Clamped(Wanted(ms)) = Wanted(ms)
    BY <2>1, WantedFits
  <2>3. slot' = [slot EXCEPT ![o] = Index(Wanted(ms))]
    BY <1>10, <2>1, InsertFinds
  <2>4. Index(Wanted(ms)) # Unlinked
    <3>1. headx + Wanted(ms) \in Nat
      BY <2>2, SizeType DEF EvTimerInv, EvTimerTypeOK, Slots
    <3>2. Index(Wanted(ms)) \in Slots
      BY <3>1, ModType DEF Index
    <3>3. QED BY <3>2, SizeType DEF Slots, Unlinked
  <2>5. due' = [due EXCEPT ![o] = Nanosecs(now) + ms * Million]
    BY <1>1, <2>1, <2>3, <2>4
  <2>6. Timers!Arms(o, ms * Million)
    BY <2>1, <2>5 DEF Timers!Arms, Nanosecs
  <2>7. QED BY <2>6 DEF Timers!TimerSetNext
<1>11. CASE RoundEnd
  BY <1>11 DEF RoundEnd, Timers!Sleeps, Timers!TimerSetNext, Nanosecs
<1>12. CASE UNCHANGED evtimerVars
  BY <1>12 DEF evtimerVars, Timers!timerSetVars, Nanosecs
<1>13. QED
  BY <1>4, <1>5, <1>6, <1>7, <1>8, <1>9, <1>10, <1>11, <1>12 DEF EvTimerNext

\* As long as what insert is asked for is in range, the lists are the timer of module
\* TimerSet, also if callbacks arm: an object fires once, less than a granule early, and
\* never later than the first round a granule after.
THEOREM InRangeIsTimerSet ==
  ASSUME Granularity < Thousand
  PROVE  EvTimerSpec /\ InsertsInRange => ImplementsTimerSet
<1> DEFINE Asks == [\A o \in Obj, ms \in Delays : Insert(o, ms) => InRange(ms)]_evtimerVars
<1>1. EvTimerInit => EvTimerInv /\ PlacedInv /\ Timers!TimerSetInit
  BY EvTimerInvInit, PlacedInvInit, TimerSetInit
<1>2. EvTimerInv /\ PlacedInv /\ [EvTimerNext]_evtimerVars /\ Asks => EvTimerInv' /\ PlacedInv'
  <2>1. PlacedInv /\ UNCHANGED evtimerVars => PlacedInv'
    BY DEF PlacedInv, Placed, Index, Nanosecs, evtimerVars
  <2>2. QED BY <2>1, EvTimerInvStep, PlacedInvStep
<1>3. /\ EvTimerInv /\ PlacedInv /\ [EvTimerNext]_evtimerVars /\ Asks
      => [Timers!TimerSetNext]_(Timers!timerSetVars)
  <2>1. UNCHANGED evtimerVars => UNCHANGED Timers!timerSetVars
    BY DEF evtimerVars, Timers!timerSetVars, Nanosecs
  <2>2. QED BY <2>1, TimerSetStep
<1>4. QED
  BY <1>1, <1>2, <1>3, PTL
  DEF EvTimerSpec, InsertsInRange, ImplementsTimerSet, Timers!TimerSetSpec

\* A timer that fits is the timer of module TimerSet, whoever arms it.
THEOREM FittingTimerIsTimerSet == ASSUME Fits PROVE EvTimerSpec => ImplementsTimerSet
<1>1. Granularity < Thousand
  BY DEF Fits
<1>2. QED BY <1>1, FittingTimerInRange, InRangeIsTimerSet, PTL
===============================================================================
