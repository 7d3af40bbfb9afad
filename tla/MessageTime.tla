---------------------------- MODULE MessageTime ----------------------------
(***************************************************************************)
(* K3::MessageTime: the date read from an S3 key or from FROM_TIME, and    *)
(* the order replay filters with.                                          *)
(*                                                                         *)
(* A date is the tuple <<year, month, day, hour, minute, second, frac>>,   *)
(* frac counting units of 1 / FracUnits seconds.                           *)
(***************************************************************************)
EXTENDS Integers, Sequences

CONSTANT FracUnits   \* resolution of the fraction, an abstraction of double

ASSUME FracAssumption == FracUnits \in Nat \ {0}

Cleared == <<1970, 1, 1, 0, 0, 0, 0>>

\* The constructor: fields missing at the end of the text keep their default.
MessageTime(parts) ==
    [i \in 1 .. 7 |-> IF i <= Len(parts) THEN parts[i] ELSE Cleared[i]]

\* The constructor on a full date with one character in front of it: atoi
\* reads "/201" as 0, "-1" of "-12" as -1, and atof takes the last digit of
\* the seconds into the fraction.
MessageTimeShifted(parts) ==
    [i \in 1 .. 7 |-> CASE i = 1      -> 0
                        [] i \in 2..6 -> 0 - (parts[i] \div 10)
                        [] i = 7      -> (parts[6] % 10) * FracUnits + parts[7]]

-----------------------------------------------------------------------------
Day    == 60 * 60 * 24
Months == <<31, 28, 31, 30, 31, 30, 31, 31, 30, 31, 30, 31>>

\* months[] has 13 entries; reading in front of it yields whatever is there.
MonthDays(month, stray) ==
    CASE month \in 1 .. 12 -> Months[month]
      [] month = 0         -> 0
      [] OTHER             -> stray

\* year * (60*60*24*365) in a 32-bit int: 31536000 is 128 * 246375, so the
\* product wraps as 128 times a 25-bit number.
YearSeconds(year) ==
    LET n == (year * 246375) % 2^25
    IN  128 * (IF n < 2^24 THEN n ELSE n - 2^25)

\* The nested tests add a day only to years divisible by 400.
LeapSeconds(year) == IF year % 400 = 0 THEN Day ELSE 0

\* The seconds of timestamp(), without the fraction.
WholeSeconds(t, stray) ==
    YearSeconds(t[1]) + t[2] * Day * MonthDays(t[2], stray) + t[3] * Day
    + t[4] * 3600 + t[5] * 60 + t[6] + LeapSeconds(t[1])

\* timestamp() as a pair: doubles compare as seconds first, then fractions.
timestamp(t, stray) == <<WholeSeconds(t, stray) + t[7] \div FracUnits, t[7] % FracUnits>>

Exceeds(x, y) == x[1] > y[1] \/ (x[1] = y[1] /\ x[2] > y[2])

\* operator >
Later(t, u, stray) == t # u /\ Exceeds(timestamp(t, stray), timestamp(u, stray))

\* operator >=
LaterOrEqual(t, u, stray) == t = u \/ Later(t, u, stray)
=============================================================================
