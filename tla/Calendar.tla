------------------------------ MODULE Calendar ------------------------------
(***************************************************************************)
(* The date arithmetic of the relay: the day an audit file is named after  *)
(* (epoch_to_ymd, audit.rs), and the day a certificate expires (acme.rs,   *)
(* days_since_epoch and the two digits of a year in days_until_expiry).    *)
(* The reference is the calendar itself: the days are counted from the     *)
(* epoch on, and each one gets the date that follows the last.             *)
(***************************************************************************)
EXTENDS Integers

VARIABLES
    number,  \* a day, counted from the epoch
    date     \* its date: [y, m, d]

-----------------------------------------------------------------------------
(* From a day number to a date *)

\* Mutant of EpochToYmd: the leap days that centuries lack are left out of
\* the year of the era.
EpochToYmdNoCentury(days) ==
    LET z   == days + 719468
        era == z \div 146097
        doe == z - era * 146097
        yoe == (doe - doe \div 1460 - doe \div 146096) \div 365
        doy == doe - (365 * yoe + yoe \div 4 - yoe \div 100)
        mp  == (5 * doy + 2) \div 153
        m   == IF mp < 10 THEN mp + 3 ELSE mp - 9
    IN  [y |-> yoe + era * 400 + (IF m <= 2 THEN 1 ELSE 0),
         m |-> m,
         d |-> doy - (153 * mp + 2) \div 5 + 1]

(* epoch_to_ymd, for the day of the seconds it is given.  Years start in   *)
(* March and are counted in eras of 400.                                   *)
EpochToYmd(days) ==
    LET z   == days + 719468
        era == z \div 146097
        doe == z - era * 146097
        yoe == (doe - doe \div 1460 + doe \div 36524 - doe \div 146096) \div 365
        doy == doe - (365 * yoe + yoe \div 4 - yoe \div 100)
        mp  == (5 * doy + 2) \div 153
        m   == IF mp < 10 THEN mp + 3 ELSE mp - 9
    IN  [y |-> yoe + era * 400 + (IF m <= 2 THEN 1 ELSE 0),
         m |-> m,
         d |-> doy - (153 * mp + 2) \div 5 + 1]

(* days_since_epoch: the Julian Day Number of a date, less that of         *)
(* 1970-01-01.                                                             *)
DaysSinceEpoch(t) ==
    LET a == (14 - t.m) \div 12
        y == t.y + 4800 - a
        m == t.m + 12 * a - 3
    IN  t.d + (153 * m + 2) \div 5 + 365 * y
          + y \div 4 - y \div 100 + y \div 400 - 32045 - 2440588

(* The year of a UTCTime, which has two digits of it. *)
UtcYear(yy) == IF yy < 50 THEN 2000 + yy ELSE 1900 + yy

-----------------------------------------------------------------------------
(* The reference *)

Leap(y) == y % 4 = 0 /\ (y % 100 # 0 \/ y % 400 = 0)

MonthLength(y, m) ==
    IF m = 2 THEN IF Leap(y) THEN 29 ELSE 28
    ELSE IF m \in {4, 6, 9, 11} THEN 30 ELSE 31

NextDate(t) ==
    IF t.d < MonthLength(t.y, t.m) THEN [t EXCEPT !.d = @ + 1]
    ELSE IF t.m < 12 THEN [y |-> t.y, m |-> t.m + 1, d |-> 1]
    ELSE [y |-> t.y + 1, m |-> 1, d |-> 1]

CalInit == number = 0 /\ date = [y |-> 1970, m |-> 1, d |-> 1]

NextDay == number' = number + 1 /\ date' = NextDate(date)

CalSpec == CalInit /\ [][NextDay]_<<number, date>>

\* "Accurate for the Gregorian calendar from 1970 onward" (epoch_to_ymd):
\* epoch_to_ymd and days_since_epoch agree with the calendar and so with each
\* other, through leap years, the leap century 2000 and the common one 2100;
\* two digits are enough for the years of a UTCTime until 2049.
CalendarExact ==
    /\ EpochToYmd(number) = date
    /\ DaysSinceEpoch(date) = number
    /\ date.y <= 2049 => UtcYear(date.y % 100) = date.y

=============================================================================
