-------------------------- MODULE AlgorithmsProofs --------------------------
(***************************************************************************)
(* The relay's and the client's pure functions, for every input: the date  *)
(* arithmetic on every day, the scan of every certificate, networks of any *)
(* width in lists of any length, settings with any values.  Where the code *)
(* loops, the loop is a specification of its own and what it computes is   *)
(* an invariant of it, so that no induction over its data is needed.       *)
(***************************************************************************)
EXTENDS Calendar, Expiry, Cidr, Settings, ClientConfig, SequenceTheorems, TLAPS

-----------------------------------------------------------------------------
(***************************************************************************)
(* Dates.  days_since_epoch is shown to follow the calendar from one day   *)
(* to the next, epoch_to_ymd to invert it on every date.  Every leaf names *)
(* the SMT prover: the others write out numbers of this size in unary.     *)
(***************************************************************************)

\* The dates from the epoch on.
Dates == {t \in [y : Nat, m : 1..12, d : 1..31] : t.y >= 1970 /\ t.d <= MonthLength(t.y, t.m)}

\* The years of both functions start in March: the year of a date, its month
\* and its day within that year, and the days before a year.
MarchYear(t) == t.y - (14 - t.m) \div 12
MarchMonth(t) == t.m + 12 * ((14 - t.m) \div 12) - 3
DayOfYear(t) == (153 * MarchMonth(t) + 2) \div 5 + t.d - 1
DaysBefore(Y) == 365 * Y + Y \div 4 - Y \div 100 + Y \div 400

LEMMA DateFields ==
  ASSUME NEW t \in Dates
  PROVE  /\ t.y \in Nat /\ t.m \in 1..12 /\ t.d \in 1..31 /\ t.y >= 1970
         /\ t.d <= MonthLength(t.y, t.m) /\ t = [y |-> t.y, m |-> t.m, d |-> t.d]
  BY SMT DEF Dates

(***************************************************************************)
(* A date is found again from its year and the number of its day in it;    *)
(* day 365 only a leap year has.                                           *)
(***************************************************************************)
LEMMA MarchFields ==
  ASSUME NEW t \in Dates
  PROVE  /\ MarchYear(t) \in Nat /\ MarchMonth(t) \in 0..11 /\ DayOfYear(t) \in 0..365
         /\ DayOfYear(t) = 365 => Leap(MarchYear(t) + 1)
         /\ (5 * DayOfYear(t) + 2) \div 153 = MarchMonth(t)
         /\ t.d = DayOfYear(t) - (153 * MarchMonth(t) + 2) \div 5 + 1
         /\ t.m = IF MarchMonth(t) < 10 THEN MarchMonth(t) + 3 ELSE MarchMonth(t) - 9
         /\ t.y = MarchYear(t) + (IF t.m <= 2 THEN 1 ELSE 0)
  <1>1. PICK y \in Nat, m \in 1..12, d \in 1..31 :
          t.y = y /\ t.m = m /\ t.d = d /\ y >= 1970 /\ d <= MonthLength(y, m)
    BY SMT, DateFields
  <1>2. CASE m = 1
    BY SMT, <1>1, <1>2 DEF MarchYear, MarchMonth, DayOfYear, MonthLength
  <1>3. CASE m = 2
    BY SMT, <1>1, <1>3 DEF MarchYear, MarchMonth, DayOfYear, MonthLength
  <1>4. CASE m \in 3..7
    BY SMT, <1>1, <1>4 DEF MarchYear, MarchMonth, DayOfYear, MonthLength
  <1>5. CASE m \in 8..12
    BY SMT, <1>1, <1>5 DEF MarchYear, MarchMonth, DayOfYear, MonthLength
  <1> QED
    BY SMT, <1>2, <1>3, <1>4, <1>5

(***************************************************************************)
(* days_since_epoch in these terms.  The 4800 years it adds are 12 eras.   *)
(***************************************************************************)
LEMMA SinceMarch ==
  ASSUME NEW t \in Dates
  PROVE  /\ DaysSinceEpoch(t) \in Int
         /\ DaysSinceEpoch(t) + 719468 = DayOfYear(t) + DaysBefore(MarchYear(t))
  <1> DEFINE Y == MarchYear(t) M == MarchMonth(t)
  <1>1. /\ DaysSinceEpoch(t) = t.d + (153 * M + 2) \div 5 + 365 * (Y + 4800)
          + (Y + 4800) \div 4 - (Y + 4800) \div 100 + (Y + 4800) \div 400 - 32045 - 2440588
        /\ t.d \in Int /\ Y \in Int /\ M \in Int
    BY SMT, DateFields DEF DaysSinceEpoch, MarchYear, MarchMonth
  <1>2. DayOfYear(t) = (153 * M + 2) \div 5 + t.d - 1
    BY SMT DEF DayOfYear
  <1> HIDE DEF Y, M
  <1>3. /\ (Y + 4800) \div 4 = Y \div 4 + 1200 /\ (Y + 4800) \div 100 = Y \div 100 + 48
        /\ (Y + 4800) \div 400 = Y \div 400 + 12
    BY SMT, <1>1
  <1>4. (153 * M + 2) \div 5 \in Int /\ Y \div 4 \in Int /\ Y \div 100 \in Int /\ Y \div 400 \in Int
    BY SMT, <1>1
  <1>5. DaysSinceEpoch(t) \in Int
    BY SMT, <1>1, <1>4
  <1>6. DaysSinceEpoch(t) + 719468 = DayOfYear(t) + DaysBefore(Y)
    BY SMT, <1>1, <1>2, <1>3, <1>4 DEF DaysBefore
  <1> QED
    BY SMT, <1>5, <1>6 DEF Y

(***************************************************************************)
(* A year in its era of 400: century, group of four, rest.                 *)
(***************************************************************************)
LEMMA EraParts ==
  ASSUME NEW Y \in Nat
  PROVE  \E e \in Nat, c \in 0..3, q \in 0..24, r \in 0..3 :
           /\ Y = 400 * e + 100 * c + 4 * q + r /\ Y \div 4 = 100 * e + 25 * c + q
           /\ Y \div 100 = 4 * e + c /\ Y \div 400 = e
           /\ (Leap(Y + 1) => r = 3 /\ (q = 24 => c = 3))
  <1> DEFINE e == Y \div 400 c == (Y % 400) \div 100 q == (Y % 100) \div 4 r == Y % 4
  <1>1. e \in Nat /\ c \in 0..3 /\ q \in 0..24 /\ r \in 0..3
    BY SMT
  <1>2. /\ Y = 400 * e + 100 * c + 4 * q + r /\ Y \div 4 = 100 * e + 25 * c + q
        /\ Y \div 100 = 4 * e + c /\ Y \div 400 = e
    BY SMT
  <1>3. Leap(Y + 1) => r = 3 /\ (q = 24 => c = 3)
    BY SMT DEF Leap
  <1> QED
    BY SMT, <1>1, <1>2, <1>3

(***************************************************************************)
(* epoch_to_ymd inverts days_since_epoch: the era, the year of the era and *)
(* the day of the year that it computes are those of the date.             *)
(***************************************************************************)
LEMMA EpochInverts ==
  ASSUME NEW t \in Dates
  PROVE  EpochToYmd(DaysSinceEpoch(t)) = t
  <1> DEFINE Y == MarchYear(t) M == MarchMonth(t) doy == DayOfYear(t) z == DaysSinceEpoch(t) + 719468
  <1>1. /\ Y \in Nat /\ M \in 0..11 /\ doy \in 0..365
        /\ doy = 365 => Leap(Y + 1)
        /\ (5 * doy + 2) \div 153 = M
        /\ t.d = doy - (153 * M + 2) \div 5 + 1
        /\ t.m = IF M < 10 THEN M + 3 ELSE M - 9
        /\ t.y = Y + (IF t.m <= 2 THEN 1 ELSE 0)
    BY SMT, MarchFields
  <1>2. z = doy + DaysBefore(Y)
    BY SMT, SinceMarch
  <1> HIDE DEF Y, M, doy, z
  <1>3. PICK e \in Nat, c \in 0..3, q \in 0..24, r \in 0..3 :
           /\ Y = 400 * e + 100 * c + 4 * q + r /\ Y \div 4 = 100 * e + 25 * c + q
           /\ Y \div 100 = 4 * e + c /\ Y \div 400 = e
           /\ (Leap(Y + 1) => r = 3 /\ (q = 24 => c = 3))
    BY SMT, <1>1, EraParts
  <1> DEFINE doe == 36524 * c + 1461 * q + 365 * r + doy
             yoe == 100 * c + 4 * q + r
  <1>4. doe \in Int /\ z = 146097 * e + doe
    BY SMT, <1>1, <1>2, <1>3 DEF DaysBefore
  <1>5. doe = 36524 * c + 1461 * q + 365 * r + doy /\ yoe = 100 * c + 4 * q + r
    BY SMT DEF doe, yoe
  <1>6. yoe \in Int /\ doy = doe - (365 * yoe + yoe \div 4 - yoe \div 100) /\ Y = yoe + e * 400
    BY SMT, <1>1, <1>3
  <1> HIDE DEF doe, yoe
  <1>7. /\ 0 <= doe /\ doe <= 146096
        /\ (doe - doe \div 1460 + doe \div 36524 - doe \div 146096) \div 365 = yoe
    <2>1. doy = 365 => r = 3 /\ (q = 24 => c = 3)
      BY SMT, <1>1, <1>3
    <2>2. /\ 0 <= doe /\ doe <= 146096
          /\ (doe - doe \div 1460 + doe \div 36524 - doe \div 146096) \div 365 = 100 * c + 4 * q + r
      BY SMT, <1>1, <1>4, <1>5, <2>1
    <2> QED
      BY SMT, <1>5, <2>2
  <1>8. z \div 146097 = e /\ z - e * 146097 = doe
    BY SMT, <1>4, <1>7
  <1>9. EpochToYmd(DaysSinceEpoch(t)) = [y |-> Y + (IF t.m <= 2 THEN 1 ELSE 0), m |-> t.m, d |-> t.d]
    BY SMT, <1>1, <1>7, <1>6, <1>8 DEF EpochToYmd, z
  <1> QED
    BY SMT, <1>1, <1>9, DateFields

(***************************************************************************)
(* The days before a year grow by the length of the last one.              *)
(***************************************************************************)
LEMMA YearLength ==
  ASSUME NEW Y \in Nat
  PROVE  /\ DaysBefore(Y) \in Int
         /\ DaysBefore(Y + 1) = DaysBefore(Y) + (IF Leap(Y + 1) THEN 366 ELSE 365)
  BY SMT DEF Leap, DaysBefore

(***************************************************************************)
(* The date after a date: the next day of its year or the first of the     *)
(* next year.                                                              *)
(***************************************************************************)
LEMMA NextDateIs ==
  ASSUME NEW t \in Dates
  PROVE  /\ NextDate(t) \in Dates
         /\ \/ MarchYear(NextDate(t)) = MarchYear(t) /\ DayOfYear(NextDate(t)) = DayOfYear(t) + 1
            \/ /\ MarchYear(NextDate(t)) = MarchYear(t) + 1 /\ DayOfYear(NextDate(t)) = 0
               /\ DayOfYear(t) = IF Leap(MarchYear(t) + 1) THEN 365 ELSE 364
  <1>1. PICK y \in Nat, m \in 1..12, d \in 1..31 :
          /\ t = [y |-> y, m |-> m, d |-> d] /\ y >= 1970 /\ d <= MonthLength(y, m)
    BY SMT, DateFields
  <1>2. MonthLength(y, m) \in Int
    BY SMT DEF MonthLength
  <1>3. CASE d < MonthLength(y, m)
    <2>1. NextDate(t) = [y |-> y, m |-> m, d |-> d + 1]
      BY SMT, <1>1, <1>3 DEF NextDate
    <2>2. d + 1 \in 1..31 /\ d + 1 <= MonthLength(y, m)
      BY SMT, <1>1, <1>3 DEF MonthLength
    <2>3. NextDate(t) \in Dates
      BY SMT, <1>1, <2>1, <2>2 DEF Dates
    <2> QED
      BY SMT, <1>1, <2>1, <2>3 DEF MarchYear, MarchMonth, DayOfYear
  <1>4. CASE d = MonthLength(y, m) /\ m < 12
    <2>1. NextDate(t) = [y |-> y, m |-> m + 1, d |-> 1]
      <3>1. ~(t.d < MonthLength(t.y, t.m)) /\ t.m < 12
        BY SMT, <1>1, <1>4, <1>2
      <3> QED
        BY SMT, <1>1, <3>1 DEF NextDate
    <2>2. NextDate(t) \in Dates
      BY SMT, <1>1, <1>4, <2>1 DEF Dates, MonthLength
    <2> QED
      <3>1. /\ MarchYear(t) = y - (14 - m) \div 12
            /\ MarchYear(NextDate(t)) = y - (14 - (m + 1)) \div 12
            /\ DayOfYear(t) = (153 * (m + 12 * ((14 - m) \div 12) - 3) + 2) \div 5 + d - 1
            /\ DayOfYear(NextDate(t))
                = (153 * (m + 1 + 12 * ((14 - (m + 1)) \div 12) - 3) + 2) \div 5 + 1 - 1
        <4>1. /\ t.y = y /\ t.m = m /\ t.d = d
              /\ NextDate(t).y = y /\ NextDate(t).m = m + 1 /\ NextDate(t).d = 1
          BY SMT, <1>1, <2>1
        <4> QED
          BY SMT, <4>1 DEF MarchYear, MarchMonth, DayOfYear
      <3>2. CASE m = 1
        BY SMT, <1>1, <1>4, <2>2, <3>1, <3>2 DEF MonthLength
      <3>3. CASE m = 2
        BY SMT, <1>1, <1>4, <2>2, <3>1, <3>3 DEF MonthLength
      <3>4. CASE m \in 3..6
        BY SMT, <1>1, <1>4, <2>2, <3>1, <3>4 DEF MonthLength
      <3>5. CASE m \in 7..11
        BY SMT, <1>1, <1>4, <2>2, <3>1, <3>5 DEF MonthLength
      <3> QED
        BY SMT, <1>1, <1>4, <3>2, <3>3, <3>4, <3>5
  <1>5. CASE d = MonthLength(y, m) /\ m = 12
    <2>1. NextDate(t) = [y |-> y + 1, m |-> 1, d |-> 1]
      BY SMT, <1>1, <1>5 DEF NextDate, MonthLength
    <2>2. NextDate(t) \in Dates
      BY SMT, <1>1, <1>5, <2>1 DEF Dates, MonthLength
    <2> QED
      BY SMT, <1>1, <1>5, <2>1, <2>2 DEF MarchYear, MarchMonth, DayOfYear, MonthLength
  <1> QED
    BY SMT, <1>1, <1>3, <1>4, <1>5, <1>2

LEMMA DayLater ==
  ASSUME NEW t \in Dates
  PROVE  NextDate(t) \in Dates /\ DaysSinceEpoch(NextDate(t)) = DaysSinceEpoch(t) + 1
  <1> DEFINE n == NextDate(t)
  <1>1. n \in Dates /\ MarchYear(t) \in Nat /\ DayOfYear(t) \in Int
    BY SMT, NextDateIs, MarchFields
  <1>2. /\ DaysSinceEpoch(t) + 719468 = DayOfYear(t) + DaysBefore(MarchYear(t))
        /\ DaysSinceEpoch(n) + 719468 = DayOfYear(n) + DaysBefore(MarchYear(n))
    BY SMT, <1>1, SinceMarch
  <1>3. DaysSinceEpoch(t) \in Int /\ DaysSinceEpoch(n) \in Int /\ DayOfYear(n) \in Int
    BY SMT, <1>1, SinceMarch, MarchFields
  <1>4. \/ MarchYear(n) = MarchYear(t) /\ DayOfYear(n) = DayOfYear(t) + 1
        \/ /\ MarchYear(n) = MarchYear(t) + 1 /\ DayOfYear(n) = 0
           /\ DayOfYear(t) = IF Leap(MarchYear(t) + 1) THEN 365 ELSE 364
    BY SMT, NextDateIs
  <1> HIDE DEF n
  <1>5. ASSUME MarchYear(n) = MarchYear(t), DayOfYear(n) = DayOfYear(t) + 1
        PROVE  DaysSinceEpoch(n) = DaysSinceEpoch(t) + 1
    BY SMT, <1>1, <1>2, <1>3, <1>5, YearLength
  <1>6. ASSUME MarchYear(n) = MarchYear(t) + 1, DayOfYear(n) = 0,
               DayOfYear(t) = IF Leap(MarchYear(t) + 1) THEN 365 ELSE 364
        PROVE  DaysSinceEpoch(n) = DaysSinceEpoch(t) + 1
    BY SMT, <1>1, <1>2, <1>3, <1>6, YearLength
  <1> QED
    BY SMT, <1>1, <1>4, <1>5, <1>6 DEF n

(***************************************************************************)
(* The walk through the calendar.                                          *)
(***************************************************************************)
WalkInv == date \in Dates /\ DaysSinceEpoch(date) = number

\* Every day from the epoch on, not only those up to the year TLC walks to,
\* epoch_to_ymd (audit.rs) gives the date of the day, days_since_epoch
\* (acme.rs) the day of the date, and until 2049 the two digits of a UTCTime
\* give the year.
THEOREM CalendarIsExact == CalSpec => []CalendarExact
  <1>1. CalInit => WalkInv
    <2> SUFFICES ASSUME CalInit PROVE WalkInv
      BY SMT
    <2>1. date = [y |-> 1970, m |-> 1, d |-> 1] /\ number = 0
      BY SMT DEF CalInit
    <2>2. date \in Dates
      BY SMT, <2>1 DEF Dates, MonthLength
    <2>3. DaysSinceEpoch(date) = 0
      BY SMT, <2>1 DEF DaysSinceEpoch
    <2> QED
      BY SMT, <2>1, <2>2, <2>3 DEF WalkInv
  <1>2. WalkInv /\ [NextDay]_<<number, date>> => WalkInv'
    <2> SUFFICES ASSUME WalkInv, [NextDay]_<<number, date>> PROVE WalkInv'
      BY SMT
    <2>1. CASE NextDay
      <3>1. number' = number + 1 /\ date' = NextDate(date)
        BY SMT, <2>1 DEF NextDay
      <3> QED
        BY SMT, <3>1, DayLater DEF WalkInv
    <2>2. CASE UNCHANGED <<number, date>>
      BY SMT, <2>2 DEF WalkInv
    <2> QED
      BY SMT, <2>1, <2>2
  <1>3. WalkInv => CalendarExact
    <2> SUFFICES ASSUME WalkInv PROVE CalendarExact
      BY SMT
    <2>1. date \in Dates /\ DaysSinceEpoch(date) = number
      BY SMT DEF WalkInv
    <2>2. EpochToYmd(number) = date
      BY SMT, <2>1, EpochInverts
    <2>3. date.y <= 2049 => UtcYear(date.y % 100) = date.y
      BY SMT, <2>1, DateFields DEF UtcYear
    <2> QED
      BY SMT, <2>1, <2>2, <2>3 DEF CalendarExact
  <1> QED
    BY <1>1, <1>2, <1>3, PTL DEF CalSpec

-----------------------------------------------------------------------------
(***************************************************************************)
(* The scan for the end of a certificate's validity                        *)
(***************************************************************************)

\* What a concatenation holds, at which place.
LEMMA Joined ==
  ASSUME NEW S, NEW s \in Seq(S), NEW t \in Seq(S)
  PROVE  /\ s \o t \in Seq(S) /\ Len(s \o t) = Len(s) + Len(t)
         /\ Len(s) \in Nat /\ Len(t) \in Nat
         /\ \A k \in 1..Len(s) : (s \o t)[k] = s[k]
         /\ \A k \in 1..Len(t) : (s \o t)[Len(s) + k] = t[k]
  OBVIOUS

\* A stretch that holds the bytes of t is t.
LEMMA Stretch ==
  ASSUME NEW S, NEW s \in Seq(S), NEW t \in Seq(S), NEW m \in Nat, m + Len(t) <= Len(s),
         \A k \in 1..Len(t) : s[m + k] = t[k]
  PROVE  SubSeq(s, m + 1, m + Len(t)) = t
  <1> DEFINE u == SubSeq(s, m + 1, m + Len(t))
  <1>1. Len(t) \in Nat /\ Len(s) \in Nat /\ \A i \in m + 1..m + Len(t) : s[i] \in S
    OBVIOUS
  <1>2. /\ u \in Seq(S) /\ Len(u) = (IF m + 1 <= m + Len(t) THEN m + Len(t) - (m + 1) + 1 ELSE 0)
        /\ \A k \in 1..m + Len(t) - (m + 1) + 1 : u[k] = s[m + 1 + k - 1]
    BY <1>1, SubSeqProperties
  <1> HIDE DEF u
  <1>3. Len(u) = Len(t) /\ m + Len(t) - (m + 1) + 1 = Len(t)
    BY <1>1, <1>2
  <1>4. \A k \in 1..Len(t) : u[k] = s[m + k]
    BY <1>1, <1>2, <1>3
  <1>5. \A k \in 1..Len(u) : u[k] = t[k]
    BY <1>3, <1>4
  <1> QED
    BY <1>2, <1>3, <1>5, SeqEqual DEF u

\* The parts of the certificate, and where they are.
Before == cert.head
First == cert.before
Second == cert.after
FirstTag == Len(Before)
SecondTag == Len(Before) + 2 + Len(First)

\* What the bytes of the certificate are at those places.
LEMMA DerLaidOut ==
  ASSUME cert \in Certificates
  PROVE  /\ der \in Seq(Bytes)
         /\ FirstTag \in Nat /\ Len(First) \in Nat \ {0} /\ SecondTag \in Nat
         /\ Len(Second) \in Nat \ {0} /\ Len(der) \in Nat
         /\ First \in Seq(Bytes) /\ Second \in Seq(Bytes)
         /\ SecondTag + 2 + Len(Second) <= Len(der)
         /\ \A k \in 1..FirstTag : der[k] = Before[k]
         /\ der[FirstTag + 1] \in TimeTags /\ der[FirstTag + 2] = Len(First)
         /\ \A k \in 1..Len(First) : der[FirstTag + 2 + k] = First[k]
         /\ der[SecondTag + 1] \in TimeTags /\ der[SecondTag + 2] = Len(Second)
         /\ \A k \in 1..Len(Second) : der[SecondTag + 2 + k] = Second[k]
  <1> DEFINE h == Before   p == <<cert.tags[1], Len(First)>>   b == First
             q == <<cert.tags[2], Len(Second)>>   a == Second   r == cert.rest
  <1>1. /\ h \in Seq(Bytes) /\ b \in Seq(Bytes) /\ a \in Seq(Bytes) /\ r \in Seq(Bytes)
    BY DEF Certificates, Before, First, Second
  <1>b. /\ Len(b) \in Nat \ {0} /\ Len(b) <= 255 /\ Len(a) \in Nat \ {0} /\ Len(a) <= 255
    <2>1. \A n \in 1..127 : n \in Nat \ {0} /\ n <= 255
      OBVIOUS
    <2>2. Len(b) \in 1..127 /\ Len(a) \in 1..127
      BY DEF Certificates, First, Second
    <2> QED
      BY <2>1, <2>2, Zenon
  <1>c. cert.tags[1] \in TimeTags /\ cert.tags[2] \in TimeTags
    BY DEF Certificates
  <1>2. /\ p \in Seq(Bytes) /\ Len(p) = 2 /\ p[1] \in TimeTags /\ p[2] = Len(b)
        /\ q \in Seq(Bytes) /\ Len(q) = 2 /\ q[1] \in TimeTags /\ q[2] = Len(a)
    <2>1. ASSUME NEW t \in TimeTags, NEW n \in Nat \ {0}, n <= 255
          PROVE  /\ <<t, n>> \in Seq(Bytes) /\ Len(<<t, n>>) = 2
                 /\ <<t, n>>[1] = t /\ <<t, n>>[2] = n
      <3>1. t \in Bytes /\ n \in Bytes
        BY <2>1 DEF Bytes, TimeTags
      <3> QED
        BY <3>1
    <2> QED
      BY <1>b, <1>c, <2>1
  <1>3. der = ((((h \o p) \o b) \o q) \o a) \o r
    BY DEF der, Before, First, Second
  <1>4. Len(h) = FirstTag /\ SecondTag = Len(h) + 2 + Len(b)
    BY DEF FirstTag, SecondTag
  <1> HIDE DEF h, p, b, q, a, r
  <1> DEFINE d1 == h \o p   d2 == d1 \o b   d3 == d2 \o q   d4 == d3 \o a   d5 == d4 \o r
  <1>0. /\ h \in Seq(Bytes) /\ p \in Seq(Bytes) /\ b \in Seq(Bytes) /\ q \in Seq(Bytes)
        /\ a \in Seq(Bytes) /\ r \in Seq(Bytes)
    BY <1>1, <1>2
  <1>5. /\ d1 \in Seq(Bytes) /\ Len(d1) = Len(h) + Len(p)
        /\ Len(h) \in Nat /\ Len(p) \in Nat
        /\ \A k \in 1..Len(h) : d1[k] = h[k]
        /\ \A k \in 1..Len(p) : d1[Len(h) + k] = p[k]
    BY <1>0, Joined
  <1>5t. d1 \in Seq(Bytes)
    BY <1>5
  <1> HIDE DEF d1
  <1>6. /\ d2 \in Seq(Bytes) /\ Len(d2) = Len(d1) + Len(b)
        /\ Len(d1) \in Nat /\ Len(b) \in Nat
        /\ \A k \in 1..Len(d1) : d2[k] = d1[k]
        /\ \A k \in 1..Len(b) : d2[Len(d1) + k] = b[k]
    BY <1>0, <1>5t, Joined
  <1>6t. d2 \in Seq(Bytes)
    BY <1>6
  <1> HIDE DEF d2
  <1>7. /\ d3 \in Seq(Bytes) /\ Len(d3) = Len(d2) + Len(q)
        /\ Len(d2) \in Nat /\ Len(q) \in Nat
        /\ \A k \in 1..Len(d2) : d3[k] = d2[k]
        /\ \A k \in 1..Len(q) : d3[Len(d2) + k] = q[k]
    BY <1>0, <1>6t, Joined
  <1>7t. d3 \in Seq(Bytes)
    BY <1>7
  <1> HIDE DEF d3
  <1>8. /\ d4 \in Seq(Bytes) /\ Len(d4) = Len(d3) + Len(a)
        /\ Len(d3) \in Nat /\ Len(a) \in Nat
        /\ \A k \in 1..Len(d3) : d4[k] = d3[k]
        /\ \A k \in 1..Len(a) : d4[Len(d3) + k] = a[k]
    BY <1>0, <1>7t, Joined
  <1>8t. d4 \in Seq(Bytes)
    BY <1>8
  <1> HIDE DEF d4
  <1>9. /\ d5 \in Seq(Bytes) /\ Len(d5) = Len(d4) + Len(r)
        /\ Len(d4) \in Nat /\ Len(r) \in Nat
        /\ \A k \in 1..Len(d4) : d5[k] = d4[k]
        /\ \A k \in 1..Len(r) : d5[Len(d4) + k] = r[k]
    BY <1>0, <1>8t, Joined
  <1>10. der = d5
    BY <1>3 DEF d1, d2, d3, d4
  <1> HIDE DEF d5
  <1>11. /\ Len(d1) = FirstTag + 2 /\ Len(d2) = SecondTag /\ Len(d3) = SecondTag + 2
         /\ Len(d4) = SecondTag + 2 + Len(a) /\ FirstTag \in Nat /\ SecondTag \in Nat
         /\ Len(b) \in Nat \ {0} /\ Len(a) \in Nat \ {0} /\ SecondTag = FirstTag + 2 + Len(b)
    <2>1. Len(b) \in Nat \ {0} /\ Len(a) \in Nat \ {0} /\ Len(p) = 2 /\ Len(q) = 2
      BY <1>2, <1>b
    <2>2. /\ Len(h) \in Nat /\ Len(d1) = Len(h) + Len(p) /\ Len(d2) = Len(d1) + Len(b)
          /\ Len(d3) = Len(d2) + Len(q) /\ Len(d4) = Len(d3) + Len(a)
      BY <1>5, <1>6, <1>7, <1>8
    <2> QED
      BY <1>4, <2>1, <2>2
  <1>12. /\ \A k \in 1..Len(d1) : d5[k] = d1[k]
         /\ \A k \in 1..Len(d2) : d5[k] = d2[k]
         /\ \A k \in 1..Len(d3) : d5[k] = d3[k]
    <2>1. \A k \in 1..Len(d3) : d5[k] = d3[k]
      BY <1>8, <1>9
    <2>2. \A k \in 1..Len(d2) : d5[k] = d2[k]
      BY <1>7, <2>1
    <2>3. \A k \in 1..Len(d1) : d5[k] = d1[k]
      BY <1>6, <2>2
    <2> QED
      BY <2>1, <2>2, <2>3
  <1>13. /\ \A k \in 1..FirstTag : d5[k] = h[k]
         /\ d5[FirstTag + 1] = p[1] /\ d5[FirstTag + 2] = p[2]
    BY <1>2, <1>4, <1>5, <1>11, <1>12
  <1>14. \A k \in 1..Len(b) : d5[FirstTag + 2 + k] = b[k]
    BY <1>6, <1>11, <1>12
  <1>15. d5[SecondTag + 1] = q[1] /\ d5[SecondTag + 2] = q[2]
    <2>1. Len(q) = 2 /\ 1 \in 1..Len(q) /\ 2 \in 1..Len(q)
      BY <1>2
    <2>2. Len(d2) + 1 \in 1..Len(d3) /\ Len(d2) + 2 \in 1..Len(d3)
      BY <1>11
    <2>3. d3[Len(d2) + 1] = q[1] /\ d3[Len(d2) + 2] = q[2]
      BY <1>7, <2>1
    <2>4. d5[Len(d2) + 1] = q[1] /\ d5[Len(d2) + 2] = q[2]
      BY <1>12, <2>2, <2>3
    <2> QED
      BY <1>11, <2>4
  <1>16. \A k \in 1..Len(a) : d5[SecondTag + 2 + k] = a[k]
    <2>1. \A k \in 1..Len(a) : Len(d3) + k \in 1..Len(d4)
      BY <1>8
    <2>2. \A k \in 1..Len(a) : d5[Len(d3) + k] = d4[Len(d3) + k]
      BY <1>9, <2>1
    <2>3. \A k \in 1..Len(a) : d5[Len(d3) + k] = a[k]
      BY <1>8, <2>2
    <2> QED
      BY <1>11, <2>3
  <1>17. SecondTag + 2 + Len(a) <= Len(d5) /\ Len(d5) \in Nat
    BY <1>9, <1>11
  <1> QED
    BY <1>1, <1>2, <1>9, <1>10, <1>11, <1>13, <1>14, <1>15, <1>16, <1>17 DEF h, b, a

\* The loop, when nothing before the validity looks like a tag: it passes over
\* the head, takes the first time and then the second, and misses none.
Clean == \A k \in DOMAIN Before : Before[k] \notin TimeTags

OnTheWay ==
  /\ cert \in Certificates
  /\ Clean => \/ pos \in 0..FirstTag /\ found_times = << >>
              \/ pos = SecondTag /\ found_times = <<First>>
              \/ found_times = <<First, Second>>

\* One turn of the loop.
LEMMA ScanStep ==
  ASSUME OnTheWay, Scan
  PROVE  OnTheWay'
  <1>1. cert \in Certificates /\ cert' = cert
    BY DEF OnTheWay, Scan, PassOver, TakeTime
  <1>2. FirstTag' = FirstTag /\ SecondTag' = SecondTag /\ (Clean' <=> Clean)
    BY <1>1 DEF FirstTag, SecondTag, Clean, Before, First, Second
  <1> SUFFICES ASSUME Clean
               PROVE  \/ pos' \in 0..FirstTag /\ found_times' = << >>
                      \/ pos' = SecondTag /\ found_times' = <<First>>
                      \/ found_times' = <<First, Second>>
    BY <1>1, <1>2 DEF OnTheWay, First, Second
  <1> DEFINE b == First   a == Second
  <1>3. /\ der \in Seq(Bytes) /\ FirstTag \in Nat /\ SecondTag \in Nat /\ Len(der) \in Nat
        /\ b \in Seq(Bytes) /\ a \in Seq(Bytes) /\ Len(b) \in Nat \ {0} /\ Len(a) \in Nat \ {0}
        /\ SecondTag + 2 + Len(a) <= Len(der) /\ SecondTag = FirstTag + 2 + Len(b)
    BY <1>1, DerLaidOut DEF FirstTag, SecondTag
  <1>4. /\ \A k \in 1..FirstTag : der[k] = Before[k]
        /\ der[FirstTag + 1] \in TimeTags /\ der[FirstTag + 2] = Len(b)
        /\ der[SecondTag + 1] \in TimeTags /\ der[SecondTag + 2] = Len(a)
    BY <1>1, DerLaidOut
  <1>5. SubSeq(der, FirstTag + 3, SecondTag) = b
    <2>1. \A k \in 1..Len(b) : der[FirstTag + 2 + k] = b[k]
      BY <1>1, DerLaidOut
    <2> DEFINE m == FirstTag + 2
    <2>2. m \in Nat /\ m + Len(b) <= Len(der) /\ m + 1 = FirstTag + 3 /\ m + Len(b) = SecondTag
      BY <1>3
    <2> HIDE DEF m
    <2>3. SubSeq(der, m + 1, m + Len(b)) = b
      BY <1>3, <2>1, <2>2, Stretch, Zenon DEF m
    <2> QED
      BY <2>2, <2>3
  <1>6. SubSeq(der, SecondTag + 3, SecondTag + 2 + Len(a)) = a
    <2>1. \A k \in 1..Len(a) : der[SecondTag + 2 + k] = a[k]
      BY <1>1, DerLaidOut
    <2> DEFINE m == SecondTag + 2
    <2>2. m \in Nat /\ m + Len(a) <= Len(der) /\ m + 1 = SecondTag + 3
      BY <1>3
    <2> HIDE DEF m
    <2>3. SubSeq(der, m + 1, m + Len(a)) = a
      BY <1>3, <2>1, <2>2, Stretch, Zenon DEF m
    <2> QED
      BY <2>2, <2>3 DEF m
  <1> HIDE DEF a, b
  <1>7. CASE pos \in 0..FirstTag /\ found_times = << >> /\ pos # FirstTag
    <2>1. pos + 1 \in 1..FirstTag
      BY <1>3, <1>7
    <2>2. Before[pos + 1] \notin TimeTags
      BY <1>1, <2>1 DEF Clean, FirstTag, Certificates, Before
    <2>3. PassOver
      BY <1>4, <2>1, <2>2 DEF Scan, TakeTime
    <2> QED
      BY <1>3, <1>7, <2>1, <2>3 DEF PassOver
  <1>8. CASE pos = FirstTag /\ found_times = << >>
    <2>1. TakeTime
      BY <1>4, <1>8 DEF Scan, PassOver
    <2>2. pos' = SecondTag
      BY <1>3, <1>4, <1>8, <2>1 DEF TakeTime
    <2>a. SecondTag <= Len(der)
      BY <1>3
    <2>3. found_times' = Append(<< >>, SubSeq(der, FirstTag + 3, SecondTag))
      BY <1>8, <2>1, <2>2, <2>a DEF TakeTime
    <2>4. found_times' = <<b>>
      BY <1>5, <2>3
    <2> QED
      BY <2>2, <2>4 DEF b
  <1>9. CASE pos = SecondTag /\ found_times = <<First>>
    <2>1. TakeTime
      BY <1>4, <1>9 DEF Scan, PassOver
    <2>2. pos' = SecondTag + 2 + Len(a)
      BY <1>3, <1>4, <1>9, <2>1 DEF TakeTime
    <2>a. SecondTag + 2 + Len(a) <= Len(der)
      BY <1>3
    <2>3. found_times' = Append(found_times, SubSeq(der, SecondTag + 3, SecondTag + 2 + Len(a)))
      BY <1>9, <2>1, <2>2, <2>a DEF TakeTime
    <2>4. found_times' = Append(<<b>>, a)
      BY <1>6, <1>9, <2>3 DEF b
    <2>5. ASSUME NEW S, NEW x \in S, NEW y \in S PROVE Append(<<x>>, y) = <<x, y>>
      <3>1. /\ Append(<<x>>, y) \in Seq(S) /\ Len(Append(<<x>>, y)) = 2
            /\ Append(<<x>>, y)[1] = x /\ Append(<<x>>, y)[2] = y
        OBVIOUS
      <3>2. <<x, y>> \in Seq(S) /\ Len(<<x, y>>) = 2
        OBVIOUS
      <3>3. \A k \in 1..2 : Append(<<x>>, y)[k] = <<x, y>>[k]
        BY <3>1
      <3> QED
        BY <3>1, <3>2, <3>3, SeqEqual
    <2>6. found_times' = <<b, a>>
      BY <1>3, <2>4, <2>5
    <2> QED
      BY <2>6 DEF a, b
  <1>10. CASE found_times = <<First, Second>>
    <2>1. Len(found_times) = 2
      BY <1>10
    <2> QED
      BY <2>1 DEF Scan, PassOver, TakeTime, Scanning
  <1> QED
    BY <1>7, <1>8, <1>9, <1>10 DEF OnTheWay

\* Where the loop ends.
LEMMA WayEnds == OnTheWay => ExpiryFound
  <1> SUFFICES ASSUME OnTheWay, ~Scanning, Clean PROVE NotAfter = Second
    BY DEF ExpiryFound, Clean, Before, Second
  <1>1. /\ FirstTag \in Nat /\ SecondTag \in Nat /\ Len(der) \in Nat
        /\ Len(First) \in Nat \ {0} /\ Len(Second) \in Nat \ {0}
        /\ SecondTag + 2 + Len(Second) <= Len(der)
        /\ SecondTag = FirstTag + 2 + Len(First)
    BY DerLaidOut DEF OnTheWay, FirstTag, SecondTag
  <1>a. SecondTag + 2 < Len(der)
    BY <1>1
  <1>2. ~(pos \in 0..FirstTag /\ found_times = << >>)
    <2> SUFFICES ASSUME pos \in 0..FirstTag, found_times = << >> PROVE Scanning
      OBVIOUS
    <2>1. Len(found_times) < 2
      OBVIOUS
    <2>2. pos + 2 < Len(der)
      BY <1>1
    <2> QED
      BY <2>1, <2>2 DEF Scanning
  <1>3. ~(pos = SecondTag /\ found_times = <<First>>)
    <2> SUFFICES ASSUME pos = SecondTag, found_times = <<First>> PROVE Scanning
      OBVIOUS
    <2>1. Len(found_times) < 2
      OBVIOUS
    <2> QED
      BY <1>a, <2>1 DEF Scanning
  <1>4. found_times = <<First, Second>>
    BY <1>2, <1>3 DEF OnTheWay
  <1> QED
    BY <1>4 DEF NotAfter

(***************************************************************************)
(* For every certificate: the loop of days_until_expiry ends with          *)
(* notAfter, unless a byte before the validity looks like a time's tag.    *)
(***************************************************************************)
THEOREM ExpiryIsFound == ScanSpec => []ExpiryFound
  <1>1. ScanInit => OnTheWay
    <2> SUFFICES ASSUME ScanInit PROVE OnTheWay
      OBVIOUS
    <2>1. FirstTag \in Nat
      BY DerLaidOut DEF ScanInit
    <2> QED
      BY <2>1 DEF ScanInit, OnTheWay
  <1>2. OnTheWay /\ [Scan]_scanVars => OnTheWay'
    <2>1. OnTheWay /\ UNCHANGED scanVars => OnTheWay'
      BY DEF OnTheWay, scanVars, Clean, FirstTag, SecondTag, Before, First, Second
    <2> QED
      BY <2>1, ScanStep
  <1> QED
    BY <1>1, <1>2, WayEnds, PTL DEF ScanSpec

-----------------------------------------------------------------------------
(***************************************************************************)
(* Networks                                                                *)
(***************************************************************************)

\* The mask of a prefix has the bits of the prefix and no other.
LEMMA MaskIsPrefix ==
  ASSUME NEW len \in 0..Width
  PROVE  Mask(len) = Width - len..Width - 1
  <1>1. CASE len = 0
    BY <1>1, WidthAssumption DEF Mask
  <1>2. CASE len # 0
    <2>1. Mask(len) \subseteq Width - len..Width - 1
      BY <1>2, WidthAssumption DEF Mask, Shl, Bits
    <2>2. ASSUME NEW k \in Width - len..Width - 1 PROVE k \in Mask(len)
      <3>1. k - (Width - len) \in Bits /\ k \in Bits /\ k = (k - (Width - len)) + (Width - len)
        BY <1>2, WidthAssumption DEF Bits
      <3> QED
        BY <1>2, <3>1 DEF Mask, Shl
    <2> QED
      BY <2>1, <2>2
  <1> QED
    BY <1>1, <1>2

\* The pair of a line, and when an address is in it.
Pair(line) == [net |-> line.ip \cap Mask(line.len), mask |-> Mask(line.len)]

\* An address is in the pair of a line when it shares the line's prefix.
LEMMA PairMatches ==
  ASSUME NEW line \in Lines, Valid(line), NEW n \in Numbers
  PROVE  n \cap Pair(line).mask = Pair(line).net <=> SamePrefix(n, line)
  <1>1. line.len \in 0..Width
    BY WidthAssumption DEF Lines, Valid
  <1>2. Mask(line.len) = Width - line.len..Width - 1
    BY <1>1, MaskIsPrefix
  <1>3. Pair(line).mask = Mask(line.len) /\ Pair(line).net = line.ip \cap Mask(line.len)
    BY DEF Pair
  <1> QED
    BY <1>2, <1>3 DEF SamePrefix

\* The loop over the lines: the pairs are those of the lines that parse.
Parsed ==
  /\ text \in Seq(Lines)
  /\ nets \in Seq([net : Numbers, mask : Numbers])
  /\ \A i \in DOMAIN nets : \E j \in DOMAIN text : Valid(text[j]) /\ nets[i] = Pair(text[j])
  /\ \A j \in DOMAIN text : Valid(text[j]) => \E i \in DOMAIN nets : nets[i] = Pair(text[j])

\* One turn of the loop over the lines.
LEMMA LineRead ==
  ASSUME Parsed, NEW line \in Lines, ReadLine(line)
  PROVE  Parsed'
  <1>1. /\ text \in Seq(Lines) /\ Len(text) \in Nat /\ DOMAIN text = 1..Len(text)
        /\ nets \in Seq([net : Numbers, mask : Numbers])
        /\ Len(nets) \in Nat /\ DOMAIN nets = 1..Len(nets)
    BY DEF Parsed
  <1>2. /\ text' \in Seq(Lines) /\ DOMAIN text' = 1..Len(text) + 1
        /\ \A j \in 1..Len(text) : text'[j] = text[j]
        /\ text'[Len(text) + 1] = line
    BY <1>1 DEF ReadLine
  <1>3. CASE ~Valid(line)
    <2>1. ParseCidr(line) = << >>
      BY <1>3, WidthAssumption DEF ParseCidr, Valid, Lines
    <2>2. nets' = nets
      BY <1>1, <2>1 DEF ReadLine
    <2>3. ASSUME NEW i \in DOMAIN nets
          PROVE  \E j \in DOMAIN text' : Valid(text'[j]) /\ nets[i] = Pair(text'[j])
      <3>1. PICK j \in DOMAIN text : Valid(text[j]) /\ nets[i] = Pair(text[j])
        BY DEF Parsed
      <3>2. j \in DOMAIN text' /\ text'[j] = text[j]
        BY <1>1, <1>2
      <3> QED
        BY <3>1, <3>2
    <2>4. ASSUME NEW j \in DOMAIN text', Valid(text'[j])
          PROVE  \E i \in DOMAIN nets : nets[i] = Pair(text'[j])
      <3>1. j # Len(text) + 1
        BY <1>2, <1>3, <2>4
      <3>2. j \in DOMAIN text /\ text'[j] = text[j]
        BY <1>1, <1>2, <3>1
      <3> QED
        BY <2>4, <3>2 DEF Parsed
    <2> QED
      BY <1>1, <1>2, <2>2, <2>3, <2>4 DEF Parsed
  <1>4. CASE Valid(line)
    <2>1. line.ip \in Numbers /\ line.len \in 0..Width /\ line # Invalid /\ line.form = "v4"
      BY <1>4, WidthAssumption DEF Valid, Lines
    <2>2. ParseCidr(line) = <<Pair(line)>>
      <3>1. ~(line.len > Width)
        BY <2>1, WidthAssumption
      <3> QED
        BY <2>1, <3>1, Zenon DEF ParseCidr, Pair
    <2>3. Mask(line.len) \subseteq Bits
      BY DEF Mask, Shl
    <2>4. Pair(line) \in [net : Numbers, mask : Numbers]
      BY <2>1, <2>3 DEF Pair, Numbers
    <2>5. /\ nets' \in Seq([net : Numbers, mask : Numbers]) /\ DOMAIN nets' = 1..Len(nets) + 1
          /\ \A i \in 1..Len(nets) : nets'[i] = nets[i]
          /\ nets'[Len(nets) + 1] = Pair(line)
      <3>1. nets' = nets \o <<Pair(line)>>
        BY <2>2 DEF ReadLine
      <3> QED
        BY <1>1, <2>4, <3>1
    <2>6. ASSUME NEW i \in DOMAIN nets'
          PROVE  \E j \in DOMAIN text' : Valid(text'[j]) /\ nets'[i] = Pair(text'[j])
      <3>1. CASE i \in 1..Len(nets)
        <4>1. PICK j \in DOMAIN text : Valid(text[j]) /\ nets[i] = Pair(text[j])
          BY <1>1, <3>1 DEF Parsed
        <4>2. j \in DOMAIN text' /\ text'[j] = text[j] /\ nets'[i] = nets[i]
          BY <1>1, <1>2, <2>5, <3>1
        <4> QED
          BY <4>1, <4>2
      <3>2. CASE i = Len(nets) + 1
        BY <1>1, <1>2, <1>4, <2>5, <3>2
      <3> QED
        BY <1>1, <2>5, <3>1, <3>2
    <2>7. ASSUME NEW j \in DOMAIN text', Valid(text'[j])
          PROVE  \E i \in DOMAIN nets' : nets'[i] = Pair(text'[j])
      <3>1. CASE j \in 1..Len(text)
        <4>1. PICK i \in DOMAIN nets : nets[i] = Pair(text[j])
          BY <1>1, <1>2, <2>7, <3>1 DEF Parsed
        <4> QED
          BY <1>1, <1>2, <2>5, <3>1, <4>1
      <3>2. CASE j = Len(text) + 1
        <4>1. Len(nets) + 1 \in DOMAIN nets'
          BY <1>1, <2>5
        <4> QED
          BY <1>2, <2>5, <3>2, <4>1
      <3> QED
        BY <1>1, <1>2, <3>1, <3>2
    <2> QED
      BY <1>2, <2>5, <2>6, <2>7 DEF Parsed
  <1> QED
    BY <1>3, <1>4

\* An address is in one of the pairs exactly when it is in one of the lines.
LEMMA ParsedMatches == Parsed => CidrMatches
  <1> SUFFICES ASSUME Parsed, NEW ip \in Addresses
               PROVE  LET in == \E i \in DOMAIN text : Valid(text[i]) /\ SamePrefix(ip.n, text[i])
                      IN  /\ IsDenied(ip) <=> ip.form # "v6" /\ in
                          /\ IpInCidr(ip) <=> \/ \A i \in DOMAIN text : ~Valid(text[i])
                                              \/ ip.form = "v4" /\ in
    BY DEF CidrMatches
  <1>1. ip.n \in Numbers /\ text \in Seq(Lines) /\ \A i \in DOMAIN text : text[i] \in Lines
    BY DEF Addresses, Parsed
  <1>2. InSome(ip.n) <=> \E i \in DOMAIN text : Valid(text[i]) /\ SamePrefix(ip.n, text[i])
    <2>1. ASSUME NEW i \in DOMAIN text, Valid(text[i])
          PROVE  ip.n \cap Pair(text[i]).mask = Pair(text[i]).net <=> SamePrefix(ip.n, text[i])
      BY <1>1, <2>1, PairMatches
    <2> QED
      BY <2>1 DEF InSome, Parsed
  <1>3. nets = << >> <=> \A i \in DOMAIN text : ~Valid(text[i])
    <2>1. nets = << >> <=> DOMAIN nets = {}
      BY DEF Parsed
    <2> QED
      BY <2>1 DEF Parsed
  <1> QED
    BY <1>2, <1>3 DEF IsDenied, IpInCidr

(***************************************************************************)
(* For addresses of any width and lists of any length: is_denied and       *)
(* ip_in_cidr match exactly the addresses that share their prefix with a   *)
(* line that parses.                                                       *)
(***************************************************************************)
THEOREM CidrIsExact == CidrSpec => []CidrMatches
  <1>1. CidrInit => Parsed
    BY DEF CidrInit, Parsed
  <1>2. Parsed /\ [\E line \in Lines : ReadLine(line)]_<<text, nets>> => Parsed'
    <2>1. Parsed /\ UNCHANGED <<text, nets>> => Parsed'
      BY DEF Parsed
    <2> QED
      BY <2>1, LineRead
  <1> QED
    BY <1>1, <1>2, ParsedMatches, PTL DEF CidrSpec

-----------------------------------------------------------------------------
(***************************************************************************)
(* Settings                                                                *)
(***************************************************************************)

\* Which source of a setting wins, whatever each of them holds.
LEMMA SettingsTable ==
  ASSUME sources \in Sources
  PROVE  SettingsResolved
  <1> USE SettingsAssumption DEF Sources, Files, Contents
  <1>1. ~(sources.flag \in {Absent, Default}) => Setting(sources) = sources.flag
    BY DEF Setting, ApplyFileConfig
  <1> QED
    BY <1>1 DEF SettingsResolved, Setting, ApplyFileConfig, LoadFileConfig, ValueIn

(***************************************************************************)
(* For every set of values: load_file_config and apply_file_config find    *)
(* the setting where the precedence says.                                  *)
(***************************************************************************)
THEOREM SettingsAreResolved == SettingsSpec => []SettingsResolved
  <1>1. SettingsInit => sources \in Sources
    BY DEF SettingsInit, Sources, Files
  <1>2. sources \in Sources /\ [Change]_sources => (sources \in Sources)'
    BY DEF Change, ChangeFlag, ChangeConfig, ChangeHome, ChangeEtc, Sources
  <1> QED
    BY <1>1, <1>2, SettingsTable, PTL DEF SettingsSpec

\* What the client would load is what was given last.
FileLoads == file \in Configs \cup {NoFile, Malformed} /\ given = Load(file)

(***************************************************************************)
(* For every set of fields and values: a client that is started uses what  *)
(* was given last, by flag or by `config init`.                            *)
(***************************************************************************)
THEOREM ClientKeepsSettings == ConfigSpec => []ClientSettingsKept
  <1>a. Empty \in Configs
    BY DEF Empty, Configs
  <1>b. \A x \in Configs : Load(x) = x
    BY FileAssumption DEF Load
  <1>1. FreshConfig => FileLoads
    BY DEF FreshConfig, FileLoads, Load
  <1>2. ASSUME FileLoads, [ConfigNext]_<<file, given>> PROVE FileLoads'
    <2>1. CASE UNCHANGED <<file, given>>
      BY <1>2, <2>1 DEF FileLoads, Load
    <2>2. CASE \E new \in Configs : Save(new)
      <3>1. PICK new \in Configs : Save(new)
        BY <2>2
      <3>2. Load(file) \in Configs
        BY <1>2, <1>a, <1>b DEF FileLoads, Load
      <3>3. file' \in Configs /\ given' = file'
        BY <1>2, <3>1, <3>2 DEF Save, Merged, FileLoads, Configs
      <3> QED
        BY <1>b, <3>3 DEF FileLoads
    <2>3. CASE Clear
      BY <1>a, <1>b, <2>3 DEF Clear, FileLoads
    <2>4. CASE EditByHand
      BY <2>4 DEF EditByHand, FileLoads
    <2> QED
      BY <1>2, <2>1, <2>2, <2>3, <2>4 DEF ConfigNext
  <1>3. FileLoads => ClientSettingsKept
    BY DEF FileLoads, ClientSettingsKept, ClientSetting
  <1> QED
    BY <1>1, <1>2, <1>3, PTL DEF ConfigSpec

=============================================================================
