----------------------------- MODULE DatesProofs ----------------------------
(***************************************************************************)
(* What Dates says of the date functions, at every hour and not only those *)
(* its run goes through, and of series of any length.  (CivilTime agrees   *)
(* with the calendar on the wall until 2099.)                              *)
(*                                                                         *)
(* The proofs go by years: a year begins on the day YearStart, a month     *)
(* begins a fixed number of days into it, and summer time is one stretch   *)
(* in its middle, so that ten days before and after a year the clocks are  *)
(* still told by that stretch.                                             *)
(***************************************************************************)
EXTENDS Dates, WellFoundedInduction, TLAPS

(* The days before a year, counted from 2024, and its 29 February.         *)
YearStart(y) == 365 * y + (y + 3) \div 4

LeapDay(y) == IF y % 4 = 0 THEN 1 ELSE 0

-----------------------------------------------------------------------------
(* Years and months.                                                       *)

(* The days of a common year before each of its months.                    *)
LEMMA DaysBeforeMonths ==
  /\ DaysBefore[1] = 0 /\ DaysBefore[2] = 31 /\ DaysBefore[3] = 59 /\ DaysBefore[4] = 90
  /\ DaysBefore[5] = 120 /\ DaysBefore[6] = 151 /\ DaysBefore[7] = 181 /\ DaysBefore[8] = 212
  /\ DaysBefore[9] = 243 /\ DaysBefore[10] = 273 /\ DaysBefore[11] = 304 /\ DaysBefore[12] = 334
  BY DEF DaysBefore

(* A year has 365 days, and one more if it is a leap year.                 *)
LEMMA YearLength ==
  ASSUME NEW y \in Nat
  PROVE  /\ YearStart(y) \in Nat /\ LeapDay(y) \in {0, 1}
         /\ YearStart(y + 1) = YearStart(y) + 365 + LeapDay(y)
<1> DEFINE q == y \div 4
           r == y % 4
<1>1. y = 4 * q + r /\ q \in Nat /\ r \in 0 .. 3
  OBVIOUS
<1>2. (y + 3) \div 4 = (IF r = 0 THEN q ELSE q + 1) /\ (y + 4) \div 4 = q + 1
  BY <1>1
<1> HIDE DEF q
<1> QED
  BY <1>1, <1>2 DEF YearStart, LeapDay

(* A month of a year begins a fixed number of days into it, but for the    *)
(* leap day.                                                               *)
LEMMA MonthInYear ==
  ASSUME NEW y \in Nat, NEW k \in 0 .. 11
  PROVE  /\ FirstDay(12 * y + k) = YearStart(y) + DaysBefore[k + 1] + (IF k > 1 THEN LeapDay(y) ELSE 0)
         /\ FirstDay(12 * y + 12) = YearStart(y + 1)
<1>1. (12 * y + k) \div 12 = y /\ (12 * y + k) % 12 = k
  OBVIOUS
<1>2. (12 * y + 12) \div 12 = y + 1 /\ (12 * y + 12) % 12 = 0
  OBVIOUS
<1> QED
  BY <1>1, <1>2, DaysBeforeMonths DEF FirstDay, YearStart, LeapDay

(* Every month is one of the twelve of its year.                           *)
LEMMA YearAndMonth ==
  ASSUME NEW m \in Nat
  PROVE  \E y \in Nat, k \in 0 .. 11 : m = 12 * y + k /\ m \div 12 = y
<1>1. m \div 12 \in Nat /\ m % 12 \in 0 .. 11 /\ m = 12 * (m \div 12) + (m % 12)
  OBVIOUS
<1> QED
  BY <1>1
(* A month has 28 to 31 days, two months 59 to 62, three at least 89.      *)
LEMMA MonthLengths ==
  ASSUME NEW m \in Nat
  PROVE  /\ FirstDay(m) \in Nat
         /\ FirstDay(m + 1) - FirstDay(m) \in 28 .. 31
         /\ FirstDay(m + 2) - FirstDay(m) \in 59 .. 62
         /\ FirstDay(m + 3) - FirstDay(m) \in 89 .. 92
<1>1. PICK y \in Nat, k \in 0 .. 11 : m = 12 * y + k
  BY YearAndMonth
<1>2. /\ YearStart(y) \in Nat /\ LeapDay(y) \in {0, 1} /\ LeapDay(y + 1) \in {0, 1}
      /\ YearStart(y + 1) = YearStart(y) + 365 + LeapDay(y)
  BY YearLength
<1>3. \A n \in 0 .. 11 :
        /\ FirstDay(12 * y + n) = YearStart(y) + DaysBefore[n + 1] + (IF n > 1 THEN LeapDay(y) ELSE 0)
        /\ FirstDay(12 * y + 12 + n) = YearStart(y + 1) + DaysBefore[n + 1] + (IF n > 1 THEN LeapDay(y + 1) ELSE 0)
  <2> TAKE n \in 0 .. 11
  <2>1. 12 * y + 12 + n = 12 * (y + 1) + n /\ y + 1 \in Nat
    OBVIOUS
  <2>2. FirstDay(12 * y + n) = YearStart(y) + DaysBefore[n + 1] + (IF n > 1 THEN LeapDay(y) ELSE 0)
    BY MonthInYear
  <2>3. FirstDay(12 * (y + 1) + n)
          = YearStart(y + 1) + DaysBefore[n + 1] + (IF n > 1 THEN LeapDay(y + 1) ELSE 0)
    BY <2>1, MonthInYear
  <2> QED
    BY <2>1, <2>2, <2>3
<1>4. FirstDay(12 * y + 12) = YearStart(y + 1)
  BY MonthInYear
<1>5. LeapDay(y) = 0 \/ LeapDay(y + 1) = 0
  BY DEF LeapDay
<1> DEFINE F(n) == FirstDay(12 * y + n)
<1>6. /\ F(0) = YearStart(y) /\ F(1) = YearStart(y) + 31 /\ F(2) = YearStart(y) + 59 + LeapDay(y)
      /\ F(3) = YearStart(y) + 90 + LeapDay(y) /\ F(4) = YearStart(y) + 120 + LeapDay(y)
      /\ F(5) = YearStart(y) + 151 + LeapDay(y) /\ F(6) = YearStart(y) + 181 + LeapDay(y)
      /\ F(7) = YearStart(y) + 212 + LeapDay(y) /\ F(8) = YearStart(y) + 243 + LeapDay(y)
      /\ F(9) = YearStart(y) + 273 + LeapDay(y) /\ F(10) = YearStart(y) + 304 + LeapDay(y)
      /\ F(11) = YearStart(y) + 334 + LeapDay(y)
  BY <1>2, <1>3, DaysBeforeMonths
<1>7. /\ F(12) = YearStart(y) + 365 + LeapDay(y) /\ F(13) = YearStart(y) + 396 + LeapDay(y)
      /\ F(14) = YearStart(y) + 424 + LeapDay(y) + LeapDay(y + 1)
  <2>1. 12 * y + 13 = 12 * y + 12 + 1 /\ 12 * y + 14 = 12 * y + 12 + 2
    OBVIOUS
  <2>2. /\ FirstDay(12 * y + 12 + 1) = YearStart(y + 1) + DaysBefore[1 + 1] + 0
        /\ FirstDay(12 * y + 12 + 2) = YearStart(y + 1) + DaysBefore[2 + 1] + LeapDay(y + 1)
    BY <1>3
  <2> QED
    BY <1>2, <1>4, <2>1, <2>2, DaysBeforeMonths
<1>8. /\ FirstDay(m) = F(k) /\ FirstDay(m + 1) = F(k + 1)
      /\ FirstDay(m + 2) = F(k + 2) /\ FirstDay(m + 3) = F(k + 3)
  <2>1. m + 1 = 12 * y + (k + 1) /\ m + 2 = 12 * y + (k + 2) /\ m + 3 = 12 * y + (k + 3)
    BY <1>1
  <2> QED
    BY <1>1, <2>1
<1> HIDE DEF F
<1>9. \A n \in 0 .. 11 :
        /\ F(n) \in Nat
        /\ F(n + 1) - F(n) \in 28 .. 31 /\ F(n + 2) - F(n) \in 59 .. 62 /\ F(n + 3) - F(n) \in 89 .. 92
  BY <1>2, <1>5, <1>6, <1>7
<1> QED
  BY <1>8, <1>9
(* Months lie one after the other.                                         *)
LEMMA MonthsInOrder ==
  ASSUME NEW m \in Nat, NEW n \in Nat, m < n
  PROVE  FirstDay(m + 1) <= FirstDay(n)
<1>1. PICK y \in Nat, k \in 0 .. 11 : m = 12 * y + k
  BY YearAndMonth
<1>2. PICK z \in Nat, l \in 0 .. 11 : n = 12 * z + l
  BY YearAndMonth
<1>3. /\ YearStart(y) \in Nat /\ LeapDay(y) \in {0, 1}
      /\ YearStart(y + 1) = YearStart(y) + 365 + LeapDay(y)
      /\ YearStart(z) \in Nat /\ LeapDay(z) \in {0, 1}
  BY YearLength
<1>4. FirstDay(n) = YearStart(z) + DaysBefore[l + 1] + (IF l > 1 THEN LeapDay(z) ELSE 0)
  BY <1>2, MonthInYear
<1>5. FirstDay(m + 1) = IF k = 11 THEN YearStart(y + 1)
                        ELSE YearStart(y) + DaysBefore[k + 2] + (IF k > 0 THEN LeapDay(y) ELSE 0)
  <2>1. CASE k = 11
    <3>1. m + 1 = 12 * y + 12
      BY <1>1, <2>1
    <3> QED
      BY <2>1, <3>1, MonthInYear
  <2>2. CASE k # 11
    <3>1. m + 1 = 12 * y + (k + 1) /\ k + 1 \in 0 .. 11 /\ k + 1 + 1 = k + 2
      BY <1>1, <2>2
    <3>2. FirstDay(12 * y + (k + 1))
            = YearStart(y) + DaysBefore[k + 1 + 1] + (IF k + 1 > 1 THEN LeapDay(y) ELSE 0)
      BY <3>1, MonthInYear
    <3> QED
      BY <2>2, <3>1, <3>2
  <2> QED
    BY <2>1, <2>2
<1>6. CASE y = z
  <2>1. k < l
    BY <1>1, <1>2, <1>6
  <2> QED
    BY <1>3, <1>4, <1>5, <1>6, <2>1, DaysBeforeMonths
<1>7. CASE y # z
  <2>1. y + 1 <= z
    BY <1>1, <1>2, <1>7
  <2>2. YearStart(y + 1) <= YearStart(z)
    BY <2>1 DEF YearStart
  <2>3. FirstDay(m + 1) <= YearStart(y + 1)
    BY <1>3, <1>5, DaysBeforeMonths
  <2>4. YearStart(z) <= FirstDay(n)
    BY <1>3, <1>4, DaysBeforeMonths
  <2>5. FirstDay(m + 1) \in Int /\ YearStart(y + 1) \in Int /\ FirstDay(n) \in Int
    BY <1>3, MonthLengths
  <2> QED
    BY <1>3, <2>2, <2>3, <2>4, <2>5
<1> QED
  BY <1>6, <1>7

(* Every day is in some year.                                              *)
LEMMA YearOfDay ==
  ASSUME NEW d \in Nat
  PROVE  \E y \in Nat : YearStart(y) <= d /\ d < YearStart(y + 1)
<1> DEFINE y == (4 * d) \div 1461
<1>1. y \in Nat /\ 1461 * y <= 4 * d /\ 4 * d < 1461 * (y + 1)
  OBVIOUS
<1> HIDE DEF y
<1>2. YearStart(y) <= d /\ d < YearStart(y + 1)
  BY <1>1 DEF YearStart
<1> QED
  BY <1>1, <1>2

(* Where MonthOf looks for the month of a day.                             *)
LEMMA MonthBounds ==
  ASSUME NEW m \in Nat
  PROVE  28 * m <= FirstDay(m) /\ FirstDay(m) <= 31 * m
<1>1. PICK y \in Nat, k \in 0 .. 11 : m = 12 * y + k
  BY YearAndMonth
<1>2. 365 * y <= YearStart(y) /\ YearStart(y) <= 366 * y
  BY DEF YearStart
<1>3. FirstDay(m) = YearStart(y) + DaysBefore[k + 1] + (IF k > 1 THEN LeapDay(y) ELSE 0)
  BY <1>1, MonthInYear
<1>4. LeapDay(y) \in {0, 1} /\ YearStart(y) \in Nat
  BY YearLength
<1> QED
  BY <1>1, <1>2, <1>3, <1>4, DaysBeforeMonths

(* A day is in the month MonthOf tells.                                    *)
LEMMA MonthOfDay ==
  ASSUME NEW d \in Nat
  PROVE  MonthOf(d) \in Nat /\ FirstDay(MonthOf(d)) <= d /\ d < FirstDay(MonthOf(d) + 1)
<1>1. PICK y \in Nat : YearStart(y) <= d /\ d < YearStart(y + 1)
  BY YearOfDay
<1>2. \E m \in Nat : FirstDay(m) <= d /\ d < FirstDay(m + 1)
  <2> DEFINE F(n) == FirstDay(12 * y + n)
  <2>1. F(0) <= d /\ d < F(12)
    <3>1. 0 \in 0 .. 11
      OBVIOUS
    <3>2. /\ FirstDay(12 * y + 0) = YearStart(y) + DaysBefore[0 + 1] + (IF 0 > 1 THEN LeapDay(y) ELSE 0)
          /\ FirstDay(12 * y + 12) = YearStart(y + 1)
      BY <3>1, MonthInYear
    <3> QED
      BY <1>1, <3>2, DaysBeforeMonths, YearLength
  <2>2. \A n \in 0 .. 11 : F(n) \in Nat /\ F(n + 1) \in Nat /\ F(n + 1) = FirstDay(12 * y + n + 1)
    <3> TAKE n \in 0 .. 11
    <3>1. 12 * y + n \in Nat /\ 12 * y + (n + 1) = 12 * y + n + 1
      OBVIOUS
    <3>2. FirstDay(12 * y + n) \in Nat /\ FirstDay(12 * y + n + 1) \in Nat
      BY <3>1, MonthLengths
    <3> QED
      BY <3>1, <3>2
  <2> HIDE DEF F
  <2>3. \E n \in 0 .. 11 : F(n) <= d /\ d < F(n + 1)
    <3>1. \/ (F(0) <= d /\ d < F(1))
          \/ (F(1) <= d /\ d < F(2))
          \/ (F(2) <= d /\ d < F(3))
          \/ (F(3) <= d /\ d < F(4))
          \/ (F(4) <= d /\ d < F(5))
          \/ (F(5) <= d /\ d < F(6))
          \/ (F(6) <= d /\ d < F(7))
          \/ (F(7) <= d /\ d < F(8))
          \/ (F(8) <= d /\ d < F(9))
          \/ (F(9) <= d /\ d < F(10))
          \/ (F(10) <= d /\ d < F(11))
          \/ (F(11) <= d /\ d < F(12))
      <4>1. /\ F(0) \in Nat /\ F(1) \in Nat /\ F(2) \in Nat /\ F(3) \in Nat /\ F(4) \in Nat
            /\ F(5) \in Nat /\ F(6) \in Nat /\ F(7) \in Nat /\ F(8) \in Nat /\ F(9) \in Nat
            /\ F(10) \in Nat /\ F(11) \in Nat
            /\ F(11 + 1) \in Nat
        BY <2>2
      <4> QED
        BY <2>1, <4>1
    <3> QED
      BY <3>1
  <2>4. PICK n \in 0 .. 11 : F(n) <= d /\ d < F(n + 1)
    BY <2>3
  <2>5. FirstDay(12 * y + n) <= d /\ d < FirstDay(12 * y + n + 1) /\ 12 * y + n \in Nat
    BY <2>2, <2>4 DEF F
  <2> QED
    BY <2>5
<1>3. PICK m \in Nat : FirstDay(m) <= d /\ d < FirstDay(m + 1)
  BY <1>2
<1>4. m \in d \div 31 .. d \div 28
  <2>1. 28 * m <= FirstDay(m) /\ FirstDay(m) \in Nat
    BY MonthBounds, MonthLengths
  <2>2. m + 1 \in Nat
    OBVIOUS
  <2>3. FirstDay(m + 1) <= 31 * (m + 1) /\ FirstDay(m + 1) \in Nat
    BY <2>2, MonthBounds, MonthLengths
  <2>4. 28 * m <= d /\ d < 31 * (m + 1)
    BY <1>3, <2>1, <2>3
  <2> QED
    BY <2>4
<1>5. d \div 31 \in Nat
  OBVIOUS
<1>6. MonthOf(d) \in d \div 31 .. d \div 28 /\ FirstDay(MonthOf(d)) <= d /\ d < FirstDay(MonthOf(d) + 1)
  BY <1>3, <1>4 DEF MonthOf
<1> QED
  BY <1>5, <1>6

(* A month that has the day is the month of the day.                       *)
LEMMA MonthIs ==
  ASSUME NEW d \in Nat, NEW m \in Nat, FirstDay(m) <= d, d < FirstDay(m + 1)
  PROVE  MonthOf(d) = m
<1>1. MonthOf(d) \in Nat /\ FirstDay(MonthOf(d)) <= d /\ d < FirstDay(MonthOf(d) + 1)
  BY MonthOfDay
<1> DEFINE n == MonthOf(d)
<1> HIDE DEF n
<1>2. n \in Nat /\ FirstDay(n) <= d /\ d < FirstDay(n + 1)
  BY <1>1 DEF n
<1>3. FirstDay(m) \in Nat /\ FirstDay(m + 1) \in Nat /\ FirstDay(n) \in Nat /\ FirstDay(n + 1) \in Nat
  BY <1>2, MonthLengths
<1>4. ~ (m < n)
  BY <1>2, <1>3, MonthsInOrder
<1>5. ~ (n < m)
  BY <1>2, <1>3, MonthsInOrder
<1> QED
  BY <1>2, <1>4, <1>5 DEF n
-----------------------------------------------------------------------------
(* The window of a search.                                                 *)

(* 62 days from a day are in the second month after its own or the third.  *)
LEMMA SixtyTwoDaysOn ==
  ASSUME NEW d \in Nat
  PROVE  /\ MonthOf(d + 62) \in {MonthOf(d) + 2, MonthOf(d) + 3}
         /\ d = FirstDay(MonthOf(d)) => MonthOf(d + 62) = MonthOf(d) + 2
<1> DEFINE m == MonthOf(d)
<1>1. m \in Nat /\ FirstDay(m) <= d /\ d < FirstDay(m + 1)
  BY MonthOfDay
<1> HIDE DEF m
<1>2. /\ FirstDay(m) \in Nat /\ FirstDay(m + 1) - FirstDay(m) \in 28 .. 31
      /\ FirstDay(m + 2) - FirstDay(m) \in 59 .. 62 /\ FirstDay(m + 3) - FirstDay(m) \in 89 .. 92
  BY <1>1, MonthLengths
<1>3. m + 1 \in Nat /\ m + 1 + 1 = m + 2 /\ m + 1 + 2 = m + 3 /\ m + 1 + 3 = m + 4
  BY <1>1
<1>4. /\ FirstDay(m + 1) \in Nat /\ FirstDay(m + 3) - FirstDay(m + 1) \in 59 .. 62
      /\ FirstDay(m + 4) - FirstDay(m + 1) \in 89 .. 92
  BY <1>3, MonthLengths
<1>5. FirstDay(m + 2) \in Nat /\ FirstDay(m + 3) \in Nat /\ FirstDay(m + 4) \in Nat
  <2>1. m + 2 \in Nat /\ m + 3 \in Nat /\ m + 4 \in Nat
    BY <1>1
  <2> QED
    BY <2>1, MonthLengths
<1>6. FirstDay(m + 2) <= d + 62 /\ d + 62 < FirstDay(m + 4)
  BY <1>1, <1>2, <1>4, <1>5
<1>7. CASE d + 62 < FirstDay(m + 3)
  <2>1. m + 2 \in Nat /\ m + 2 + 1 = m + 3 /\ d + 62 \in Nat
    BY <1>1
  <2>2. MonthOf(d + 62) = m + 2
    BY <1>6, <1>7, <2>1, MonthIs
  <2> QED
    BY <2>2 DEF m
<1>8. CASE ~ (d + 62 < FirstDay(m + 3))
  <2>1. m + 3 \in Nat /\ m + 3 + 1 = m + 4 /\ d + 62 \in Nat
    BY <1>1
  <2>2. FirstDay(m + 3) <= d + 62
    BY <1>5, <1>8
  <2>3. MonthOf(d + 62) = m + 3
    BY <1>6, <2>1, <2>2, MonthIs
  <2>4. d # FirstDay(m)
    BY <1>2, <1>5, <2>2
  <2> QED
    BY <2>3, <2>4 DEF m
<1> QED
  BY <1>7, <1>8

(* The clock of Dates shows an hour.                                       *)
TypeOK == now \in Nat

(* The clock always shows an hour.                                         *)
LEMMA HourAlways ==
  Spec => []TypeOK
<1>1. Init => TypeOK
  BY HoursAssumption DEF Init, TypeOK
<1>2. TypeOK /\ [Tick]_now => TypeOK'
  BY DEF Tick, TypeOK
<1> QED
  BY <1>1, <1>2, PTL DEF Spec

(* At every hour the window without dates is the current month and the     *)
(* next, and a window with a start holds the month after it: the jump of   *)
(* 62 days in get_events never falls short nor goes a month too far.       *)
THEOREM WindowsReach ==
  Spec => []WindowReachesNextMonth
<1>1. TypeOK => WindowReachesNextMonth
  <2> SUFFICES ASSUME now \in Nat
               PROVE  WindowReachesNextMonth
    BY DEF TypeOK
  <2> DEFINE d == Day(now)
             f == FirstDay(MonthOf(d))
  <2>1. d \in Nat
    BY DEF Day
  <2> HIDE DEF d
  <2>2. MonthOf(d) \in Nat
    BY <2>1, MonthOfDay
  <2>3. f \in Nat /\ f < FirstDay(MonthOf(d) + 1)
    BY <2>2, MonthLengths
  <2>4. MonthOf(f) = MonthOf(d)
    BY <2>2, <2>3, MonthIs
  <2>5. MonthOf(f + 62) = MonthOf(d) + 2
    BY <2>3, <2>4, SixtyTwoDaysOn
  <2>6. MonthOf(d + 62) \in {MonthOf(d) + 2, MonthOf(d) + 3}
    BY <2>1, SixtyTwoDaysOn
  <2>7. SearchEnd(SearchStart(now)) = FirstDay(MonthOf(d) + 2)
    BY <2>5 DEF SearchEnd, SearchStart, d
  <2>8. SearchEnd(d) \in {FirstDay(MonthOf(d) + n) : n \in {2, 3}}
    BY <2>6 DEF SearchEnd
  <2> QED
    BY <2>7, <2>8 DEF WindowReachesNextMonth, d
<1> QED
  BY <1>1, HourAlways, PTL
-----------------------------------------------------------------------------
(* The clocks.                                                             *)

(* The hours of midnight, in UTC, of the days summer time begins and ends. *)
SummerStart(y) == 24 * LastSunday(12 * y + 2)
SummerEnd(y) == 24 * LastSunday(12 * y + 9)

(* Summer time begins near the end of March and ends near that of October. *)
LEMMA SummerInYear ==
  ASSUME NEW y \in Nat
  PROVE  /\ SummerStart(y) - 24 * YearStart(y) \in 1992 .. 2160
         /\ SummerEnd(y) - 24 * YearStart(y) \in 7128 .. 7296
<1>1. YearStart(y) \in Nat /\ LeapDay(y) \in {0, 1}
  BY YearLength
<1>2. \A k \in 0 .. 11 :
        FirstDay(12 * y + k) = YearStart(y) + DaysBefore[k + 1] + (IF k > 1 THEN LeapDay(y) ELSE 0)
  BY MonthInYear
<1>3. /\ FirstDay(12 * y + 3) = YearStart(y) + DaysBefore[3 + 1] + LeapDay(y)
      /\ FirstDay(12 * y + 10) = YearStart(y) + DaysBefore[10 + 1] + LeapDay(y)
  BY <1>2
<1>4. /\ FirstDay(12 * y + 3) = YearStart(y) + 90 + LeapDay(y)
      /\ FirstDay(12 * y + 10) = YearStart(y) + 304 + LeapDay(y)
  BY <1>3, DaysBeforeMonths
<1>5. 12 * y + 2 + 1 = 12 * y + 3 /\ 12 * y + 9 + 1 = 12 * y + 10
  OBVIOUS
<1> DEFINE a == YearStart(y) + 89 + LeapDay(y)
           b == YearStart(y) + 303 + LeapDay(y)
<1>6. LastSunday(12 * y + 2) = a - ((a + 1) % 7) /\ LastSunday(12 * y + 9) = b - ((b + 1) % 7)
  BY <1>1, <1>4, <1>5 DEF LastSunday
<1>7. /\ a \in Nat /\ a - YearStart(y) \in {89, 90}
      /\ b \in Nat /\ b - YearStart(y) \in {303, 304}
  BY <1>1
<1> HIDE DEF a, b
<1>8. (a + 1) % 7 \in 0 .. 6 /\ (b + 1) % 7 \in 0 .. 6
  BY <1>7
<1>9. /\ SummerStart(y) = 24 * (a - ((a + 1) % 7))
      /\ SummerEnd(y) = 24 * (b - ((b + 1) % 7))
  BY <1>6 DEF SummerStart, SummerEnd
<1> QED
  BY <1>1, <1>7, <1>8, <1>9

(* The hours of a year, and the ten days before and after it.              *)
Around(y) == {h \in Nat : 24 * YearStart(y) - 240 <= h /\ h < 24 * YearStart(y + 1) + 240}

(* Around a year the clocks are told by its summer time.                   *)
LEMMA ClocksAround ==
  ASSUME NEW y \in Nat, NEW h \in Around(y)
  PROVE  /\ Offset(h) = IF SummerStart(y) + 1 <= h /\ h < SummerEnd(y) + 1 THEN 2 ELSE 1
         /\ FromBerlin(h) = IF SummerStart(y) + 3 <= h /\ h < SummerEnd(y) + 3 THEN h - 2 ELSE h - 1
<1> DEFINE d == Day(h)
           z == MonthOf(d) \div 12
<1>1. h \in Nat /\ d \in Nat /\ 24 * d <= h /\ h < 24 * d + 24
  BY DEF Around, Day
<1> HIDE DEF d
<1>2. MonthOf(d) \in Nat /\ FirstDay(MonthOf(d)) <= d /\ d < FirstDay(MonthOf(d) + 1)
  BY <1>1, MonthOfDay
<1>3. z \in Nat /\ YearStart(z) <= d /\ d < YearStart(z + 1)
  <2>1. PICK w \in Nat, k \in 0 .. 11 : MonthOf(d) = 12 * w + k /\ MonthOf(d) \div 12 = w
    BY <1>2, YearAndMonth
  <2>2. FirstDay(MonthOf(d)) = YearStart(w) + DaysBefore[k + 1] + (IF k > 1 THEN LeapDay(w) ELSE 0)
    BY <2>1, MonthInYear
  <2>3. YearStart(w) \in Nat /\ LeapDay(w) \in {0, 1}
    BY YearLength
  <2>4. YearStart(w) <= d
    BY <1>1, <1>2, <2>2, <2>3, DaysBeforeMonths
  <2>5. d < YearStart(w + 1)
    <3>1. FirstDay(12 * w + 12) = YearStart(w + 1)
      BY MonthInYear
    <3>2. MonthOf(d) < 12 * w + 12 /\ 12 * w + 12 \in Nat
      BY <2>1
    <3>3. FirstDay(MonthOf(d) + 1) <= FirstDay(12 * w + 12)
      BY <1>2, <3>2, MonthsInOrder
    <3>4. MonthOf(d) + 1 \in Nat
      BY <1>2
    <3>5. FirstDay(MonthOf(d) + 1) \in Nat /\ FirstDay(12 * w + 12) \in Nat
      BY <3>2, <3>4, MonthLengths
    <3> QED
      BY <1>1, <1>2, <3>1, <3>3, <3>5
  <2> QED
    BY <2>1, <2>4, <2>5
<1>4. SummerFrom(Day(h)) = SummerStart(z) /\ SummerTo(Day(h)) = SummerEnd(z)
  BY DEF SummerFrom, SummerTo, SummerStart, SummerEnd, d
<1> HIDE DEF z
<1>5. /\ Offset(h) = IF SummerStart(z) + 1 <= h /\ h < SummerEnd(z) + 1 THEN 2 ELSE 1
      /\ FromBerlin(h) = IF SummerStart(z) + 3 <= h /\ h < SummerEnd(z) + 3 THEN h - 2 ELSE h - 1
  BY <1>4 DEF Offset, FromBerlin
<1>6. \A x \in Nat : /\ SummerStart(x) - 24 * YearStart(x) \in 1992 .. 2160
                     /\ SummerEnd(x) - 24 * YearStart(x) \in 7128 .. 7296
  BY SummerInYear
<1>7. \A x \in Nat : YearStart(x) \in Nat /\ YearStart(x + 1) - YearStart(x) \in {365, 366}
  BY YearLength
<1>8. \A x \in Nat : SummerStart(x) \in Int /\ SummerEnd(x) \in Int
  BY DEF SummerStart, SummerEnd, LastSunday, FirstDay, DaysBefore
<1>9. 24 * YearStart(y) - 240 <= h /\ h < 24 * YearStart(y + 1) + 240
  BY DEF Around
<1>10. CASE z = y
  BY <1>5, <1>10
<1>11. CASE z + 1 = y
  <2>1. YearStart(y) \in Nat /\ YearStart(z) \in Nat /\ YearStart(y) - YearStart(z) \in {365, 366}
    BY <1>3, <1>7, <1>11
  <2>2. /\ SummerStart(z) - 24 * YearStart(z) \in 1992 .. 2160
        /\ SummerEnd(z) - 24 * YearStart(z) \in 7128 .. 7296
        /\ SummerStart(y) - 24 * YearStart(y) \in 1992 .. 2160
        /\ SummerStart(z) \in Int /\ SummerEnd(z) \in Int /\ SummerStart(y) \in Int /\ SummerEnd(y) \in Int
    BY <1>3, <1>6, <1>8
  <2>3. d < YearStart(y)
    BY <1>3, <1>11
  <2>4. h >= SummerEnd(z) + 3 /\ h < SummerStart(y) + 1
    BY <1>1, <1>9, <2>1, <2>2, <2>3
  <2> QED
    BY <1>1, <1>5, <2>2, <2>4
<1>12. CASE z = y + 1
  <2>1. YearStart(y) \in Nat /\ YearStart(z) \in Nat /\ YearStart(z) - YearStart(y) \in {365, 366}
    BY <1>3, <1>7, <1>12
  <2>2. /\ SummerStart(z) - 24 * YearStart(z) \in 1992 .. 2160
        /\ SummerEnd(y) - 24 * YearStart(y) \in 7128 .. 7296
        /\ SummerStart(z) \in Int /\ SummerEnd(z) \in Int /\ SummerStart(y) \in Int /\ SummerEnd(y) \in Int
    BY <1>3, <1>6, <1>8
  <2>3. h < 24 * YearStart(z) + 240
    BY <1>9, <1>12
  <2>4. h >= SummerEnd(y) + 3 /\ h < SummerStart(z) + 1
    BY <1>1, <1>3, <2>1, <2>2, <2>3
  <2> QED
    BY <1>1, <1>5, <2>2, <2>4
<1>13. z \in {y - 1, y, y + 1}
  <2>1. \A u \in Nat, v \in Nat : u <= v => YearStart(v) >= YearStart(u) + 365 * (v - u)
    BY DEF YearStart
  <2>2. ~ (z + 1 <= y - 1)
    <3> SUFFICES ASSUME z + 1 <= y - 1
                 PROVE  FALSE
      OBVIOUS
    <3>1. z + 1 \in Nat /\ z + 1 <= y /\ 365 * (y - (z + 1)) >= 365
      BY <1>3
    <3>2. YearStart(y) >= YearStart(z + 1) + 365
      <4>1. YearStart(y) >= YearStart(z + 1) + 365 * (y - (z + 1))
        BY <2>1, <3>1
      <4> QED
        BY <1>7, <3>1, <4>1
    <3> QED
      BY <1>1, <1>3, <1>7, <1>9, <3>1, <3>2
  <2>3. ~ (y + 1 <= z - 1)
    <3> SUFFICES ASSUME y + 1 <= z - 1
                 PROVE  FALSE
      OBVIOUS
    <3>1. y + 1 \in Nat /\ y + 1 <= z /\ 365 * (z - (y + 1)) >= 365
      BY <1>3
    <3>2. YearStart(z) >= YearStart(y + 1) + 365
      <4>1. YearStart(z) >= YearStart(y + 1) + 365 * (z - (y + 1))
        BY <1>3, <2>1, <3>1
      <4> QED
        BY <1>3, <1>7, <3>1, <4>1
    <3> QED
      BY <1>1, <1>3, <1>7, <1>9, <3>1, <3>2
  <2> QED
    BY <1>3, <2>2, <2>3
<1> QED
  BY <1>3, <1>10, <1>11, <1>12, <1>13

(* Ten days before and after an hour, summer time is one long stretch: it  *)
(* begins an hour after f and ends an hour after t.                        *)
SummerNear(h, f, t) ==
  /\ f + 4000 < t
  /\ \A x \in Nat : h - 240 <= x /\ x <= h + 240 =>
       /\ Offset(x) = IF f + 1 <= x /\ x < t + 1 THEN 2 ELSE 1
       /\ FromBerlin(x) = IF f + 3 <= x /\ x < t + 3 THEN x - 2 ELSE x - 1

(* Every hour lies well inside such a stretch, or well outside.            *)
LEMMA ClocksNear ==
  ASSUME NEW h \in Nat
  PROVE  \E f \in Nat, t \in Nat : SummerNear(h, f, t)
<1> DEFINE d == Day(h)
<1>1. d \in Nat /\ 24 * d <= h /\ h < 24 * d + 24
  BY DEF Day
<1> HIDE DEF d
<1>2. PICK y \in Nat : YearStart(y) <= d /\ d < YearStart(y + 1)
  BY <1>1, YearOfDay
<1>3. YearStart(y) \in Nat /\ YearStart(y + 1) \in Nat
  BY YearLength
<1>4. \A x \in Nat : h - 240 <= x /\ x <= h + 240 => x \in Around(y)
  BY <1>1, <1>2, <1>3 DEF Around
<1>5. \A x \in Nat : h - 240 <= x /\ x <= h + 240 =>
        /\ Offset(x) = IF SummerStart(y) + 1 <= x /\ x < SummerEnd(y) + 1 THEN 2 ELSE 1
        /\ FromBerlin(x) = IF SummerStart(y) + 3 <= x /\ x < SummerEnd(y) + 3 THEN x - 2 ELSE x - 1
  BY <1>4, ClocksAround
<1>6. SummerStart(y) \in Int /\ SummerEnd(y) \in Int
  BY DEF SummerStart, SummerEnd, LastSunday, FirstDay, DaysBefore
<1>7. SummerStart(y) \in Nat /\ SummerEnd(y) \in Nat /\ SummerStart(y) + 4000 < SummerEnd(y)
  BY <1>3, <1>6, SummerInYear
<1>8. SummerNear(h, SummerStart(y), SummerEnd(y))
  BY <1>5, <1>7 DEF SummerNear
<1> QED
  BY <1>7, <1>8

(* The hour read off the clock in Berlin is shown by it.                   *)
LEMMA BerlinAndBack ==
  ASSUME NEW h \in Nat
  PROVE  /\ Offset(h) \in {1, 2} /\ Berlin(h) = h + Offset(h) /\ Berlin(h) \in Nat
         /\ FromBerlin(Berlin(h)) \in Nat
         /\ Berlin(FromBerlin(Berlin(h))) = Berlin(h)
<1>0. PICK f \in Nat, t \in Nat : SummerNear(h, f, t)
  BY ClocksNear
<1>1. /\ f + 4000 < t
      /\ \A x \in Nat : h - 240 <= x /\ x <= h + 240 =>
           /\ Offset(x) = IF f + 1 <= x /\ x < t + 1 THEN 2 ELSE 1
           /\ FromBerlin(x) = IF f + 3 <= x /\ x < t + 3 THEN x - 2 ELSE x - 1
  BY <1>0 DEF SummerNear
<1>2. Offset(h) = IF f + 1 <= h /\ h < t + 1 THEN 2 ELSE 1
  BY <1>1
<1> DEFINE b == Berlin(h)
           w == FromBerlin(b)
<1>3. b = (IF f + 1 <= h /\ h < t + 1 THEN h + 2 ELSE h + 1) /\ b \in Nat
  BY <1>2 DEF Berlin
<1> HIDE DEF b
<1>4. w = (IF f + 3 <= b /\ b < t + 3 THEN b - 2 ELSE b - 1) /\ w \in Nat /\ h - 240 <= w /\ w <= h + 240
  BY <1>1, <1>3
<1> HIDE DEF w
<1>5. Offset(w) = IF f + 1 <= w /\ w < t + 1 THEN 2 ELSE 1
  BY <1>1, <1>4
<1>6. w + Offset(w) = b
  BY <1>1, <1>3, <1>4, <1>5
<1> QED
  BY <1>2, <1>3, <1>4, <1>6 DEF Berlin, b, w

(* Of two hours shown alike the second is in winter time, a week after     *)
(* an hour of summer time.                                                 *)
LEMMA SummerBeforeRepeated ==
  ASSUME NEW h \in Nat, h >= 168, Repeated(h)
  PROVE  Offset(h) = 1 /\ Offset(h - 168) = 2
<1>0. PICK f \in Nat, t \in Nat : SummerNear(h, f, t)
  BY ClocksNear
<1>1. /\ f + 4000 < t
      /\ \A x \in Nat : h - 240 <= x /\ x <= h + 240 =>
           /\ Offset(x) = IF f + 1 <= x /\ x < t + 1 THEN 2 ELSE 1
           /\ FromBerlin(x) = IF f + 3 <= x /\ x < t + 3 THEN x - 2 ELSE x - 1
  BY <1>0 DEF SummerNear
<1>2. /\ Offset(h) = IF f + 1 <= h /\ h < t + 1 THEN 2 ELSE 1
      /\ Offset(h - 168) = IF f + 1 <= h - 168 /\ h - 168 < t + 1 THEN 2 ELSE 1
  BY <1>1
<1> DEFINE b == h + Offset(h)
<1>3. b = (IF f + 1 <= h /\ h < t + 1 THEN h + 2 ELSE h + 1) /\ b \in Nat
  BY <1>2
<1>4. FromBerlin(b) # h
  BY DEF Repeated, Berlin
<1> HIDE DEF b
<1>5. FromBerlin(b) = IF f + 3 <= b /\ b < t + 3 THEN b - 2 ELSE b - 1
  BY <1>1, <1>3
<1>6. t + 1 <= h /\ h < t + 2
  BY <1>1, <1>3, <1>4, <1>5
<1> QED
  BY <1>1, <1>2, <1>6

(* An hour the clock in Berlin skips is read as one of summer time, a week *)
(* after an hour of winter time; any other is the one it shows.            *)
LEMMA WinterBeforeSkipped ==
  ASSUME NEW w \in Nat, w >= 169
  PROVE  /\ FromBerlin(w) \in Nat
         /\ \/ FromBerlin(w) = w - Offset(FromBerlin(w))
            \/ Offset(FromBerlin(w)) = 2 /\ Offset(FromBerlin(w - 168)) = 1
<1>0. PICK f \in Nat, t \in Nat : SummerNear(w, f, t)
  BY ClocksNear
<1>1. /\ f + 4000 < t
      /\ \A x \in Nat : w - 240 <= x /\ x <= w + 240 =>
           /\ Offset(x) = IF f + 1 <= x /\ x < t + 1 THEN 2 ELSE 1
           /\ FromBerlin(x) = IF f + 3 <= x /\ x < t + 3 THEN x - 2 ELSE x - 1
  BY <1>0 DEF SummerNear
<1> DEFINE v == w - 168
           a == FromBerlin(w)
           b == FromBerlin(v)
<1>2. v \in Nat /\ v >= 1
  OBVIOUS
<1> HIDE DEF v
<1>3. w - 240 <= v /\ v <= w + 240 /\ v = w - 168
  BY DEF v
<1>4. /\ a = IF f + 3 <= w /\ w < t + 3 THEN w - 2 ELSE w - 1
      /\ b = IF f + 3 <= v /\ v < t + 3 THEN v - 2 ELSE v - 1
  BY <1>1, <1>2, <1>3
<1> HIDE DEF a, b
<1>5. a \in Nat /\ w - 240 <= a /\ a <= w + 240
  BY <1>4
<1>6. Offset(a) = IF f + 1 <= a /\ a < t + 1 THEN 2 ELSE 1
  BY <1>1, <1>5
<1>7. CASE a = w - Offset(a)
  BY <1>5, <1>7 DEF a
<1>8. CASE a # w - Offset(a)
  <2>1. w = f + 2
    BY <1>1, <1>4, <1>6, <1>8
  <2>2. Offset(a) = 2
    BY <1>1, <1>4, <1>6, <2>1
  <2>3. b = v - 1 /\ b \in Nat /\ w - 240 <= b /\ b <= w + 240
    BY <1>1, <1>2, <1>3, <1>4, <2>1
  <2>4. Offset(b) = 1
    <3>1. Offset(b) = IF f + 1 <= b /\ b < t + 1 THEN 2 ELSE 1
      BY <1>1, <2>3
    <3> QED
      BY <1>2, <1>3, <2>1, <2>3, <3>1
  <2> QED
    BY <1>5, <2>2, <2>4 DEF a, b, v
<1> QED
  BY <1>7, <1>8

-----------------------------------------------------------------------------
(* The Saturdays of the workshop.                                          *)

(* The Saturdays the loop counts from a day are those of the four weeks    *)
(* that begin with it.                                                     *)
LEMMA NextFourSaturdays ==
  ASSUME NEW d \in Nat
  PROVE  ListedSaturdays(d) = {x \in d .. d + 27 : Weekday(x) = Saturday}
<1> DEFINE r == d % 7
           s == d + ((5 - r) % 7)
<1>1. r \in 0 .. 6
  OBVIOUS
<1>2. (5 - r) % 7 = IF r <= 5 THEN 5 - r ELSE 6
  BY <1>1
<1>3. s \in Nat /\ s % 7 = 5 /\ d <= s /\ s <= d + 6
  BY <1>1, <1>2
<1> HIDE DEF s
<1>4. {s + 7 * w : w \in 0 .. 3} = {x \in d .. d + 27 : x % 7 = 5}
  <2>1. ASSUME NEW x \in Nat
        PROVE  (x \in d .. d + 27 /\ x % 7 = 5) <=> x \in {s, s + 7, s + 14, s + 21}
    BY <1>3
  <2>2. {s + 7 * w : w \in 0 .. 3} = {s, s + 7, s + 14, s + 21}
    BY <1>3
  <2> QED
    BY <1>3, <2>1, <2>2
<1> QED
  BY <1>4 DEF ListedSaturdays, Weekday, Saturday, s

(* At every hour the listing offers the next four Saturdays, but on        *)
(* Sunday, until the day begins in UTC, yesterday still: today() in        *)
(* generate_available_slots is that of the server's clock.                 *)
THEOREM SaturdaysOffered ==
  Spec => []OffersComingSaturdays
<1>1. TypeOK => OffersComingSaturdays
  <2> SUFFICES ASSUME now \in Nat
               PROVE  OffersComingSaturdays
    BY DEF TypeOK
  <2> DEFINE d == Day(now)
             t == Day(Berlin(now))
  <2>1. /\ Offset(now) \in {1, 2} /\ Berlin(now) = now + Offset(now)
    BY BerlinAndBack
  <2>2. /\ d \in Nat /\ t \in {d, d + 1}
        /\ t # d => Berlin(now) % 24 < Offset(now)
    BY <2>1 DEF Day
  <2> HIDE DEF d, t
  <2>3. ListedSaturdays(d) = {x \in d .. d + 27 : Weekday(x) = Saturday}
    BY <2>2, NextFourSaturdays
  <2>4. CASE t = d
    BY <2>3, <2>4 DEF OffersComingSaturdays, d, t
  <2>5. CASE t # d
    <3>1. t = d + 1 /\ Berlin(now) % 24 < Offset(now)
      BY <2>2, <2>5
    <3>2. CASE Weekday(t) = Sunday
      BY <3>1, <3>2 DEF OffersComingSaturdays, t
    <3>3. CASE Weekday(t) # Sunday
      <4>1. d % 7 # 5
        BY <2>2, <3>1, <3>3 DEF Weekday, Sunday
      <4>2. {x \in d .. d + 27 : x % 7 = 5} = {x \in t .. t + 27 : x % 7 = 5}
        BY <2>2, <3>1, <4>1
      <4> QED
        BY <2>3, <4>2 DEF OffersComingSaturdays, Weekday, Saturday, d, t
    <3> QED
      BY <3>2, <3>3
  <2> QED
    BY <2>4, <2>5
<1> QED
  BY <1>1, HourAlways, PTL
-----------------------------------------------------------------------------
(* Times of events.                                                        *)

(* Midnight in UTC is in the same day on the clock in Berlin.              *)
LEMMA DaysStay ==
  ASSUME NEW d \in Nat, NEW zone \in {"utc", "zoned"}
  PROVE  Day(Clock(zone, 24 * d)) = d
<1> DEFINE h == 24 * d
<1>0. h \in Nat /\ h = 24 * d
  OBVIOUS
<1> HIDE DEF h
<1>1. Offset(h) \in {1, 2} /\ Berlin(h) = h + Offset(h)
  BY <1>0, BerlinAndBack
<1>2. Clock(zone, h) \in {h, h + 1, h + 2}
  BY <1>1 DEF Clock
<1>3. \A x \in {h, h + 1, h + 2} : x \div 24 = d
  BY <1>0
<1> QED
  BY <1>2, <1>3 DEF Day, h

(* At every hour, whatever the span, what _create_ical_content writes of a *)
(* timed event _parse_event reads back; but the second of two hours shown  *)
(* alike.                                                                  *)
THEOREM ReadBack ==
  Spec => []WrittenIsReadBack
<1>1. TypeOK => WrittenIsReadBack
  <2> SUFFICES ASSUME now \in Nat, NEW zone \in {"utc", "zoned"}, NEW span \in Spans,
                      ~ (zone = "zoned" /\ (Repeated(now) \/ Repeated(now + span)))
               PROVE  ParseEvent(CreateIcal(Weekly(FALSE, span, 1, {}), zone)) = Weekly(FALSE, span, 1, {})
    BY DEF TypeOK, WrittenIsReadBack
  <2>1. span \in Nat /\ now + span \in Nat
    BY HoursAssumption
  <2> DEFINE a == Clock(zone, now)
             b == Clock(zone, now + span)
  <2>2. ToUtc(zone, a) = now /\ ToUtc(zone, b) = now + span
    BY DEF ToUtc, Clock, Repeated
  <2>3. a \in Nat /\ b \in Nat
    BY <2>1, BerlinAndBack DEF Clock
  <2>4. CreateIcal(Weekly(FALSE, span, 1, {}), zone)
          = [form |-> zone, start |-> a, span |-> b - a, count |-> 1, exdates |-> {}]
    BY DEF CreateIcal, Ical, Weekly
  <2> HIDE DEF a, b
  <2>5. a + (b - a) = b /\ (zone = "date") = FALSE
    BY <2>3
  <2>6. ParseEvent([form |-> zone, start |-> a, span |-> b - a, count |-> 1, exdates |-> {}])
          = [start |-> ToUtc(zone, a), end |-> ToUtc(zone, a + (b - a)), allDay |-> zone = "date",
             count |-> 1, exdates |-> {}]
    BY Zenon DEF ParseEvent
  <2> QED
    BY <2>2, <2>4, <2>5, <2>6, Zenon DEF Weekly
<1> QED
  BY <1>1, HourAlways, PTL

(* An event of whole days.                                                 *)
Days(start, end) == [start |-> start, end |-> end, allDay |-> TRUE, count |-> 1, exdates |-> {}]

(* The dates of an event of whole days are those on the clock it is handed *)
(* over with; it is read as their midnights.                               *)
LEMMA DatesRead ==
  ASSUME NEW s \in Nat, NEW e \in Nat, NEW zone \in {"utc", "zoned"}
  PROVE  /\ Day(Clock(zone, s)) \in Nat /\ Day(Clock(zone, e)) \in Nat
         /\ ParseEvent(CreateIcal(Days(s, e), zone)) = Days(24 * Day(Clock(zone, s)), 24 * Day(Clock(zone, e)))
<1> DEFINE a == Day(Clock(zone, s))
           b == Day(Clock(zone, e))
<1>1. a \in Nat /\ b \in Nat
  <2>1. Clock(zone, s) \in Nat /\ Clock(zone, e) \in Nat
    BY BerlinAndBack DEF Clock
  <2> QED
    BY <2>1 DEF Day
<1>2. CreateIcal(Days(s, e), zone)
        = [form |-> "date", start |-> a, span |-> b - a, count |-> 1, exdates |-> {}]
  BY DEF CreateIcal, Ical, Days
<1> HIDE DEF a, b
<1>3. a + (b - a) = b
  BY <1>1
<1>4. ToUtc("date", a) = 24 * a /\ ToUtc("date", b) = 24 * b
  BY DEF ToUtc
<1>5. ParseEvent([form |-> "date", start |-> a, span |-> b - a, count |-> 1, exdates |-> {}])
        = [start |-> ToUtc("date", a), end |-> ToUtc("date", a + (b - a)), allDay |-> TRUE,
           count |-> 1, exdates |-> {}]
  BY Zenon DEF ParseEvent
<1>6. ParseEvent(CreateIcal(Days(s, e), zone)) = Days(24 * a, 24 * b)
  BY <1>2, <1>3, <1>4, <1>5, Zenon DEF Days
<1> QED
  BY <1>1, <1>6 DEF a, b

(* At every hour, whatever the length, an event of whole days is read back *)
(* with the dates it was handed over with, and stays where it is when it   *)
(* is written again.                                                       *)
THEOREM DatesKept ==
  Spec => []WholeDaysKeepDates
<1>1. TypeOK => WholeDaysKeepDates
  <2> SUFFICES ASSUME now \in Nat, NEW zone \in {"utc", "zoned"}, NEW later \in {"utc", "zoned"},
                      NEW span \in Spans, NEW length \in {span, 24 * span}
               PROVE  LET days == Weekly(TRUE, length, 1, {})
                          midnight(h) == 24 * Day(Clock(zone, h))
                          read == ParseEvent(CreateIcal(days, zone))
                      IN  /\ read.allDay /\ read.start = midnight(now) /\ read.end = midnight(now + length)
                          /\ ParseEvent(CreateIcal(read, later)) = read
    BY DEF TypeOK, WholeDaysKeepDates
  <2>1. now + length \in Nat
    BY HoursAssumption
  <2> DEFINE a == Day(Clock(zone, now))
             b == Day(Clock(zone, now + length))
  <2>2. Weekly(TRUE, length, 1, {}) = Days(now, now + length)
    BY Zenon DEF Weekly, Days
  <2>3. a \in Nat /\ b \in Nat /\ ParseEvent(CreateIcal(Days(now, now + length), zone)) = Days(24 * a, 24 * b)
    BY <2>1, DatesRead
  <2>4. Days(24 * a, 24 * b).allDay /\ Days(24 * a, 24 * b).start = 24 * a /\ Days(24 * a, 24 * b).end = 24 * b
    BY Zenon DEF Days
  <2> HIDE DEF a, b
  <2>5. Day(Clock(later, 24 * a)) = a /\ Day(Clock(later, 24 * b)) = b
    BY <2>3, DaysStay
  <2>6. ParseEvent(CreateIcal(Days(24 * a, 24 * b), later)) = Days(24 * a, 24 * b)
    <3>1. 24 * a \in Nat /\ 24 * b \in Nat
      BY <2>3
    <3>2. ParseEvent(CreateIcal(Days(24 * a, 24 * b), later))
            = Days(24 * Day(Clock(later, 24 * a)), 24 * Day(Clock(later, 24 * b)))
      BY <3>1, DatesRead
    <3> QED
      BY <2>5, <3>2
  <2> QED
    BY <2>2, <2>3, <2>4, <2>6, Zenon DEF a, b
<1> QED
  BY <1>1, HourAlways, PTL

(* A weekly series of times.                                               *)
Timed(form, start, span, count, exdates) ==
  [form |-> form, start |-> start, span |-> span, count |-> count, exdates |-> exdates]

(* The hours a weekly series shows, before its EXDATEs are taken away.     *)
Shown(form, start, count) == {ToUtc(form, start + k * 168) : k \in 0 .. count - 1}

(* A series of Dates, field by field.                                      *)
LEMMA SeriesAre ==
  ASSUME now \in Nat, NEW i \in Series
  PROVE  \E zone \in {"utc", "zoned"}, span \in Int, count \in Nat \ {0} : \E exdates :
           i = Timed(zone, Clock(zone, now), span, count, exdates)
<1> DEFINE I(span, count, zone) ==
             Ical(zone, Clock(zone, now), Clock(zone, now) + span, Weekly(FALSE, span, count, {}))
           all == {I(span, count, zone) : span \in Spans, count \in Counts, zone \in {"utc", "zoned"}}
           X(j) == Occurrences(j) \cap {now + 168, now + 336}
<1>1. Series = all \cup {[j EXCEPT !.exdates = X(j)] : j \in all}
  BY DEF Series
<1> HIDE DEF X
<1>2. PICK j \in all : i = j \/ i = [j EXCEPT !.exdates = X(j)]
  <2> HIDE DEF all
  <2> QED
    BY <1>1
<1>3. PICK span \in Spans, count \in Counts, zone \in {"utc", "zoned"} : j = I(span, count, zone)
  <2> HIDE DEF I
  <2> QED
    BY <1>2
<1>4. span \in Nat /\ count \in Nat \ {0}
  BY HoursAssumption
<1> DEFINE s == (Clock(zone, now) + span) - Clock(zone, now)
<1>5. s \in Int
  <2>1. Clock(zone, now) \in Nat
    BY BerlinAndBack DEF Clock
  <2> QED
    BY <1>4, <2>1
<1> HIDE DEF all
<1>6. \A allDay : Ical(zone, Clock(zone, now), Clock(zone, now) + span, Weekly(allDay, span, count, {}))
                    = [form |-> zone, start |-> Clock(zone, now), span |-> s, count |-> count, exdates |-> {}]
  BY DEF Ical, Weekly
<1>7. j = [form |-> zone, start |-> Clock(zone, now), span |-> s, count |-> count, exdates |-> {}]
  BY <1>3, <1>6, Zenon
<1> HIDE DEF s
<1>8. [j EXCEPT !.exdates = X(j)]
        = [form |-> zone, start |-> Clock(zone, now), span |-> s, count |-> count, exdates |-> X(j)]
  BY <1>7
<1> HIDE DEF I
<1>9. i = Timed(zone, Clock(zone, now), s, count, {}) \/ i = Timed(zone, Clock(zone, now), s, count, X(j))
  BY <1>2, <1>7, <1>8 DEF Timed
<1> QED
  BY <1>4, <1>5, <1>9

(* An event as the service holds it; the flag of one with times.           *)
InHours == FALSE

Event(start, end, allDay, count, exdates) ==
  [start |-> start, end |-> end, allDay |-> allDay, count |-> count, exdates |-> exdates]

(* How _parse_event reads the series.                                      *)
LEMMA ParseTimed ==
  ASSUME NEW form, form = "utc" \/ form = "zoned", NEW start, NEW span, NEW count, NEW exdates
  PROVE  ParseEvent(Timed(form, start, span, count, exdates))
           = Event(ToUtc(form, start), ToUtc(form, start + span), InHours, count, exdates)
<1> DEFINE i == Timed(form, start, span, count, exdates)
<1>1. i.form = form /\ i.start = start /\ i.span = span /\ i.count = count /\ i.exdates = exdates
  BY DEF Timed
<1>2. (form = "date") = InHours
  BY DEF InHours
<1> HIDE DEF i
<1>3. ParseEvent(i) = Event(ToUtc(form, start), ToUtc(form, start + span), InHours, count, exdates)
  BY <1>1, <1>2, Zenon DEF ParseEvent, Event
<1> QED
  BY <1>3 DEF i

(* How _create_ical_content writes it.                                     *)
LEMMA CreateTimed ==
  ASSUME NEW s, NEW e, NEW c, NEW x, NEW zone
  PROVE  CreateIcal(Event(s, e, InHours, c, x), zone)
           = Timed(zone, Clock(zone, s), Clock(zone, e) - Clock(zone, s), c, x)
<1> DEFINE ev == Event(s, e, InHours, c, x)
<1>1. /\ ev.start = s /\ ev.end = e /\ ev.allDay = InHours /\ ev.count = c /\ ev.exdates = x
  BY DEF Event
<1> HIDE DEF ev
<1>2. ~ ev.allDay
  BY <1>1, Zenon DEF InHours
<1>3. CreateIcal(ev, zone) = Timed(zone, Clock(zone, s), Clock(zone, e) - Clock(zone, s), c, x)
  BY <1>1, <1>2, Zenon DEF CreateIcal, Ical, Timed
<1> QED
  BY <1>3 DEF ev

(* Where calendars show the series.                                        *)
LEMMA Shows ==
  ASSUME NEW form, form = "utc" \/ form = "zoned", NEW start, NEW span, NEW count, NEW exdates
  PROVE  Occurrences(Timed(form, start, span, count, exdates)) = Shown(form, start, count) \ exdates
<1> DEFINE i == Timed(form, start, span, count, exdates)
<1>1. i.form = form /\ i.start = start /\ i.count = count /\ i.exdates = exdates
  BY DEF Timed
<1> HIDE DEF i
<1>2. Occurrences(i) = {ToUtc(i.form, i.start + k * (IF i.form = "date" THEN 7 ELSE 7 * 24)) :
                          k \in 0 .. i.count - 1} \ i.exdates
  BY DEF Occurrences
<1>3. (IF i.form = "date" THEN 7 ELSE 7 * 24) = 168
  BY <1>1
<1>4. Occurrences(i) = Shown(form, start, count) \ exdates
  BY <1>1, <1>2, <1>3 DEF Shown
<1> QED
  BY <1>4 DEF i

(* The EXDATEs of a master once one more is added.                         *)
With(exdates, occ) == exdates \cup {occ}

(* What an EXDATE writes back: the series in UTC, with one hour less.      *)
LEMMA LessOne ==
  ASSUME NEW form, form = "utc" \/ form = "zoned", NEW start, NEW span, NEW count, NEW exdates, NEW occ
  PROVE  \E length : AddExdate(Timed(form, start, span, count, exdates), occ)
                       = Timed("utc", ToUtc(form, start), length, count, With(exdates, occ))
<1> DEFINE i == Timed(form, start, span, count, exdates)
           s == ToUtc(form, start)
           e == ToUtc(form, start + span)
<1>1. ParseEvent(i) = Event(s, e, InHours, count, exdates)
  BY ParseTimed
<1> HIDE DEF i, s, e
<1>2. [Event(s, e, InHours, count, exdates) EXCEPT !.exdates = @ \cup {occ}]
        = Event(s, e, InHours, count, With(exdates, occ))
  BY DEF Event, With
<1>3. AddExdate(i, occ) = CreateIcal(Event(s, e, InHours, count, With(exdates, occ)), "utc")
  BY <1>1, <1>2, Zenon DEF AddExdate
<1>4. Clock("utc", s) = s
  BY DEF Clock
<1>5. AddExdate(i, occ) = Timed("utc", s, Clock("utc", e) - Clock("utc", s), count, With(exdates, occ))
  BY <1>3, <1>4, CreateTimed
<1> QED
  BY <1>5, Zenon DEF i, s

(* What a change of the title writes back: the series in Berlin.           *)
LEMMA Resaved ==
  ASSUME NEW form, form = "utc" \/ form = "zoned", NEW start, NEW span, NEW count, NEW exdates
  PROVE  \E length : Resave(Timed(form, start, span, count, exdates))
                       = Timed("zoned", Berlin(ToUtc(form, start)), length, count, exdates)
<1> DEFINE i == Timed(form, start, span, count, exdates)
           s == ToUtc(form, start)
           e == ToUtc(form, start + span)
<1>1. ParseEvent(i) = Event(s, e, InHours, count, exdates)
  BY ParseTimed
<1> HIDE DEF i, s, e
<1>2. Resave(i) = CreateIcal(Event(s, e, InHours, count, exdates), "zoned")
  BY <1>1, Zenon DEF Resave
<1>3. Clock("zoned", s) = Berlin(s)
  BY DEF Clock
<1>4. Resave(i) = Timed("zoned", Berlin(s), Clock("zoned", e) - Clock("zoned", s), count, exdates)
  BY <1>2, <1>3, CreateTimed
<1> QED
  BY <1>4, Zenon DEF i, s

(* A series whose hours are all on one offset is the same from week to     *)
(* week in UTC as on the clock.                                            *)
LEMMA SteadyInUtc ==
  ASSUME NEW h \in Nat, NEW count \in Nat \ {0},
         \A o \in Shown("zoned", Berlin(h), count) : Offset(o) = Offset(FromBerlin(Berlin(h)))
  PROVE  Shown("zoned", Berlin(h), count) = Shown("utc", FromBerlin(Berlin(h)), count)
<1> DEFINE b == Berlin(h)
           c == Offset(FromBerlin(b))
<1>1. b \in Nat /\ b >= 1 /\ FromBerlin(b) \in Nat /\ FromBerlin(b) + c = b
  BY BerlinAndBack DEF Berlin
<1>2. c \in {1, 2}
  BY <1>1, BerlinAndBack
<1>3. \A k \in 0 .. count - 1 : Offset(FromBerlin(b + k * 168)) = c
  BY DEF Shown, ToUtc
<1> HIDE DEF b, c
<1>4. ASSUME NEW k \in 0 .. count - 1
      PROVE  FromBerlin(b + k * 168) = FromBerlin(b) + k * 168
  <2>1. CASE k = 0
    BY <1>1, <2>1
  <2>2. CASE k # 0
    <3>1. k - 1 \in 0 .. count - 1 /\ b + k * 168 \in Nat /\ b + k * 168 >= 169
          /\ (b + k * 168) - 168 = b + (k - 1) * 168
      BY <1>1, <2>2
    <3> DEFINE w == b + k * 168
    <3>2. Offset(FromBerlin(w)) = c /\ Offset(FromBerlin(w - 168)) = c
      BY <1>3, <3>1
    <3>3. w \in Nat /\ w >= 169
      BY <3>1
    <3> HIDE DEF w
    <3>4. FromBerlin(w) = w - c
      BY <3>2, <3>3, WinterBeforeSkipped
    <3>5. (b + k * 168) - c = (b - c) + k * 168 /\ FromBerlin(b) = b - c
      BY <1>1, <1>2
    <3> QED
      BY <3>4, <3>5 DEF w
  <2> QED
    BY <2>1, <2>2
<1>5. /\ Shown("zoned", b, count) = {FromBerlin(b + k * 168) : k \in 0 .. count - 1}
      /\ Shown("utc", FromBerlin(b), count) = {FromBerlin(b) + k * 168 : k \in 0 .. count - 1}
  BY DEF Shown, ToUtc
<1>6. {FromBerlin(b + k * 168) : k \in 0 .. count - 1} = {FromBerlin(b) + k * 168 : k \in 0 .. count - 1}
  BY <1>4
<1> QED
  BY <1>5, <1>6 DEF b

(* And written on the clock in Berlin instead, unless it begins with the   *)
(* second of two hours shown alike, it stays where it is.                  *)
LEMMA SteadyInBerlin ==
  ASSUME NEW h \in Nat, NEW count \in Nat \ {0}, ~ Repeated(h),
         \A o \in Shown("utc", h, count) : Offset(o) = Offset(h)
  PROVE  Shown("zoned", Berlin(h), count) = Shown("utc", h, count)
<1> DEFINE c == Offset(h)
<1>1. c \in {1, 2} /\ Berlin(h) = h + c
  BY BerlinAndBack
<1>2. \A k \in 0 .. count - 1 : Offset(h + k * 168) = c
  BY DEF Shown, ToUtc
<1> HIDE DEF c
<1>3. ASSUME NEW k \in 0 .. count - 1
      PROVE  FromBerlin(Berlin(h) + k * 168) = h + k * 168
  <2> DEFINE x == h + k * 168
  <2>1. x \in Nat /\ Offset(x) = c
    BY <1>2
  <2>2. Berlin(h) + k * 168 = Berlin(x)
    <3>1. (h + c) + k * 168 = (h + k * 168) + c
      BY <1>1
    <3> QED
      BY <1>1, <2>1, <3>1 DEF Berlin
  <2>3. ~ Repeated(x)
    <3>1. CASE k = 0
      BY <3>1
    <3>2. CASE k # 0
      <4>1. k - 1 \in 0 .. count - 1 /\ x >= 168 /\ x - 168 = h + (k - 1) * 168
        BY <3>2
      <4>2. Offset(x - 168) = c
        BY <1>2, <4>1
      <4> HIDE DEF x
      <4> QED
        BY <2>1, <4>1, <4>2, SummerBeforeRepeated
    <3> QED
      BY <3>1, <3>2
  <2> QED
    BY <2>2, <2>3 DEF Repeated
<1>4. /\ Shown("zoned", Berlin(h), count) = {FromBerlin(Berlin(h) + k * 168) : k \in 0 .. count - 1}
      /\ Shown("utc", h, count) = {h + k * 168 : k \in 0 .. count - 1}
  BY DEF Shown, ToUtc
<1>5. {FromBerlin(Berlin(h) + k * 168) : k \in 0 .. count - 1} = {h + k * 168 : k \in 0 .. count - 1}
  BY <1>3
<1> QED
  BY <1>4, <1>5

(* What OneOffset says, in terms of the hours shown.                       *)
LEMMA SteadyHours ==
  ASSUME NEW form, form = "utc" \/ form = "zoned", NEW start, NEW span, NEW count, NEW exdates,
         OneOffset(Timed(form, start, span, count, exdates))
  PROVE  \A o \in Shown(form, start, count) : Offset(o) = Offset(ToUtc(form, start))
<1> DEFINE i == Timed(form, start, span, count, exdates)
           j == Timed(form, start, span, count, {})
<1>1. [i EXCEPT !.exdates = {}] = j /\ i.form = form /\ i.start = start
  BY DEF Timed
<1>2. \A x : Occurrences(Timed(form, start, span, count, x)) = Shown(form, start, count) \ x
  BY Shows
<1> HIDE DEF i, j
<1>3. OneOffset(i)
  BY DEF i
<1>4. \A o \in Occurrences(j) : Offset(o) = Offset(ToUtc(form, start))
  BY <1>1, <1>3 DEF OneOffset
<1>5. Occurrences(j) = Shown(form, start, count) \ {}
  BY <1>2, Zenon DEF j
<1> QED
  BY <1>4, <1>5

(* At every hour, for series of any length and with any number of weeks:   *)
(* _add_exdate_to_master takes away the one occurrence, if the series is   *)
(* in UTC or the clocks do not change in its course.                       *)
THEOREM OneOccurrenceDeleted ==
  Spec => []DeletesOneOccurrence
<1>1. TypeOK => DeletesOneOccurrence
  <2> SUFFICES ASSUME now \in Nat, NEW i \in Series, NEW o \in Occurrences(i), i.form = "utc" \/ OneOffset(i)
               PROVE  Occurrences(AddExdate(i, o)) = Occurrences(i) \ {o}
    BY DEF TypeOK, DeletesOneOccurrence
  <2>10. PICK form \in {"utc", "zoned"}, span \in Int, count \in Nat \ {0} :
          \E exdates : i = Timed(form, Clock(form, now), span, count, exdates)
    BY SeriesAre
  <2>1. PICK exdates : i = Timed(form, Clock(form, now), span, count, exdates)
    BY <2>10
  <2>0. form = "utc" \/ form = "zoned"
    OBVIOUS
  <2> DEFINE start == Clock(form, now)
             s == ToUtc(form, start)
  <2>2. Occurrences(i) = Shown(form, start, count) \ exdates
    BY <2>0, <2>1, Shows
  <2>3. Occurrences(AddExdate(i, o)) = Shown("utc", s, count) \ With(exdates, o)
    <3>1. PICK length : AddExdate(i, o) = Timed("utc", s, length, count, With(exdates, o))
      BY <2>1, <2>0, LessOne
    <3> HIDE DEF s
    <3> QED
      BY <3>1, Shows
  <2>4. Shown("utc", s, count) = Shown(form, start, count)
    <3>1. CASE form = "utc"
      BY <3>1 DEF ToUtc
    <3>2. CASE form = "zoned"
      <4>1. i.form = form
        BY <2>1 DEF Timed
      <4>2. OneOffset(i)
        BY <3>2, <4>1
      <4>3. start = Berlin(now) /\ s = FromBerlin(Berlin(now))
        BY <3>2 DEF Clock, ToUtc
      <4>4. \A x \in Shown(form, start, count) : Offset(x) = Offset(s)
        BY <2>1, <4>2, SteadyHours
      <4> HIDE DEF start, s
      <4> QED
        BY <3>2, <4>3, <4>4, SteadyInUtc
    <3> QED
      BY <3>1, <3>2
  <2> HIDE DEF start, s
  <2> QED
    BY <2>2, <2>3, <2>4 DEF With
<1> QED
  BY <1>1, HourAlways, PTL

(* At every hour, for every series: update_event with the times as they    *)
(* were read leaves a series where it is, if its times are in Berlin or    *)
(* the clocks do not change.                                               *)
THEOREM OccurrencesKept ==
  Spec => []EditKeepsOccurrences
<1>1. TypeOK => EditKeepsOccurrences
  <2> SUFFICES ASSUME now \in Nat, NEW i \in Series, i.form = "zoned" \/ (OneOffset(i) /\ ~ Repeated(i.start))
               PROVE  Occurrences(Resave(i)) = Occurrences(i)
    BY DEF TypeOK, EditKeepsOccurrences
  <2>10. PICK form \in {"utc", "zoned"}, span \in Int, count \in Nat \ {0} :
          \E exdates : i = Timed(form, Clock(form, now), span, count, exdates)
    BY SeriesAre
  <2>1. PICK exdates : i = Timed(form, Clock(form, now), span, count, exdates)
    BY <2>10
  <2>0. form = "utc" \/ form = "zoned"
    OBVIOUS
  <2> DEFINE start == Clock(form, now)
             s == ToUtc(form, start)
  <2>2. Occurrences(i) = Shown(form, start, count) \ exdates
    BY <2>0, <2>1, Shows
  <2>3. Occurrences(Resave(i)) = Shown("zoned", Berlin(s), count) \ exdates
    <3>1. PICK length : Resave(i) = Timed("zoned", Berlin(s), length, count, exdates)
      BY <2>1, <2>0, Resaved
    <3> HIDE DEF s
    <3> QED
      BY <3>1, Shows
  <2>4. Shown("zoned", Berlin(s), count) = Shown(form, start, count)
    <3>1. CASE form = "zoned"
      BY <3>1, BerlinAndBack DEF ToUtc, Clock
    <3>2. CASE form = "utc"
      <4>1. i.form = form /\ i.start = start
        BY <2>1 DEF Timed
      <4>2. OneOffset(i) /\ ~ Repeated(start)
        BY <3>2, <4>1
      <4>3. start = now /\ s = now
        BY <3>2 DEF Clock, ToUtc
      <4>4. \A x \in Shown(form, start, count) : Offset(x) = Offset(s)
        BY <2>1, <4>2, SteadyHours
      <4> HIDE DEF start, s
      <4> QED
        BY <3>2, <4>2, <4>3, <4>4, SteadyInBerlin
    <3> QED
      BY <3>1, <3>2
  <2> HIDE DEF start, s
  <2> QED
    BY <2>2, <2>3, <2>4
<1> QED
  BY <1>1, HourAlways, PTL

(* At every hour, for every series in Berlin, whatever the clocks do: a    *)
(* deletion and then a change of the title take away that occurrence.      *)
THEOREM ShiftUndone ==
  Spec => []EditUndoesShift
<1>1. TypeOK => EditUndoesShift
  <2> SUFFICES ASSUME now \in Nat, NEW i \in Series, i.form = "zoned", NEW o \in Occurrences(i)
               PROVE  Occurrences(Resave(AddExdate(i, o))) = Occurrences(i) \ {o}
    BY DEF TypeOK, EditUndoesShift
  <2>10. PICK form \in {"utc", "zoned"}, span \in Int, count \in Nat \ {0} :
          \E exdates : i = Timed(form, Clock(form, now), span, count, exdates)
    BY SeriesAre
  <2>1. PICK exdates : i = Timed(form, Clock(form, now), span, count, exdates)
    BY <2>10
  <2>0. form = "utc" \/ form = "zoned"
    OBVIOUS
  <2>2. form = "zoned"
    BY <2>1 DEF Timed
  <2> DEFINE start == Clock(form, now)
             s == ToUtc(form, start)
  <2>3. start = Berlin(now) /\ s = FromBerlin(Berlin(now))
    BY <2>2 DEF Clock, ToUtc
  <2>4. Occurrences(i) = Shown(form, start, count) \ exdates
    BY <2>0, <2>1, Shows
  <2>5. PICK length : AddExdate(i, o) = Timed("utc", s, length, count, With(exdates, o))
    BY <2>0, <2>1, LessOne
  <2> HIDE DEF s, start
  <2>6. ToUtc("utc", s) = s
    BY DEF ToUtc
  <2>7. PICK span2 : Resave(AddExdate(i, o)) = Timed("zoned", Berlin(s), span2, count, With(exdates, o))
    BY <2>5, <2>6, Resaved
  <2>8. Occurrences(Resave(AddExdate(i, o))) = Shown("zoned", Berlin(s), count) \ With(exdates, o)
    BY <2>7, Shows
  <2>9. Berlin(s) = start
    BY <2>3, BerlinAndBack
  <2> QED
    BY <2>2, <2>4, <2>8, <2>9 DEF With
<1> QED
  BY <1>1, HourAlways, PTL
-----------------------------------------------------------------------------
(* The months of a range.                                                  *)

(* The years and months the loop may go through, and a month's number.     *)
Calendar == (2024 .. 2099) \X (1 .. 12)
Number(ym) == 12 * (ym[1] - 2024) + ym[2] - 1
Named(m) == <<2024 + m \div 12, (m % 12) + 1>>

(* The months from ym on that begin by the hour e.                         *)
MonthsFrom(ym, e) == {x \in Calendar : Number(ym) <= Number(x) /\ MidnightOf(x) <= e}

(* The loop, as an equation between what it adds from each month on.       *)
Loop(f, e) == f = [ym \in Calendar |-> IF MidnightOf(ym) <= e THEN {ym} \cup f[NextMonth(ym)] ELSE {}]

(* A month has a number, which names it, and the next month has the next.  *)
LEMMA MonthNumbered ==
  ASSUME NEW ym \in Calendar
  PROVE  /\ Number(ym) \in Nat /\ Number(ym) <= 911 /\ Named(Number(ym)) = ym
         /\ MidnightOf(ym) = 24 * FirstDay(Number(ym))
         /\ Number(ym) < 911 => NextMonth(ym) \in Calendar /\ Number(NextMonth(ym)) = Number(ym) + 1
<1>1. PICK y \in 2024 .. 2099, k \in 1 .. 12 : ym = <<y, k>>
  BY DEF Calendar
<1>2. Number(ym) = 12 * (y - 2024) + (k - 1)
  BY <1>1 DEF Number
<1>3. Number(ym) \div 12 = y - 2024 /\ Number(ym) % 12 = k - 1
  BY <1>2
<1>4. Named(Number(ym)) = ym
  BY <1>1, <1>3 DEF Named
<1>5. MidnightOf(ym) = 24 * FirstDay(Number(ym))
  BY DEF MidnightOf, Number
<1>6. ASSUME Number(ym) < 911
      PROVE  NextMonth(ym) \in Calendar /\ Number(NextMonth(ym)) = Number(ym) + 1
  <2>1. CASE k = 12
    <3>1. NextMonth(ym) = <<y + 1, 1>> /\ y < 2099
      BY <1>1, <1>2, <1>6, <2>1 DEF NextMonth
    <3> QED
      BY <1>2, <2>1, <3>1 DEF Calendar, Number
  <2>2. CASE k # 12
    <3>1. NextMonth(ym) = <<y, k + 1>>
      BY <1>1, <2>2 DEF NextMonth
    <3> QED
      BY <1>2, <2>2, <3>1 DEF Calendar, Number
  <2> QED
    BY <2>1, <2>2
<1> QED
  BY <1>2, <1>4, <1>5, <1>6

(* Each number names a month.                                              *)
LEMMA NumberNamed ==
  ASSUME NEW m \in 0 .. 911
  PROVE  Named(m) \in Calendar /\ Number(Named(m)) = m
<1>1. m \div 12 \in 0 .. 75 /\ m % 12 \in 0 .. 11 /\ m = 12 * (m \div 12) + (m % 12)
  OBVIOUS
<1> QED
  BY <1>1 DEF Named, Calendar, Number

(* Months begin in their order.                                            *)
LEMMA MidnightsInOrder ==
  ASSUME NEW x \in Calendar, NEW y \in Calendar, Number(x) <= Number(y)
  PROVE  MidnightOf(x) \in Nat /\ MidnightOf(x) <= MidnightOf(y)
<1> DEFINE m == Number(x)
           n == Number(y)
<1>1. m \in Nat /\ n \in Nat /\ MidnightOf(x) = 24 * FirstDay(m) /\ MidnightOf(y) = 24 * FirstDay(n)
  BY MonthNumbered
<1>2. m <= n
  OBVIOUS
<1> HIDE DEF m, n
<1>3. /\ FirstDay(m) \in Nat /\ FirstDay(n) \in Nat /\ FirstDay(m + 1) \in Nat
      /\ FirstDay(m + 1) - FirstDay(m) \in 28 .. 31
  BY <1>1, MonthLengths
<1>4. m < n => FirstDay(m + 1) <= FirstDay(n)
  BY <1>1, MonthsInOrder
<1>5. FirstDay(m) <= FirstDay(n)
  BY <1>1, <1>2, <1>3, <1>4
<1> QED
  BY <1>1, <1>3, <1>5

(* The months from ym on are ym and those from the next on, or none: as    *)
(* long as the range ends before the last month of the calendar begins.    *)
LEMMA MonthsUnrolled ==
  ASSUME NEW e \in Nat, e < MidnightOf(<<2099, 12>>), NEW ym \in Calendar
  PROVE  /\ MidnightOf(ym) <= e => Number(ym) < 911
         /\ MonthsFrom(ym, e) = IF MidnightOf(ym) <= e THEN {ym} \cup MonthsFrom(NextMonth(ym), e) ELSE {}
<1> DEFINE last == <<2099, 12>>
<1>1. last \in Calendar /\ Number(last) = 911
  BY DEF Calendar, Number
<1>2. Number(ym) \in Nat /\ Number(ym) <= 911 /\ MidnightOf(ym) \in Nat
  BY MonthNumbered, MidnightsInOrder
<1>3. MidnightOf(ym) <= e => Number(ym) < 911
  <2>1. Number(ym) = 911 => MidnightOf(last) <= MidnightOf(ym)
    BY <1>1, MidnightsInOrder
  <2>2. MidnightOf(last) \in Nat
    BY <1>1, MidnightsInOrder
  <2> QED
    BY <1>2, <2>1, <2>2
<1>4. CASE MidnightOf(ym) <= e
  <2>1. /\ NextMonth(ym) \in Calendar /\ Number(NextMonth(ym)) = Number(ym) + 1
    BY <1>2, <1>3, <1>4, MonthNumbered
  <2>2. \A x \in Calendar : Number(ym) <= Number(x) <=> x = ym \/ Number(NextMonth(ym)) <= Number(x)
    <3> SUFFICES ASSUME NEW x \in Calendar
                 PROVE  Number(ym) <= Number(x) <=> x = ym \/ Number(ym) + 1 <= Number(x)
      BY <2>1
    <3>1. Number(x) \in Nat /\ Named(Number(x)) = x /\ Named(Number(ym)) = ym
      BY MonthNumbered
    <3>2. Number(x) = Number(ym) => x = ym
      BY <3>1
    <3> QED
      BY <1>2, <3>1, <3>2
  <2> QED
    BY <1>3, <1>4, <2>2 DEF MonthsFrom
<1>5. CASE ~ (MidnightOf(ym) <= e)
  <2>1. ASSUME NEW x \in Calendar, Number(ym) <= Number(x)
        PROVE  ~ (MidnightOf(x) <= e)
    <3>1. MidnightOf(ym) <= MidnightOf(x) /\ MidnightOf(x) \in Nat
      BY <2>1, MidnightsInOrder, MonthNumbered
    <3> QED
      BY <1>2, <1>5, <3>1
  <2> QED
    BY <1>5, <2>1 DEF MonthsFrom
<1> QED
  BY <1>3, <1>4, <1>5

(* A set of numbers has a least one.                                       *)
LEMMA LeastNumber ==
  ASSUME NEW T \in SUBSET Nat, T # {}
  PROVE  \E n \in T : \A k \in T : n <= k
<1>1. PICK n \in T : \A k \in T : ~ (<<k, n>> \in OpToRel(<, Nat))
  BY NatLessThanWellFounded, WFMin
<1>2. \A k \in T : ~ (k < n)
  BY <1>1 DEF OpToRel
<1> QED
  BY <1>2

(* What the equation says of one month.                                    *)
LEMMA LoopStep ==
  ASSUME NEW e, NEW f, Loop(f, e), NEW ym \in Calendar
  PROVE  f[ym] = IF MidnightOf(ym) <= e THEN {ym} \cup f[NextMonth(ym)] ELSE {}
<1> DEFINE F(g) == [x \in Calendar |-> IF MidnightOf(x) <= e THEN {x} \cup g[NextMonth(x)] ELSE {}]
<1>1. f = F(f)
  BY Zenon DEF Loop
<1>2. \A g : F(g)[ym] = IF MidnightOf(ym) <= e THEN {ym} \cup g[NextMonth(ym)] ELSE {}
  OBVIOUS
<1> HIDE DEF F
<1>3. f[ym] = F(f)[ym]
  BY <1>1
<1> QED
  BY <1>2, <1>3

(* The loop adds the months from each month on: otherwise there were a     *)
(* last month for which it does not.                                       *)
LEMMA LoopAddsMonths ==
  ASSUME NEW e \in Nat, e < MidnightOf(<<2099, 12>>), NEW f, Loop(f, e)
  PROVE  \A ym \in Calendar : f[ym] = MonthsFrom(ym, e)
<1> DEFINE T == {n \in Nat : \E ym \in Calendar : n = 911 - Number(ym) /\ f[ym] # MonthsFrom(ym, e)}
<1>1. SUFFICES ASSUME T # {} PROVE FALSE
  <2> SUFFICES ASSUME NEW ym \in Calendar, f[ym] # MonthsFrom(ym, e) PROVE T # {}
    BY <1>1
  <2>1. 911 - Number(ym) \in Nat
    BY MonthNumbered
  <2> QED
    BY <2>1
<1>2. PICK n \in T : \A k \in T : n <= k
  <2>1. T \in SUBSET Nat
    OBVIOUS
  <2> HIDE DEF T
  <2> QED
    BY <1>1, <2>1, LeastNumber
<1>3. PICK ym \in Calendar : n = 911 - Number(ym) /\ f[ym] # MonthsFrom(ym, e)
  BY <1>2
<1>4. f[ym] = IF MidnightOf(ym) <= e THEN {ym} \cup f[NextMonth(ym)] ELSE {}
  BY LoopStep
<1>5. MidnightOf(ym) <= e /\ f[NextMonth(ym)] # MonthsFrom(NextMonth(ym), e)
  BY <1>3, <1>4, MonthsUnrolled
<1>6. Number(ym) \in Nat /\ NextMonth(ym) \in Calendar /\ Number(NextMonth(ym)) = Number(ym) + 1 /\ Number(ym) < 911
  BY <1>5, MonthsUnrolled, MonthNumbered
<1>7. n - 1 \in Nat /\ n - 1 = 911 - Number(NextMonth(ym))
  BY <1>3, <1>6
<1>8. n - 1 \in T
  BY <1>5, <1>6, <1>7
<1>9. n \in Nat
  BY <1>2
<1> QED
  BY <1>2, <1>8, <1>9

(* The keys are the months from the first on.                              *)
LEMMA KeysAreMonthsFrom ==
  ASSUME NEW s \in Nat, NEW e \in Nat, e < MidnightOf(<<2099, 12>>), YearMonth(Day(s)) \in Calendar
  PROVE  SyncedMonthKeys(s, e) = MonthsFrom(YearMonth(Day(s)), e)
<1> DEFINE g == [ym \in Calendar |-> MonthsFrom(ym, e)]
<1>1. Loop(g, e)
  <2>1. ASSUME NEW ym \in Calendar
        PROVE  g[ym] = IF MidnightOf(ym) <= e THEN {ym} \cup g[NextMonth(ym)] ELSE {}
    <3>1. MidnightOf(ym) <= e => NextMonth(ym) \in Calendar
      BY MonthsUnrolled, MonthNumbered
    <3>2. NextMonth(ym) \in Calendar => g[NextMonth(ym)] = MonthsFrom(NextMonth(ym), e)
      OBVIOUS
    <3> QED
      BY <3>1, <3>2, MonthsUnrolled
  <2> QED
    BY <2>1 DEF Loop
<1> DEFINE keys == CHOOSE f : Loop(f, e)
<1>2. Loop(keys, e)
  <2> HIDE DEF g
  <2> QED
    BY <1>1
<1>3. SyncedMonthKeys(s, e) = keys[YearMonth(Day(s))]
  BY DEF SyncedMonthKeys, Loop, Calendar
<1> HIDE DEF keys
<1> QED
  BY <1>2, <1>3, LoopAddsMonths

(* A month has begun by an hour if it is that hour's, or an earlier one.   *)
LEMMA BegunMonths ==
  ASSUME NEW m \in Nat, NEW h \in Nat
  PROVE  24 * FirstDay(m) <= h <=> m <= MonthOf(Day(h))
<1> DEFINE d == Day(h)
           n == MonthOf(d)
<1> SUFFICES 24 * FirstDay(m) <= h <=> m <= n
  OBVIOUS
<1>1. d \in Nat /\ 24 * d <= h /\ h < 24 * d + 24
  BY DEF Day
<1> HIDE DEF d
<1>2. n \in Nat /\ FirstDay(n) <= d /\ d < FirstDay(n + 1)
  BY <1>1, MonthOfDay
<1> HIDE DEF n
<1>3. FirstDay(m) \in Nat /\ FirstDay(n) \in Nat /\ FirstDay(m + 1) \in Nat /\ FirstDay(n + 1) \in Nat
  BY <1>2, MonthLengths
<1>4. 24 * FirstDay(m) <= h <=> FirstDay(m) <= d
  BY <1>1, <1>3
<1>5. CASE m = n
  BY <1>2, <1>3, <1>4, <1>5
<1>6. CASE m < n
  <2>1. FirstDay(m + 1) <= FirstDay(n) /\ FirstDay(m) <= FirstDay(m + 1)
    BY <1>2, <1>3, <1>6, MonthsInOrder, MonthLengths
  <2> QED
    BY <1>2, <1>3, <1>1, <1>4, <1>6, <2>1
<1>7. CASE n < m
  <2>1. FirstDay(n + 1) <= FirstDay(m)
    BY <1>2, <1>7, MonthsInOrder
  <2> QED
    BY <1>2, <1>3, <1>1, <1>4, <1>7, <2>1
<1> QED
  BY <1>2, <1>5, <1>6, <1>7

(* No range ends after November 2099, where the model's calendar ends.     *)
Until2099 ==
    \A length \in Lengths : /\ FirstHour + length < MidnightOf(<<2099, 12>>)
                            /\ LastHour + length < MidnightOf(<<2099, 12>>)

(* The clock does not pass the last hour.                                  *)
InTime == now \in Nat /\ (now = FirstHour \/ now <= LastHour)

(* The keys of a range are the months it touches, whatever its length, and *)
(* however the turn of the year and the ends of months lie in it: until    *)
(* 2099 the loop of _synced_months_key neither stops short of the month    *)
(* the range ends in nor goes on beyond it.                                *)
THEOREM KeysCoverRange ==
  ASSUME Until2099
  PROVE  Spec => []KeysAreMonthsTouched
<1>1. InTime => KeysAreMonthsTouched
  <2> SUFFICES ASSUME InTime, NEW length \in Lengths
               PROVE  SyncedMonthKeys(now, now + length)
                        = {YearMonth(FirstDay(m)) : m \in MonthOf(Day(now)) .. MonthOf(Day(now + length))}
    BY DEF KeysAreMonthsTouched
  <2> DEFINE e == now + length
             from == MonthOf(Day(now))
             to == MonthOf(Day(e))
  <2>0. <<2099, 12>> \in Calendar /\ Number(<<2099, 12>>) = 911
    BY DEF Calendar, Number
  <2>1. now \in Nat /\ e \in Nat /\ now <= e /\ e < MidnightOf(<<2099, 12>>)
    <3>1. now \in Nat /\ length \in Nat /\ FirstHour \in Nat /\ LastHour \in Nat
      BY HoursAssumption DEF InTime
    <3>2. MidnightOf(<<2099, 12>>) \in Nat
      BY <2>0, MidnightsInOrder
    <3>3. FirstHour + length < MidnightOf(<<2099, 12>>) /\ LastHour + length < MidnightOf(<<2099, 12>>)
      BY DEF Until2099
    <3> QED
      BY <3>1, <3>2, <3>3 DEF InTime
  <2> HIDE DEF e
  <2>2. from \in Nat /\ to \in Nat
    BY <2>1, MonthOfDay DEF Day
  <2> HIDE DEF from, to
  <2>3. \A m \in Nat : (24 * FirstDay(m) <= e <=> m <= to) /\ (24 * FirstDay(m) <= now <=> m <= from)
    BY <2>1, BegunMonths DEF from, to
  <2>4. to < 911 /\ from <= to
    <3>1. MidnightOf(<<2099, 12>>) = 24 * FirstDay(911)
      BY <2>0, MonthNumbered
    <3>2. FirstDay(911) \in Nat /\ FirstDay(from) \in Nat
      BY <2>2, MonthLengths
    <3>3. ~ (911 <= to)
      BY <2>1, <2>3, <3>1, <3>2
    <3>4. 24 * FirstDay(from) <= e
      BY <2>1, <2>2, <2>3, <3>2
    <3> QED
      BY <2>2, <2>3, <3>3, <3>4
  <2>5. YearMonth(Day(now)) = Named(from)
    BY DEF YearMonth, Named, from
  <2>6. Named(from) \in Calendar /\ Number(Named(from)) = from
    BY <2>2, <2>4, NumberNamed
  <2>7. SyncedMonthKeys(now, e) = MonthsFrom(Named(from), e)
    BY <2>1, <2>5, <2>6, KeysAreMonthsFrom
  <2>8. \A m \in from .. to : YearMonth(FirstDay(m)) = Named(m) /\ Named(m) \in Calendar /\ Number(Named(m)) = m
    <3> SUFFICES ASSUME NEW m \in Nat, from <= m, m <= to
                 PROVE  YearMonth(FirstDay(m)) = Named(m) /\ Named(m) \in Calendar /\ Number(Named(m)) = m
      BY <2>2
    <3>1. FirstDay(m) \in Nat /\ FirstDay(m) < FirstDay(m + 1)
      BY MonthLengths
    <3>2. MonthOf(FirstDay(m)) = m
      BY <3>1, MonthIs
    <3>3. m \in 0 .. 911
      BY <2>2, <2>4
    <3>4. YearMonth(FirstDay(m)) = Named(m)
      BY <3>2 DEF YearMonth, Named
    <3> QED
      BY <3>3, <3>4, NumberNamed
  <2>9. MonthsFrom(Named(from), e) = {Named(m) : m \in from .. to}
    <3>1. ASSUME NEW x \in Calendar
          PROVE  from <= Number(x) /\ MidnightOf(x) <= e <=> \E m \in from .. to : x = Named(m)
      <4>1. Number(x) \in Nat /\ Named(Number(x)) = x /\ MidnightOf(x) = 24 * FirstDay(Number(x))
        BY MonthNumbered
      <4>2. MidnightOf(x) <= e <=> Number(x) <= to
        BY <2>3, <4>1
      <4>3. from <= Number(x) /\ Number(x) <= to <=> Number(x) \in from .. to
        BY <2>2, <4>1
      <4>4. \A m \in from .. to : x = Named(m) => Number(x) = m
        BY <2>8
      <4> QED
        BY <4>1, <4>2, <4>3, <4>4
    <3>2. \A m \in from .. to : Named(m) \in Calendar
      BY <2>8
    <3> QED
      BY <2>6, <3>1, <3>2 DEF MonthsFrom
  <2>10. {YearMonth(FirstDay(m)) : m \in from .. to} = {Named(m) : m \in from .. to}
    BY <2>8
  <2> QED
    BY <2>7, <2>9, <2>10 DEF e, from, to
<1>2. Init => InTime
  BY HoursAssumption DEF Init, InTime
<1>3. InTime /\ [Tick]_now => InTime'
  BY HoursAssumption DEF Tick, InTime
<1> QED
  BY <1>1, <1>2, <1>3, PTL DEF Spec
=============================================================================
