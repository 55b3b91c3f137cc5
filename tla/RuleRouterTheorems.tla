------------------------ MODULE RuleRouterTheorems ------------------------
(***************************************************************************)
(* Theorems about RuleRouter, for every day, every question and every      *)
(* catalogue: the periods it speaks of tile the days; an answer covers     *)
(* what was asked and says so, is about the longest name in the question,  *)
(* never about everybody instead of one, and reports a call that is real.  *)
(***************************************************************************)
EXTENDS RuleRouter, ListFiltersTheorems

-----------------------------------------------------------------------------
(***************************************************************************)
(* The calendar: years.                                                    *)
(***************************************************************************)

\* Years have whole days, one after another, ...
LEMMA YearLength ==
  ASSUME NEW y \in Int
  PROVE  /\ DaysBeforeYear(y) \in Int
         /\ DaysBeforeYear(y + 1) = DaysBeforeYear(y) + (IF IsLeap(y) THEN 366 ELSE 365)
BY DEF DaysBeforeYear, IsLeap

LEMMA YearsGrow ==
  ASSUME NEW y \in Int, NEW z \in Int, y < z
  PROVE  DaysBeforeYear(y) < DaysBeforeYear(z)
BY DEF DaysBeforeYear

\* ... of 365 or 366 each.
LEMMA YearBounds ==
  ASSUME NEW y \in Nat \ {0}
  PROVE  365 * (y - 1) <= DaysBeforeYear(y) /\ DaysBeforeYear(y + 1) <= 366 * y
BY DEF DaysBeforeYear

\* The days of a year.
InYear(n, y) == DaysBeforeYear(y) < n /\ n <= DaysBeforeYear(y + 1)

\* Every day is in a year: the day after one is in the same year or the next.
LEMMA YearExists ==
  ASSUME NEW day \in Nat \ {0}
  PROVE  \E y \in Nat \ {0} : InYear(day, y)
<1>. DEFINE S == {n \in Nat : \E y \in Nat \ {0} : InYear(n + 1, y)}
<1>1. 0 \in S
  <2>1. DaysBeforeYear(1) = 0 /\ DaysBeforeYear(2) = 365
    BY DEF DaysBeforeYear
  <2>2. InYear(0 + 1, 1)
    BY <2>1 DEF InYear
  <2>. QED  BY <2>2
<1>2. ASSUME NEW n \in Nat, n \in S
      PROVE  n + 1 \in S
  <2>1. PICK y \in Nat \ {0} : InYear(n + 1, y)
    BY <1>2
  <2>2. /\ DaysBeforeYear(y) \in Int /\ DaysBeforeYear(y + 1) \in Int
        /\ DaysBeforeYear((y + 1) + 1) >= DaysBeforeYear(y + 1) + 365
    BY YearLength
  <2>3. InYear((n + 1) + 1, y) \/ InYear((n + 1) + 1, y + 1)
    <3>. PICK a, b, c : /\ a = DaysBeforeYear(y) /\ b = DaysBeforeYear(y + 1)
                        /\ c = DaysBeforeYear((y + 1) + 1)
      OBVIOUS
    <3>1. a < n + 1 /\ n + 1 <= b /\ a \in Int /\ b \in Int /\ c >= b + 365 /\ c \in Int
      BY <2>1, <2>2, YearLength DEF InYear
    <3>2. (a < (n + 1) + 1 /\ (n + 1) + 1 <= b) \/ (b < (n + 1) + 1 /\ (n + 1) + 1 <= c)
      BY <3>1
    <3>. QED  BY <3>2 DEF InYear
  <2>4. y + 1 \in Nat \ {0}
    OBVIOUS
  <2>. QED  BY <2>3, <2>4
<1>3. \A n \in Nat : n \in S
  <2>. HIDE DEF S
  <2>. QED  BY <1>1, <1>2, Counting
<1>4. day - 1 \in S /\ (day - 1) + 1 = day
  BY <1>3
<1>. QED  BY <1>4

LEMMA YearUnique ==
  ASSUME NEW n \in Int, NEW y \in Int, NEW z \in Int, InYear(n, y), InYear(n, z)
  PROVE  y = z
<1>1. ASSUME NEW a \in Int, NEW b \in Int, InYear(n, a), InYear(n, b), a < b
      PROVE  FALSE
  <2>1. DaysBeforeYear(a + 1) <= DaysBeforeYear(b)
    <3>1. CASE a + 1 = b
      BY <3>1, YearLength
    <3>2. CASE a + 1 < b
      <4>1. DaysBeforeYear(a + 1) < DaysBeforeYear(b)
        BY <3>2, YearsGrow
      <4>2. DaysBeforeYear(a + 1) \in Int /\ DaysBeforeYear(b) \in Int
        BY YearLength
      <4>. QED  BY <4>1, <4>2
    <3>. QED  BY <1>1, <3>1, <3>2
  <2>. QED  BY <1>1, <2>1, YearLength DEF InYear
<1>. QED  BY <1>1

LEMMA YearIs ==
  ASSUME NEW n \in Nat \ {0}
  PROVE  YearOf(n) \in Nat \ {0} /\ InYear(n, YearOf(n))
<1>1. PICK y \in Nat \ {0} : InYear(n, y)
  BY YearExists
<1>2. y \in (n - 1) \div 366 + 1 .. (n - 1) \div 365 + 1
  <2>1. 365 * (y - 1) < n /\ n <= 366 * y
    <3>. PICK a, b : a = DaysBeforeYear(y) /\ b = DaysBeforeYear(y + 1)
      OBVIOUS
    <3>1. a < n /\ n <= b /\ a \in Int /\ b \in Int
      BY <1>1, YearLength DEF InYear
    <3>2. 365 * (y - 1) <= a /\ b <= 366 * y
      BY YearBounds
    <3>. QED  BY <3>1, <3>2
  <2>. QED  BY <2>1
<1>3. /\ YearOf(n) \in (n - 1) \div 366 + 1 .. (n - 1) \div 365 + 1
      /\ InYear(n, YearOf(n))
  BY <1>1, <1>2 DEF YearOf, InYear
<1>4. YearOf(n) \in Int
  BY <1>3
<1>. QED  BY <1>1, <1>3, <1>4, YearUnique

-----------------------------------------------------------------------------
(***************************************************************************)
(* The calendar: months and quarters.                                      *)
(***************************************************************************)

\* The first day of a month, the twelve of a year in a row.
First(y, m) == Day(y, m, 1)

YearTable(y, b, leap) ==
    /\ b = DaysBeforeYear(y) /\ DaysBeforeYear(y + 1) = b + 365 + leap
    /\ First(y, 1) = b + 1           /\ First(y, 2) = b + 32
    /\ First(y, 3) = b + 60 + leap   /\ First(y, 4) = b + 91 + leap
    /\ First(y, 5) = b + 121 + leap  /\ First(y, 6) = b + 152 + leap
    /\ First(y, 7) = b + 182 + leap  /\ First(y, 8) = b + 213 + leap
    /\ First(y, 9) = b + 244 + leap  /\ First(y, 10) = b + 274 + leap
    /\ First(y, 11) = b + 305 + leap /\ First(y, 12) = b + 335 + leap

LEMMA MonthStarts ==
  ASSUME NEW y \in Int
  PROVE  \E leap \in {0, 1}, b \in Int : YearTable(y, b, leap)
<1>. PICK b : b = DaysBeforeYear(y)
  OBVIOUS
<1>1. b \in Int /\ DaysBeforeYear(y + 1) = b + (IF IsLeap(y) THEN 366 ELSE 365)
  BY YearLength
<1>2. /\ First(y, 1) = b + 1 /\ First(y, 2) = b + 32
  BY <1>1 DEF First, Day, DaysBeforeMonth
<1>3. ASSUME NEW leap, leap = IF IsLeap(y) THEN 1 ELSE 0
      PROVE  /\ First(y, 3) = b + 60 + leap   /\ First(y, 4) = b + 91 + leap
             /\ First(y, 5) = b + 121 + leap  /\ First(y, 6) = b + 152 + leap
             /\ First(y, 7) = b + 182 + leap  /\ First(y, 8) = b + 213 + leap
             /\ First(y, 9) = b + 244 + leap  /\ First(y, 10) = b + 274 + leap
             /\ First(y, 11) = b + 305 + leap /\ First(y, 12) = b + 335 + leap
  BY <1>1, <1>3 DEF First, Day, DaysBeforeMonth
<1>4. PICK leap : leap = IF IsLeap(y) THEN 1 ELSE 0
  OBVIOUS
<1>5. leap \in {0, 1} /\ DaysBeforeYear(y + 1) = b + 365 + leap
  BY <1>1, <1>4
<1>. QED  BY <1>1, <1>2, <1>3, <1>4, <1>5 DEF YearTable

\* The last day of a month is the eve of the next.
LEMMA MonthEnds ==
  ASSUME NEW y \in Int, NEW m \in 1..12
  PROVE  /\ First(y, m) \in Int /\ MonthLength(y, m) \in 28..31
         /\ MonthSpan(y, m) = <<First(y, m), First(y, m) + MonthLength(y, m) - 1>>
         /\ m < 12 => First(y, m + 1) = First(y, m) + MonthLength(y, m)
         /\ m = 12 => First(y + 1, 1) = First(y, m) + MonthLength(y, m)
<1>1. PICK b : b = DaysBeforeYear(y)
  OBVIOUS
<1>2. b \in Int /\ DaysBeforeYear(y + 1) = b + (IF IsLeap(y) THEN 366 ELSE 365)
  BY <1>1, YearLength
<1>3. MonthLength(y, m) \in 28..31
  BY DEF MonthLength
<1>4. DaysBeforeMonth(y, m) \in Int
  BY DEF DaysBeforeMonth
<1>5. First(y, m) \in Int /\ First(y, m) = b + DaysBeforeMonth(y, m) + 1
  BY <1>1, <1>2, <1>4 DEF First, Day
<1>6. MonthSpan(y, m) = <<First(y, m), First(y, m) + MonthLength(y, m) - 1>>
  BY <1>1, <1>2, <1>3, <1>4 DEF MonthSpan, Span, First, Day
<1>7. ASSUME m < 12
      PROVE  First(y, m + 1) = First(y, m) + MonthLength(y, m)
  <2>1. DaysBeforeMonth(y, m + 1) = DaysBeforeMonth(y, m) + MonthLength(y, m)
    BY <1>7 DEF DaysBeforeMonth, MonthLength
  <2>. QED  BY <1>1, <1>2, <1>3, <1>4, <2>1 DEF First, Day
<1>8. ASSUME m = 12
      PROVE  First(y + 1, 1) = First(y, m) + MonthLength(y, m)
  <2>1. DaysBeforeMonth(y, 12) = 334 + (IF IsLeap(y) THEN 1 ELSE 0) /\ MonthLength(y, 12) = 31
        /\ DaysBeforeMonth(y + 1, 1) = 0
    BY DEF DaysBeforeMonth, MonthLength
  <2>. QED  BY <1>1, <1>2, <1>8, <2>1 DEF First, Day
<1>. QED  BY <1>3, <1>5, <1>6, <1>7, <1>8

\* The days of a month.
InMonth(n, y, m) == First(y, m) <= n /\ n < First(y, m) + MonthLength(y, m)

\* Later months start later.
LEMMA MonthsGrow ==
  ASSUME NEW y \in Int, NEW m \in 1..12, NEW k \in 1..12, m < k
  PROVE  First(y, m) < First(y, k)
<1>1. PICK leap \in {0, 1}, b \in Int : YearTable(y, b, leap)
  BY MonthStarts
<1>. QED  BY <1>1 DEF YearTable

LEMMA MonthNext ==
  ASSUME NEW y \in Int, NEW m \in 1..11
  PROVE  /\ First(y, m) \in Int /\ MonthLength(y, m) \in Int /\ First(y, m + 1) \in Int
         /\ First(y, m + 1) = First(y, m) + MonthLength(y, m)
<1>1. m \in 1..12 /\ m < 12
  OBVIOUS
<1>2. /\ First(y, m) \in Int /\ MonthLength(y, m) \in 28..31
      /\ First(y, m + 1) = First(y, m) + MonthLength(y, m)
  BY <1>1, MonthEnds
<1>. QED  BY <1>2

LEMMA MonthUnique ==
  ASSUME NEW n \in Int, NEW y \in Int, NEW m \in 1..12, NEW k \in 1..12,
         InMonth(n, y, m), InMonth(n, y, k)
  PROVE  m = k
<1>1. ASSUME NEW a \in 1..12, NEW b \in 1..12, InMonth(n, y, a), InMonth(n, y, b), a < b
      PROVE  FALSE
  <2>. PICK f, l, g : f = First(y, a) /\ l = MonthLength(y, a) /\ g = First(y, b)
    OBVIOUS
  <2>1. f \in Int /\ l \in Int /\ g \in Int /\ First(y, a + 1) = f + l
    <3>1. a \in 1..11
      BY <1>1
    <3>2. First(y, b) \in Int
      BY MonthEnds
    <3>. QED  BY <3>1, <3>2, MonthNext
  <2>2. f + l <= g
    <3>1. CASE a + 1 = b
      BY <2>1, <3>1
    <3>2. CASE a + 1 < b
      <4>1. First(y, a + 1) < First(y, b)
        BY <3>2, MonthsGrow
      <4>. QED  BY <2>1, <4>1
    <3>. QED  BY <1>1, <3>1, <3>2
  <2>. QED  BY <1>1, <2>1, <2>2 DEF InMonth
<1>. QED  BY <1>1

LEMMA MonthIs ==
  ASSUME NEW n \in Nat \ {0}
  PROVE  MonthOf(n) \in 1..12 /\ InMonth(n, YearOf(n), MonthOf(n))
<1>. PICK y : y = YearOf(n)
  OBVIOUS
<1>1. y \in Nat \ {0} /\ InYear(n, y)
  BY YearIs
<1>2. PICK leap \in {0, 1}, b \in Int : YearTable(y, b, leap)
  BY <1>1, MonthStarts
<1>3. b < n /\ n <= b + 365 + leap
  BY <1>1, <1>2 DEF InYear, YearTable
<1>4. PICK m \in 1..12 : First(y, m) <= n /\ (m < 12 => n < First(y, m + 1))
  <2>1. \/ First(y, 12) <= n
        \/ \E m \in 1..11 : First(y, m) <= n /\ n < First(y, m + 1)
    BY <1>2, <1>3 DEF YearTable
  <2>. QED  BY <2>1
<1>5. InMonth(n, y, m)
  <2>1. CASE m < 12
    <3>1. m \in 1..11 /\ y \in Int
      BY <1>1, <2>1
    <3>. QED  BY <1>4, <2>1, <3>1, MonthNext DEF InMonth
  <2>2. CASE m = 12
    <3>1. MonthLength(y, 12) = 31
      BY DEF MonthLength
    <3>. QED  BY <1>2, <1>3, <1>4, <2>2, <3>1 DEF InMonth, YearTable
  <2>. QED  BY <2>1, <2>2
<1>6. MonthOf(n) = CHOOSE k \in 1..12 : InMonth(n, y, k)
  BY DEF MonthOf, InMonth, First
<1>. QED  BY <1>5, <1>6

\* The months named by a date are those of the first of its days.
LEMMA FirstOfMonth ==
  ASSUME NEW y \in Nat \ {0}, NEW m \in 1..12
  PROVE  First(y, m) \in Nat \ {0} /\ YearOf(First(y, m)) = y
<1>1. PICK leap \in {0, 1}, b \in Int : YearTable(y, b, leap)
  BY MonthStarts
<1>2. b >= 0
  BY <1>1, YearBounds DEF YearTable
<1>3. First(y, m) \in Nat \ {0} /\ b < First(y, m) /\ First(y, m) <= b + 365 + leap
  BY <1>1, <1>2 DEF YearTable
<1>4. InYear(First(y, m), y)
  BY <1>1, <1>3 DEF InYear, YearTable
<1>. QED  BY <1>3, <1>4, YearIs, YearUnique


-----------------------------------------------------------------------------
(***************************************************************************)
(* The periods tile the days.                                              *)
(***************************************************************************)

\* The last day of a month.
Last(y, m) == First(y, m) + MonthLength(y, m) - 1

LEMMA MonthSpanIs ==
  ASSUME NEW y \in Int, NEW m \in 1..12
  PROVE  /\ MonthSpan(y, m) = <<First(y, m), Last(y, m)>>
         /\ First(y, m) \in Int /\ Last(y, m) \in Int /\ First(y, m) < Last(y, m)
         /\ m < 12 => First(y, m + 1) = Last(y, m) + 1
         /\ m = 12 => First(y + 1, 1) = Last(y, m) + 1
<1>. PICK f, l : f = First(y, m) /\ l = MonthLength(y, m)
  OBVIOUS
<1>1. f \in Int /\ l \in 28..31 /\ MonthSpan(y, m) = <<f, f + l - 1>>
  BY MonthEnds
<1>2. m < 12 => First(y, m + 1) = f + l
  BY MonthEnds
<1>3. m = 12 => First(y + 1, 1) = f + l
  BY MonthEnds
<1>4. Last(y, m) = f + l - 1
  BY DEF Last
<1>. QED  BY <1>1, <1>2, <1>3, <1>4

LEMMA DaysOfMonth ==
  ASSUME NEW n \in Int, NEW y \in Int, NEW m \in 1..12, InMonth(n, y, m)
  PROVE  First(y, m) <= n /\ n <= Last(y, m)
<1>. PICK f, l : f = First(y, m) /\ l = MonthLength(y, m)
  OBVIOUS
<1>1. f \in Int /\ l \in 28..31
  BY MonthEnds
<1>. QED  BY <1>1 DEF InMonth, Last

\* A range ends on the eve of the next.
Adjoin(past, this) == past[1] <= past[2] /\ past[2] + 1 = this[1]

LEMMA Weeks ==
  ASSUME NEW n \in Nat \ {0}
  PROVE  InRange(n, WeekSpan(n)) /\ Adjoin(WeekSpan(n - 7), WeekSpan(n))
<1>. PICK w : w = Weekday(n)
  OBVIOUS
<1>1. w \in 0..6 /\ Weekday(n - 7) = w
  BY DEF Weekday
<1>2. /\ WeekSpan(n) = <<n - w, (n - w) + 6>>
      /\ WeekSpan(n - 7) = <<n - 7 - w, (n - 7 - w) + 6>>
  BY <1>1 DEF WeekSpan, Span
<1>. QED  BY <1>1, <1>2 DEF InRange, Adjoin

LEMMA Months ==
  ASSUME NEW n \in Nat \ {0}, NEW y, y = YearOf(n), NEW m, m = MonthOf(n)
  PROVE  InRange(n, MonthSpan(y, m)) /\ Adjoin(LastMonthSpan(y, m), MonthSpan(y, m))
<1>1. y \in Nat \ {0} /\ y \in Int /\ m \in 1..12 /\ InMonth(n, y, m)
  BY YearIs, MonthIs
<1>. PICK a, b : a = First(y, m) /\ b = Last(y, m)
  OBVIOUS
<1>2. /\ MonthSpan(y, m) = <<a, b>> /\ a \in Int /\ b \in Int
      /\ a <= n /\ n <= b
  <2>1. /\ MonthSpan(y, m) = <<First(y, m), Last(y, m)>>
        /\ First(y, m) \in Int /\ Last(y, m) \in Int
    BY ONLY <1>1, MonthSpanIs
  <2>2. First(y, m) <= n /\ n <= Last(y, m)
    BY <1>1, DaysOfMonth
  <2>. QED  BY <2>1, <2>2
<1>3. InRange(n, MonthSpan(y, m))
  BY <1>2 DEF InRange
<1>4. PICK z, k : z \in Int /\ k \in 1..12 /\ LastMonthSpan(y, m) = MonthSpan(z, k)
                  /\ First(y, m) = Last(z, k) + 1
  <2>1. CASE m > 1
    <3>. PICK k : k = m - 1
      OBVIOUS
    <3>1. k \in 1..12 /\ k < 12 /\ k + 1 = m
      BY <1>1, <2>1
    <3>2. LastMonthSpan(y, m) = MonthSpan(y, k)
      BY <2>1 DEF LastMonthSpan, MonthBefore
    <3>3. First(y, k + 1) = Last(y, k) + 1
      BY <1>1, <3>1, MonthSpanIs
    <3>. QED  BY <1>1, <3>1, <3>2, <3>3
  <2>2. CASE m = 1
    <3>. PICK z : z = y - 1
      OBVIOUS
    <3>1. z \in Int /\ z + 1 = y /\ 12 \in 1..12
      BY <1>1
    <3>2. LastMonthSpan(y, m) = MonthSpan(z, 12)
      BY <2>2 DEF LastMonthSpan, MonthBefore
    <3>3. First(z + 1, 1) = Last(z, 12) + 1
      BY <3>1, MonthSpanIs
    <3>. QED  BY <2>2, <3>1, <3>2, <3>3
  <2>. QED  BY <1>1, <2>1, <2>2
<1>5. MonthSpan(z, k) = <<First(z, k), Last(z, k)>>
      /\ First(z, k) \in Int /\ Last(z, k) \in Int /\ First(z, k) < Last(z, k)
  BY <1>4, MonthSpanIs
<1>6. Adjoin(LastMonthSpan(y, m), MonthSpan(y, m))
  BY <1>2, <1>4, <1>5 DEF Adjoin
<1>. QED  BY <1>3, <1>6

LEMMA QuarterIs ==
  ASSUME NEW m \in 1..12
  PROVE  QuarterStart(m) \in {1, 4, 7, 10} /\ QuarterStart(m) <= m /\ m <= QuarterStart(m) + 2
BY DEF QuarterStart

\* Three months in a row.
LEMMA MonthsSpanIs ==
  ASSUME NEW y \in Int, NEW q \in 1..10, NEW l, l = q + 2
  PROVE  /\ MonthsSpan(y, q, q + 2) = <<First(y, q), Last(y, l)>>
         /\ First(y, q) < Last(y, l)
         /\ First(y, q) \in Int /\ Last(y, l) \in Int
         /\ q < 10 => First(y, q + 3) = Last(y, l) + 1
         /\ q = 10 => First(y + 1, 1) = Last(y, l) + 1
<1>1. l \in 1..12 /\ q \in 1..12 /\ q < l
  OBVIOUS
<1>2. /\ MonthSpan(y, l) = <<First(y, l), Last(y, l)>>
      /\ First(y, l) \in Int /\ Last(y, l) \in Int /\ First(y, l) < Last(y, l)
      /\ l < 12 => First(y, l + 1) = Last(y, l) + 1
      /\ l = 12 => First(y + 1, 1) = Last(y, l) + 1
  BY <1>1, MonthSpanIs
<1>3. MonthSpan(y, q) = <<First(y, q), Last(y, q)>> /\ First(y, q) \in Int
  BY <1>1, MonthSpanIs
<1>4. First(y, q) < First(y, l)
  BY <1>1, MonthsGrow
<1>5. MonthsSpan(y, q, q + 2) = <<First(y, q), Last(y, l)>>
  BY <1>2, <1>3 DEF MonthsSpan, Span
<1>6. First(y, q) < Last(y, l)
  BY <1>2, <1>3, <1>4
<1>7. q < 10 => l < 12 /\ l + 1 = q + 3
  OBVIOUS
<1>8. q < 10 => First(y, q + 3) = Last(y, l) + 1
  <2>. SUFFICES ASSUME q < 10
                PROVE  First(y, q + 3) = Last(y, l) + 1
    OBVIOUS
  <2>1. First(y, l + 1) = Last(y, l) + 1
    BY <1>2, <1>7
  <2>. QED  BY <1>7, <2>1
<1>9. q = 10 => l = 12
  OBVIOUS
<1>. QED  BY <1>2, <1>3, <1>5, <1>6, <1>8, <1>9

LEMMA Quarters ==
  ASSUME NEW n \in Nat \ {0}, NEW y, y = YearOf(n), NEW m, m = MonthOf(n)
  PROVE  /\ InRange(n, ThisQuarterSpan(y, m))
         /\ Adjoin(LastQuarterSpan(y, m), ThisQuarterSpan(y, m))
<1>1. y \in Nat \ {0} /\ y \in Int /\ m \in 1..12 /\ InMonth(n, y, m)
  BY YearIs, MonthIs
<1>. PICK q, l : q = QuarterStart(m) /\ l = q + 2
  OBVIOUS
<1>2. q \in {1, 4, 7, 10} /\ q <= m /\ m <= l /\ q \in 1..10 /\ l \in 1..12
  BY <1>1, QuarterIs
<1>. PICK a, b : a = First(y, q) /\ b = Last(y, l)
  OBVIOUS
<1>3. ThisQuarterSpan(y, m) = <<a, b>> /\ a \in Int /\ b \in Int
  <2>1. q \in 1..10 /\ l = q + 2 /\ y \in Int
    BY <1>1, <1>2
  <2>2. /\ MonthsSpan(y, q, q + 2) = <<First(y, q), Last(y, l)>>
        /\ First(y, q) \in Int /\ Last(y, l) \in Int
    BY ONLY <2>1, MonthsSpanIs
  <2>. QED  BY <2>2 DEF ThisQuarterSpan
<1>4. /\ First(y, m) \in Int /\ Last(y, m) \in Int
      /\ First(y, m) <= n /\ n <= Last(y, m)
  <2>1. First(y, m) \in Int /\ Last(y, m) \in Int
    BY ONLY <1>1, MonthSpanIs
  <2>2. First(y, m) <= n /\ n <= Last(y, m)
    BY <1>1, DaysOfMonth
  <2>. QED  BY <2>1, <2>2
<1>5. a <= First(y, m)
  <2>1. CASE q = m
    BY <1>3, <2>1
  <2>2. CASE q < m
    <3>1. q \in 1..12
      BY <1>2
    <3>2. First(y, q) < First(y, m)
      BY <1>1, <2>2, <3>1, MonthsGrow
    <3>. QED  BY <1>3, <1>4, <3>2
  <2>. QED  BY <1>1, <1>2, <2>1, <2>2
<1>6. Last(y, m) <= b
  <2>1. CASE m = l
    BY <1>3, <2>1
  <2>2. CASE m < l
    <3>1. m < 12 /\ m + 1 \in 1..12 /\ (m + 1 = l \/ m + 1 < l)
      BY <1>1, <1>2, <2>2
    <3>2. First(y, m + 1) = Last(y, m) + 1
      BY <1>1, <3>1, MonthSpanIs
    <3>3. First(y, l) \in Int /\ First(y, l) < b
      BY <1>1, <1>2, MonthSpanIs
    <3>4. m + 1 < l => First(y, m + 1) < First(y, l)
      BY <1>1, <1>2, <3>1, MonthsGrow
    <3>. QED  BY <1>3, <1>4, <3>1, <3>2, <3>3, <3>4
  <2>. QED  BY <1>1, <1>2, <2>1, <2>2
<1>7. InRange(n, ThisQuarterSpan(y, m))
  BY <1>3, <1>4, <1>5, <1>6 DEF InRange
<1>8. PICK z, k, j : /\ z \in Int /\ k \in 1..10 /\ j = k + 2
                     /\ LastQuarterSpan(y, m) = MonthsSpan(z, k, k + 2)
                     /\ a = Last(z, j) + 1
  <2>1. CASE q = 1
    <3>. PICK z : z = y - 1
      OBVIOUS
    <3>1. z \in Int /\ z + 1 = y /\ 10 \in 1..10 /\ 12 = 10 + 2
      BY <1>1
    <3>2. LastQuarterSpan(y, m) = MonthsSpan(z, 10, 10 + 2)
      BY <2>1 DEF LastQuarterSpan
    <3>3. First(z + 1, 1) = Last(z, 12) + 1
      BY <3>1, MonthsSpanIs
    <3>. QED  BY <2>1, <3>1, <3>2, <3>3
  <2>2. CASE q # 1
    <3>. PICK k, j : k = q - 3 /\ j = k + 2
      OBVIOUS
    <3>1. k \in 1..10 /\ k < 10 /\ k + 3 = q /\ ~(k <= 0)
      BY <1>2, <2>2
    <3>2. LastQuarterSpan(y, m) = MonthsSpan(y, k, k + 2)
      BY <3>1 DEF LastQuarterSpan
    <3>3. y \in Int /\ k \in 1..10 /\ k < 10 /\ j = k + 2
      BY <1>1, <3>1
    <3>4. First(y, k + 3) = Last(y, j) + 1
      BY ONLY <3>3, MonthsSpanIs
    <3>. QED  BY <1>1, <3>1, <3>2, <3>4
  <2>. QED  BY <2>1, <2>2
<1>9. /\ MonthsSpan(z, k, k + 2) = <<First(z, k), Last(z, j)>>
      /\ First(z, k) < Last(z, j) /\ First(z, k) \in Int /\ Last(z, j) \in Int
  BY <1>8, MonthsSpanIs
<1>10. Adjoin(LastQuarterSpan(y, m), ThisQuarterSpan(y, m))
  BY <1>3, <1>8, <1>9 DEF Adjoin
<1>. QED  BY <1>7, <1>10

LEMMA YearSpanIs ==
  ASSUME NEW y \in Int
  PROVE  /\ YearSpan(y) = <<First(y, 1), Last(y, 12)>>
         /\ First(y, 1) \in Int /\ Last(y, 12) \in Int /\ First(y, 1) <= Last(y, 12)
         /\ First(y + 1, 1) = Last(y, 12) + 1
<1>1. PICK leap \in {0, 1}, b \in Int : YearTable(y, b, leap)
  BY MonthStarts
<1>2. MonthLength(y, 12) = 31
  BY DEF MonthLength
<1>3. First(y, 12) = b + 335 + leap /\ First(y, 1) = b + 1
  BY <1>1 DEF YearTable
<1>4. Last(y, 12) = b + 365 + leap
  BY <1>2, <1>3 DEF Last
<1>5. First(y + 1, 1) = Last(y, 12) + 1
  <2>1. 12 \in 1..12
    OBVIOUS
  <2>. QED  BY <2>1, MonthSpanIs
<1>6. Day(y, 12, 31) = Last(y, 12)
  <2>1. DaysBeforeYear(y) \in Int /\ DaysBeforeMonth(y, 12) \in Int
    BY YearLength DEF DaysBeforeMonth
  <2>2. Day(y, 12, 31) = Day(y, 12, 1) + 30
    BY <2>1 DEF Day
  <2>. QED  BY <1>3, <1>4, <2>2 DEF First
<1>. QED  BY <1>3, <1>4, <1>5, <1>6 DEF YearSpan, Span, First

LEMMA Years ==
  ASSUME NEW n \in Nat \ {0}, NEW y, y = YearOf(n)
  PROVE  InRange(n, YearSpan(y)) /\ Adjoin(YearSpan(y - 1), YearSpan(y))
<1>1. y \in Nat \ {0} /\ y \in Int /\ InYear(n, y)
  BY YearIs
<1>. PICK z : z = y - 1
  OBVIOUS
<1>2. z \in Int /\ z + 1 = y
  BY <1>1
<1>3. /\ YearSpan(y) = <<First(y, 1), Last(y, 12)>>
      /\ First(y, 1) \in Int /\ Last(y, 12) \in Int
      /\ First(y + 1, 1) = Last(y, 12) + 1
  BY <1>1, YearSpanIs
<1>4. /\ YearSpan(z) = <<First(z, 1), Last(z, 12)>>
      /\ First(z, 1) \in Int /\ Last(z, 12) \in Int /\ First(z, 1) <= Last(z, 12)
      /\ First(z + 1, 1) = Last(z, 12) + 1
  BY <1>2, YearSpanIs
<1>5. First(y, 1) <= n /\ n <= Last(y, 12)
  <2>1. PICK leap \in {0, 1}, b \in Int : YearTable(y, b, leap)
    BY <1>1, MonthStarts
  <2>2. First(y + 1, 1) = b + 365 + leap + 1
    <3>1. PICK p \in {0, 1}, c \in Int : YearTable(y + 1, c, p)
      BY <1>1, MonthStarts
    <3>. QED  BY <2>1, <3>1 DEF YearTable
  <2>. QED  BY <1>1, <1>3, <2>1, <2>2 DEF InYear, YearTable
<1>6. InRange(n, YearSpan(y))
  BY <1>3, <1>5 DEF InRange
<1>7. Adjoin(YearSpan(z), YearSpan(y))
  BY <1>2, <1>3, <1>4 DEF Adjoin
<1>. QED  BY <1>6, <1>7

LEMMA MonthPhrase ==
  ASSUME NEW p, NEW n, p.kind = "month"
  PROVE  PhraseSpan(p, n) = MonthSpan(YearOf(n), p.month)
<1>1. "month" \notin RelativeKinds
  BY DEF RelativeKinds
<1>. QED  BY <1>1 DEF PhraseSpan

\* A question that names one month and nothing else.
LEMMA MonthAlone ==
  ASSUME NEW n, NEW m
  PROVE  ParseDateRange(<<[kind |-> "month", month |-> m]>>, n) = MonthSpan(YearOf(n), m)
<1>. PICK p, text : p = [kind |-> "month", month |-> m] /\ text = <<p>>
  OBVIOUS
<1>1. DOMAIN text = {1} /\ text[1] = p /\ p.kind = "month" /\ p.month = m
  OBVIOUS
<1>2. Precedence[17] = "month" /\ 17 \in DOMAIN Precedence
  BY DEF Precedence
<1>3. Deciding(text) = {p}
  BY <1>1, <1>2 DEF Deciding
<1>4. ParseDateRange(text, n) = PhraseSpan(p, n)
  BY <1>3 DEF ParseDateRange
<1>5. PhraseSpan(p, n) = MonthSpan(YearOf(n), m)
  BY <1>1, MonthPhrase
<1>. QED  BY <1>4, <1>5

LEMMA MonthsTile ==
  ASSUME NEW n \in Nat \ {0}, NEW y, y = YearOf(n), NEW m, m = MonthOf(n)
  PROVE  /\ MonthSpan(y, 1)[1] = YearSpan(y)[1] /\ MonthSpan(y, 12)[2] = YearSpan(y)[2]
         /\ \A k \in 1..11 : MonthSpan(y, k + 1)[1] = MonthSpan(y, k)[2] + 1
         /\ \E k \in 1..10 : ThisQuarterSpan(y, m) =
                               Span(MonthSpan(y, k)[1], MonthSpan(y, k + 2)[2])
<1>1. y \in Nat \ {0} /\ y \in Int /\ m \in 1..12
  BY YearIs, MonthIs
<1>2. /\ MonthSpan(y, 1) = <<First(y, 1), Last(y, 1)>>
      /\ MonthSpan(y, 12) = <<First(y, 12), Last(y, 12)>>
  BY <1>1, MonthSpanIs
<1>3. YearSpan(y) = <<First(y, 1), Last(y, 12)>>
  BY <1>1, YearSpanIs
<1>4. ASSUME NEW k \in 1..11
      PROVE  MonthSpan(y, k + 1)[1] = MonthSpan(y, k)[2] + 1
  <2>. PICK j : j = k + 1
    OBVIOUS
  <2>1. j \in 1..12 /\ k \in 1..12 /\ k < 12
    OBVIOUS
  <2>2. MonthSpan(y, j) = <<First(y, j), Last(y, j)>>
    BY <1>1, <2>1, MonthSpanIs
  <2>3. MonthSpan(y, k) = <<First(y, k), Last(y, k)>> /\ First(y, k + 1) = Last(y, k) + 1
    BY <1>1, <2>1, MonthSpanIs
  <2>. QED  BY <2>2, <2>3
<1>5. QuarterStart(m) \in 1..10
  BY <1>1, QuarterIs
<1>6. ThisQuarterSpan(y, m) = Span(MonthSpan(y, QuarterStart(m))[1],
                                  MonthSpan(y, QuarterStart(m) + 2)[2])
  BY DEF ThisQuarterSpan, MonthsSpan
<1>. QED  BY <1>2, <1>3, <1>4, <1>5, <1>6

LEMMA RelativeSpans ==
  ASSUME NEW n, NEW y, y = YearOf(n), NEW m, m = MonthOf(n)
  PROVE  /\ RelativeSpan("this week", n) = WeekSpan(n)
         /\ RelativeSpan("last week", n) = WeekSpan(n - 7)
         /\ RelativeSpan("this month", n) = MonthSpan(y, m)
         /\ RelativeSpan("last month", n) = LastMonthSpan(y, m)
         /\ RelativeSpan("this quarter", n) = ThisQuarterSpan(y, m)
         /\ RelativeSpan("last quarter", n) = LastQuarterSpan(y, m)
         /\ RelativeSpan("this year", n) = YearSpan(y)
         /\ RelativeSpan("last year", n) = YearSpan(y - 1)
BY DEF RelativeSpan

LEMMA UnitSpans ==
  ASSUME NEW y, y = YearOf(today), NEW m, m = MonthOf(today)
  PROVE  /\ This("week") = WeekSpan(today) /\ Past("week") = WeekSpan(today - 7)
         /\ This("month") = MonthSpan(y, m) /\ Past("month") = LastMonthSpan(y, m)
         /\ This("quarter") = ThisQuarterSpan(y, m) /\ Past("quarter") = LastQuarterSpan(y, m)
         /\ This("year") = YearSpan(y) /\ Past("year") = YearSpan(y - 1)
<1>1. /\ This("week") = RelativeSpan("this week", today)
      /\ Past("week") = RelativeSpan("last week", today)
      /\ This("month") = RelativeSpan("this month", today)
      /\ Past("month") = RelativeSpan("last month", today)
      /\ This("quarter") = RelativeSpan("this quarter", today)
      /\ Past("quarter") = RelativeSpan("last quarter", today)
      /\ This("year") = RelativeSpan("this year", today)
      /\ Past("year") = RelativeSpan("last year", today)
  BY DEF This, Past
<1>2. /\ RelativeSpan("this week", today) = WeekSpan(today)
      /\ RelativeSpan("last week", today) = WeekSpan(today - 7)
      /\ RelativeSpan("this month", today) = MonthSpan(y, m)
      /\ RelativeSpan("last month", today) = LastMonthSpan(y, m)
      /\ RelativeSpan("this quarter", today) = ThisQuarterSpan(y, m)
      /\ RelativeSpan("last quarter", today) = LastQuarterSpan(y, m)
      /\ RelativeSpan("this year", today) = YearSpan(y)
      /\ RelativeSpan("last year", today) = YearSpan(y - 1)
  BY RelativeSpans, ZenonT(60)
<1>. QED  BY ONLY <1>1, <1>2

\* On every day the clock can show, the relative periods adjoin and the months
\* partition the year (parse_date_range).
LEMMA EveryDayIsTiled ==
  ASSUME today \in Nat \ {0}
  PROVE  PeriodsTile
<1>. PICK y, m : y = YearOf(today) /\ m = MonthOf(today)
  OBVIOUS
<1>1. PeriodsAdjoin
  <2>. SUFFICES ASSUME NEW unit \in Periods
                PROVE  InRange(today, This(unit)) /\ Adjoin(Past(unit), This(unit))
    BY DEF PeriodsAdjoin, Adjoin
  <2>1. CASE unit = "week"
    <3>1. InRange(today, WeekSpan(today)) /\ Adjoin(WeekSpan(today - 7), WeekSpan(today))
      BY Weeks
    <3>. QED  BY <2>1, <3>1, UnitSpans
  <2>2. CASE unit = "month"
    <3>1. InRange(today, MonthSpan(y, m)) /\ Adjoin(LastMonthSpan(y, m), MonthSpan(y, m))
      BY Months
    <3>. QED  BY <2>2, <3>1, UnitSpans
  <2>3. CASE unit = "quarter"
    <3>1. InRange(today, ThisQuarterSpan(y, m))
          /\ Adjoin(LastQuarterSpan(y, m), ThisQuarterSpan(y, m))
      BY Quarters
    <3>. QED  BY <2>3, <3>1, UnitSpans
  <2>4. CASE unit = "year"
    <3>1. InRange(today, YearSpan(y)) /\ Adjoin(YearSpan(y - 1), YearSpan(y))
      BY Years
    <3>. QED  BY <2>4, <3>1, UnitSpans
  <2>. QED  BY <2>1, <2>2, <2>3, <2>4 DEF Periods
<1>2. MonthsPartitionYear
  <2>1. /\ MonthSpan(y, 1)[1] = YearSpan(y)[1] /\ MonthSpan(y, 12)[2] = YearSpan(y)[2]
        /\ \A k \in 1..11 : MonthSpan(y, k + 1)[1] = MonthSpan(y, k)[2] + 1
        /\ \E k \in 1..10 : ThisQuarterSpan(y, m) =
                              Span(MonthSpan(y, k)[1], MonthSpan(y, k + 2)[2])
    BY MonthsTile
  <2>2. This("year") = YearSpan(y) /\ This("quarter") = ThisQuarterSpan(y, m)
    BY UnitSpans
  <2>3. \A k : ParseDateRange(<<[kind |-> "month", month |-> k]>>, today) = MonthSpan(y, k)
    BY MonthAlone
  <2>. QED  BY <2>1, <2>2, <2>3 DEF MonthsPartitionYear
<1>. QED  BY <1>1, <1>2 DEF PeriodsTile

\* PeriodsTile is an invariant, whatever days the clock passes.
THEOREM DaysAreTiled == Spec => []PeriodsTile
<1>1. Init => today \in Days
  BY DEF Init
<1>2. today \in Days /\ [Next]_routerVars => (today \in Days)'
  BY DEF Next, Ask, Refuse, Run, Reply, Sent, NextDay, routerVars
<1>3. today \in Days => PeriodsTile
  <2>1. today \in Days => today \in Nat \ {0}
    BY RouterAssumption
  <2>. QED  BY <2>1, EveryDayIsTiled
<1>. QED  BY <1>1, <1>2, <1>3, PTL DEF Spec

-----------------------------------------------------------------------------
(***************************************************************************)
(* Which customer and which tool.                                          *)
(***************************************************************************)

\* A set of numbers with a member has a least one.
LEMMA LeastIs ==
  ASSUME NEW S, S \subseteq Nat, S # {}
  PROVE  Least(S) \in S /\ \A j \in S : Least(S) <= j
<1>1. PICK i \in S : \A m \in S : ~(<<m, i>> \in OpToRel(<, Nat))
  BY NatLessThanWellFounded, WFMin
<1>2. \A m \in S : ~(m < i)
  BY <1>1 DEF OpToRel
<1>3. \A m \in S : i <= m
  <2>1. \A m \in S : m \in Nat /\ i \in Nat
    OBVIOUS
  <2>. QED  BY <1>2, <2>1
<1>. QED  BY <1>3 DEF Least

\* The position that _extract_customer prefers of two.
Prefers(i, j) == \/ NameLength[listed[i]] > NameLength[listed[j]]
                 \/ NameLength[listed[i]] = NameLength[listed[j]] /\ i <= j

\* Among any positions of the list there is one that it prefers to all.
LEMMA PreferredExists ==
  ASSUME listed \in Seq(Customers), NEW hits, hits \subseteq DOMAIN listed, hits # {}
  PROVE  \E i \in hits : \A j \in hits : Prefers(i, j)
<1>. DEFINE S == {n \in Nat : LET upTo == {j \in hits : j <= n}
                             IN upTo # {} => \E i \in upTo : \A j \in upTo : Prefers(i, j)}
<1>1. /\ hits \subseteq Nat \ {0}
      /\ \A i \in hits : NameLength[listed[i]] \in Nat
  BY RouterAssumption
<1>2. 0 \in S
  BY <1>1
<1>3. ASSUME NEW n \in Nat, n \in S
      PROVE  n + 1 \in S
  <2>. PICK before, upTo : before = {j \in hits : j <= n} /\ upTo = {j \in hits : j <= n + 1}
    OBVIOUS
  <2>1. before # {} => \E i \in before : \A j \in before : Prefers(i, j)
    BY <1>3
  <2>2. \A j \in upTo : j \in before \/ j = n + 1
    BY <1>1
  <2>3. before \subseteq upTo
    BY <1>1
  <2>4. \A i \in upTo : Prefers(i, i)
    BY <1>1 DEF Prefers
  <2>5. upTo # {} => \E i \in upTo : \A j \in upTo : Prefers(i, j)
    <3>1. CASE n + 1 \notin hits
      <4>1. upTo = before
        BY <2>2, <2>3, <3>1
      <4>. QED  BY <2>1, <4>1
    <3>2. CASE n + 1 \in hits /\ before = {}
      BY <2>2, <2>4, <3>2
    <3>3. CASE n + 1 \in hits /\ before # {}
      <4>1. PICK i \in before : \A j \in before : Prefers(i, j)
        BY <2>1, <3>3
      <4>2. n + 1 \in upTo /\ i \in upTo /\ i <= n /\ i \in Nat
        BY <1>1, <2>3, <3>3
      <4>3. PICK a, b : a = NameLength[listed[i]] /\ b = NameLength[listed[n + 1]]
        OBVIOUS
      <4>4. a \in Nat /\ b \in Nat
        BY <1>1, <4>2, <4>3
      <4>5. CASE b > a
        <5>1. ASSUME NEW j \in before
              PROVE  Prefers(n + 1, j)
          <6>1. PICK c : c = NameLength[listed[j]]
            OBVIOUS
          <6>2. c \in Nat /\ a >= c
            BY <1>1, <4>1, <4>3, <4>4, <5>1, <6>1, SMTT(60) DEF Prefers
          <6>. QED  BY <4>3, <4>4, <4>5, <6>1, <6>2 DEF Prefers
        <5>. QED  BY <2>2, <2>4, <4>2, <5>1
      <4>6. CASE ~(b > a)
        <5>1. Prefers(i, n + 1)
          BY <4>2, <4>3, <4>4, <4>6 DEF Prefers
        <5>. QED  BY <2>2, <4>1, <4>2, <5>1
      <4>. QED  BY <4>5, <4>6
    <3>. QED  BY <3>1, <3>2, <3>3
  <2>. QED  BY <2>5
<1>4. \A n \in Nat : n \in S
  <2>. HIDE DEF S
  <2>. QED  BY <1>2, <1>3, Counting
<1>5. {j \in hits : j <= Len(listed)} = hits
  BY <1>1
<1>6. Len(listed) \in S
  <2>. HIDE DEF S
  <2>. QED  BY <1>4
<1>. QED  BY <1>5, <1>6

\* What _extract_customer returns: nothing when no listed name occurs, and else
\* a name that occurs and that no longer one of them beats.
LEMMA CustomerIs ==
  ASSUME listed \in Seq(Customers), NEW q
  PROVE  \/ /\ ExtractCustomer(q) = None
            /\ \A i \in DOMAIN listed : listed[i] \notin q.names
         \/ /\ ExtractCustomer(q) \in Customers \cap q.names
            /\ \A i \in DOMAIN listed : listed[i] \in q.names =>
                  NameLength[listed[i]] <= NameLength[ExtractCustomer(q)]
<1>. DEFINE hits == {i \in DOMAIN listed : listed[i] \in q.names}
            best == {i \in hits : \A j \in hits : Prefers(i, j)}
<1>1. ExtractCustomer(q) = IF hits = {} THEN None ELSE listed[CHOOSE i \in best : TRUE]
  BY DEF ExtractCustomer, Prefers
<1>2. CASE hits = {}
  BY <1>1, <1>2
<1>3. CASE hits # {}
  <2>1. best # {}
    <3>. HIDE DEF hits
    <3>1. hits \subseteq DOMAIN listed
      BY DEF hits
    <3>. QED  BY <1>3, <3>1, PreferredExists
  <2>2. PICK i \in best : ExtractCustomer(q) = listed[i]
    BY <1>1, <1>3, <2>1
  <2>3. i \in DOMAIN listed /\ listed[i] \in q.names /\ listed[i] \in Customers
    BY <2>2
  <2>4. ASSUME NEW j \in DOMAIN listed, listed[j] \in q.names
        PROVE  NameLength[listed[j]] <= NameLength[listed[i]]
    <3>. PICK a, b : a = NameLength[listed[i]] /\ b = NameLength[listed[j]]
      OBVIOUS
    <3>1. a \in Nat /\ b \in Nat
      BY <2>3, RouterAssumption
    <3>2. Prefers(i, j)
      BY <2>2, <2>4
    <3>. QED  BY <3>1, <3>2 DEF Prefers
  <2>. QED  BY <2>2, <2>3, <2>4
<1>. QED  BY <1>2, <1>3

Intents == {IntentOrder[i] : i \in DOMAIN IntentOrder} \cup {"unknown"}

LEMMA IntentIs ==
  ASSUME NEW q, NEW customer
  PROVE  Resolve(DetectIntent(q), q, customer) \in Intents
<1>1. DOMAIN IntentOrder \subseteq Nat /\ IntentOrder[10] = "product_insights"
      /\ IntentOrder[11] = "customer_insights" /\ 10 \in DOMAIN IntentOrder /\ 11 \in DOMAIN IntentOrder
  BY DEF IntentOrder
<1>2. DetectIntent(q) \in Intents
  <2>. DEFINE hit == {i \in DOMAIN IntentOrder : IntentOrder[i] \in q.words}
  <2>1. CASE hit # {}
    <3>. PICK least : least = Least(hit)
      OBVIOUS
    <3>1. hit \subseteq Nat
      BY <1>1
    <3>2. least \in hit
      <4>. HIDE DEF hit
      <4>. QED  BY <2>1, <3>1, LeastIs
    <3>3. DetectIntent(q) \in {"unknown", IntentOrder[least]}
      BY DEF DetectIntent
    <3>. QED  BY <3>2, <3>3 DEF Intents
  <2>2. CASE hit = {}
    BY <2>2 DEF DetectIntent, Intents
  <2>. QED  BY <2>1, <2>2
<1>3. "product_insights" \in Intents /\ "customer_insights" \in Intents
  BY <1>1 DEF Intents
<1>. QED  BY <1>2, <1>3 DEF Resolve

\* The routes there are: which tool, about whom, dated how, and when refused.
CustomerTools == {"get_payment_history", "get_customer_insights", "get_customer_summary",
                  "get_customer_balance"}
PlainTools == {"get_business_alerts", "get_collection_priorities", "get_dashboard_summary"}

Routed(q, tool, customer, dated, refused) ==
    \/ tool \in PlainTools /\ customer = None /\ dated = "no" /\ refused = FALSE
    \/ /\ tool \in {"get_top_debtors", "get_overdue_invoices"}
       /\ customer = None /\ dated = "period" /\ refused = FALSE
    \/ tool \in SalesTools /\ customer = None /\ dated = "sales" /\ refused = FALSE
    \/ /\ tool \in CustomerTools /\ customer = ExtractCustomer(q) /\ dated = "no"
       /\ refused = (customer = None)
    \/ /\ tool = "get_customer_statement" /\ customer = ExtractCustomer(q)
       /\ dated = "period" /\ refused = (customer = None)
    \/ /\ tool = "get_unpaid_invoices" /\ customer = ExtractCustomer(q)
       /\ dated = "period" /\ refused = (customer = None /\ q.target = "unknown")
    \/ /\ tool = "get_product_insights" /\ customer = None /\ dated = "no"
       /\ refused \in BOOLEAN
    \/ tool = "unknown" /\ customer = None /\ dated = "no" /\ refused = TRUE

LEMMA RouteIs ==
  ASSUME NEW q
  PROVE  \E tool, customer, dated, refused :
            /\ RuleBasedRoute(q) = Plan(tool, customer, dated, refused)
            /\ Routed(q, tool, customer, dated, refused)
<1>. PICK customer : customer = ExtractCustomer(q)
  OBVIOUS
<1>. PICK intent : intent = Resolve(DetectIntent(q), q, customer)
  OBVIOUS
<1>1. intent \in Intents
  BY IntentIs
<1>2. intent \in {"business_alerts", "collections", "overdue_invoices", "top_debtors",
                  "statement", "dashboard", "top_products", "sales_summary",
                  "payment_history", "product_insights", "customer_insights",
                  "customer_summary", "unpaid_invoices", "balance", "unknown"}
  BY <1>1 DEF Intents, IntentOrder
<1>3. CASE intent = "business_alerts"
  <2>1. RuleBasedRoute(q) = Plan("get_business_alerts", None, "no", FALSE)
    BY <1>3 DEF RuleBasedRoute, ForAll, ForCustomer
  <2>2. Routed(q, "get_business_alerts", None, "no", FALSE)
    BY DEF Routed, PlainTools, SalesTools, CustomerTools
  <2>. QED  BY <2>1, <2>2
<1>4. CASE intent = "collections"
  <2>1. RuleBasedRoute(q) = Plan("get_collection_priorities", None, "no", FALSE)
    BY <1>4 DEF RuleBasedRoute, ForAll, ForCustomer
  <2>2. Routed(q, "get_collection_priorities", None, "no", FALSE)
    BY DEF Routed, PlainTools, SalesTools, CustomerTools
  <2>. QED  BY <2>1, <2>2
<1>5. CASE intent = "top_debtors"
  <2>1. RuleBasedRoute(q) = Plan("get_top_debtors", None, "period", FALSE)
    BY <1>5 DEF RuleBasedRoute, ForAll, ForCustomer
  <2>2. Routed(q, "get_top_debtors", None, "period", FALSE)
    BY DEF Routed, PlainTools, SalesTools, CustomerTools
  <2>. QED  BY <2>1, <2>2
<1>6. CASE intent = "statement"
  <2>1. RuleBasedRoute(q) = Plan("get_customer_statement", customer, "period", customer = None)
    BY <1>6 DEF RuleBasedRoute, ForAll, ForCustomer
  <2>2. Routed(q, "get_customer_statement", customer, "period", customer = None)
    BY DEF Routed, PlainTools, SalesTools, CustomerTools
  <2>. QED  BY <2>1, <2>2
<1>7. CASE intent = "dashboard"
  <2>1. RuleBasedRoute(q) = Plan("get_dashboard_summary", None, "no", FALSE)
    BY <1>7 DEF RuleBasedRoute, ForAll, ForCustomer
  <2>2. Routed(q, "get_dashboard_summary", None, "no", FALSE)
    BY DEF Routed, PlainTools, SalesTools, CustomerTools
  <2>. QED  BY <2>1, <2>2
<1>8. CASE intent = "overdue_invoices"
  <2>1. RuleBasedRoute(q) = Plan("get_overdue_invoices", None, "period", FALSE)
    BY <1>8 DEF RuleBasedRoute, ForAll, ForCustomer
  <2>2. Routed(q, "get_overdue_invoices", None, "period", FALSE)
    BY DEF Routed, PlainTools, SalesTools, CustomerTools
  <2>. QED  BY <2>1, <2>2
<1>9. CASE intent = "top_products"
  <2>1. RuleBasedRoute(q) = Plan("get_top_selling_products", None, "sales", FALSE)
    BY <1>9 DEF RuleBasedRoute, ForAll, ForCustomer
  <2>2. Routed(q, "get_top_selling_products", None, "sales", FALSE)
    BY DEF Routed, PlainTools, SalesTools, CustomerTools
  <2>. QED  BY <2>1, <2>2
<1>10. CASE intent = "sales_summary"
  <2>1. RuleBasedRoute(q) = Plan("get_sales_summary", None, "sales", FALSE)
    BY <1>10 DEF RuleBasedRoute, ForAll, ForCustomer
  <2>2. Routed(q, "get_sales_summary", None, "sales", FALSE)
    BY DEF Routed, PlainTools, SalesTools, CustomerTools
  <2>. QED  BY <2>1, <2>2
<1>11. CASE intent = "payment_history"
  <2>1. RuleBasedRoute(q) = Plan("get_payment_history", customer, "no", customer = None)
    BY <1>11 DEF RuleBasedRoute, ForAll, ForCustomer
  <2>2. Routed(q, "get_payment_history", customer, "no", customer = None)
    BY DEF Routed, PlainTools, SalesTools, CustomerTools
  <2>. QED  BY <2>1, <2>2
<1>12. CASE intent = "product_insights"
  <2>1. RuleBasedRoute(q) = Plan("get_product_insights", None, "no", q.subject = "nothing")
    BY <1>12 DEF RuleBasedRoute, ForAll, ForCustomer
  <2>2. Routed(q, "get_product_insights", None, "no", q.subject = "nothing")
    BY DEF Routed, PlainTools, SalesTools, CustomerTools
  <2>. QED  BY <2>1, <2>2
<1>13. CASE intent = "customer_insights"
  <2>1. RuleBasedRoute(q) = Plan("get_customer_insights", customer, "no", customer = None)
    BY <1>13 DEF RuleBasedRoute, ForAll, ForCustomer
  <2>2. Routed(q, "get_customer_insights", customer, "no", customer = None)
    BY DEF Routed, PlainTools, SalesTools, CustomerTools
  <2>. QED  BY <2>1, <2>2
<1>14. CASE intent = "customer_summary"
  <2>1. RuleBasedRoute(q) = Plan("get_customer_summary", customer, "no", customer = None)
    BY <1>14 DEF RuleBasedRoute, ForAll, ForCustomer
  <2>2. Routed(q, "get_customer_summary", customer, "no", customer = None)
    BY DEF Routed, PlainTools, SalesTools, CustomerTools
  <2>. QED  BY <2>1, <2>2
<1>15. CASE intent = "unpaid_invoices"
  <2>1. RuleBasedRoute(q) = Plan("get_unpaid_invoices", customer, "period", customer = None /\ q.target = "unknown")
    BY <1>15 DEF RuleBasedRoute, ForAll, ForCustomer, NamesUnmatchedCustomer
  <2>2. Routed(q, "get_unpaid_invoices", customer, "period", customer = None /\ q.target = "unknown")
    BY DEF Routed, PlainTools, SalesTools, CustomerTools
  <2>. QED  BY <2>1, <2>2
<1>16. CASE intent = "balance"
  <2>1. RuleBasedRoute(q) = Plan("get_customer_balance", customer, "no", customer = None)
    BY <1>16 DEF RuleBasedRoute, ForAll, ForCustomer
  <2>2. Routed(q, "get_customer_balance", customer, "no", customer = None)
    BY DEF Routed, PlainTools, SalesTools, CustomerTools
  <2>. QED  BY <2>1, <2>2
<1>17. CASE intent = "unknown"
  <2>1. RuleBasedRoute(q) = Plan("unknown", None, "no", TRUE)
    BY <1>17 DEF RuleBasedRoute, ForAll, ForCustomer
  <2>2. Routed(q, "unknown", None, "no", TRUE)
    BY DEF Routed, PlainTools, SalesTools, CustomerTools
  <2>. QED  BY <2>1, <2>2
<1>. QED  BY <1>2, <1>3, <1>4, <1>5, <1>6, <1>7, <1>8, <1>9, <1>10, <1>11, <1>12, <1>13, <1>14, <1>15, <1>16, <1>17

-----------------------------------------------------------------------------
(***************************************************************************)
(* The tools that there are.                                               *)
(***************************************************************************)

\* A tool with these parameters, these of them mandatory: in the registry and
\* in the schemas alike.
Row(tool, parameters, mandatory) ==
    /\ tool \in DOMAIN TOOL_REGISTRY
    /\ TOOL_REGISTRY[tool].parameters = parameters
    /\ TOOL_REGISTRY[tool].mandatory = mandatory
    /\ DOMAIN TOOL_SCHEMAS[tool].properties = parameters
    /\ TOOL_SCHEMAS[tool].required = mandatory

LEMMA CallIsReal ==
  ASSUME NEW tool, NEW parameters, NEW mandatory, Row(tool, parameters, mandatory),
         NEW given, mandatory \subseteq given, given \subseteq parameters
  PROVE  Binds(tool, given) /\ given \in SchemaCalls(tool)
BY DEF Row, Binds, SchemaCalls

LEMMA Rows ==
  /\ Row("get_customer_balance", {"customer_name"}, {"customer_name"})
  /\ Row("get_customer_summary", {"customer_name"}, {"customer_name"})
  /\ Row("get_payment_history", {"customer_name"}, {"customer_name"})
  /\ Row("get_customer_insights", {"customer_name"}, {"customer_name"})
  /\ Row("get_product_insights", {"product_name"}, {"product_name"})
  /\ Row("get_customer_statement", {"customer_name", "period"}, {"customer_name"})
  /\ Row("get_top_debtors", {"limit", "period"}, {})
  /\ Row("get_collection_priorities", {"limit"}, {})
  /\ Row("get_business_alerts", {"limit"}, {})
  /\ Row("get_dashboard_summary", {}, {})
  /\ Row("get_unpaid_invoices", {"customer_name", "period"}, {})
  /\ Row("get_overdue_invoices", {"period"}, {})
  /\ Row("get_top_selling_products", {"period", "month", "year", "limit"}, {})
  /\ Row("get_sales_summary", {"period", "month", "year"}, {})
<1>1. Row("get_customer_balance", {"customer_name"}, {"customer_name"})
  BY DEF Row, TOOL_REGISTRY, OfCustomer, Signature, TOOL_SCHEMAS, CustomerSchemas, InsightSchemas,
         LedgerSchemas, SalesSchemas, Schema, ByCustomer, ByLimit, NoProperty
<1>2. Row("get_customer_summary", {"customer_name"}, {"customer_name"})
  BY DEF Row, TOOL_REGISTRY, OfCustomer, Signature, TOOL_SCHEMAS, CustomerSchemas, InsightSchemas,
         LedgerSchemas, SalesSchemas, Schema, ByCustomer, ByLimit, NoProperty
<1>3. Row("get_payment_history", {"customer_name"}, {"customer_name"})
  BY DEF Row, TOOL_REGISTRY, OfCustomer, Signature, TOOL_SCHEMAS, CustomerSchemas, InsightSchemas,
         LedgerSchemas, SalesSchemas, Schema, ByCustomer, ByLimit, NoProperty
<1>4. Row("get_customer_insights", {"customer_name"}, {"customer_name"})
  BY DEF Row, TOOL_REGISTRY, OfCustomer, Signature, TOOL_SCHEMAS, CustomerSchemas, InsightSchemas,
         LedgerSchemas, SalesSchemas, Schema, ByCustomer, ByLimit, NoProperty
<1>5. Row("get_product_insights", {"product_name"}, {"product_name"})
  BY DEF Row, TOOL_REGISTRY, OfCustomer, Signature, TOOL_SCHEMAS, CustomerSchemas, InsightSchemas,
         LedgerSchemas, SalesSchemas, Schema, ByCustomer, ByLimit, NoProperty
<1>6. Row("get_customer_statement", {"customer_name", "period"}, {"customer_name"})
  BY DEF Row, TOOL_REGISTRY, OfCustomer, Signature, TOOL_SCHEMAS, CustomerSchemas, InsightSchemas,
         LedgerSchemas, SalesSchemas, Schema, ByCustomer, ByLimit, NoProperty
<1>7. Row("get_top_debtors", {"limit", "period"}, {})
  BY DEF Row, TOOL_REGISTRY, OfCustomer, Signature, TOOL_SCHEMAS, CustomerSchemas, InsightSchemas,
         LedgerSchemas, SalesSchemas, Schema, ByCustomer, ByLimit, NoProperty
<1>8. Row("get_collection_priorities", {"limit"}, {})
  BY DEF Row, TOOL_REGISTRY, OfCustomer, Signature, TOOL_SCHEMAS, CustomerSchemas, InsightSchemas,
         LedgerSchemas, SalesSchemas, Schema, ByCustomer, ByLimit, NoProperty
<1>9. Row("get_business_alerts", {"limit"}, {})
  BY DEF Row, TOOL_REGISTRY, OfCustomer, Signature, TOOL_SCHEMAS, CustomerSchemas, InsightSchemas,
         LedgerSchemas, SalesSchemas, Schema, ByCustomer, ByLimit, NoProperty
<1>10. Row("get_dashboard_summary", {}, {})
  BY DEF Row, TOOL_REGISTRY, OfCustomer, Signature, TOOL_SCHEMAS, CustomerSchemas, InsightSchemas,
         LedgerSchemas, SalesSchemas, Schema, ByCustomer, ByLimit, NoProperty
<1>11. Row("get_unpaid_invoices", {"customer_name", "period"}, {})
  BY DEF Row, TOOL_REGISTRY, OfCustomer, Signature, TOOL_SCHEMAS, CustomerSchemas, InsightSchemas,
         LedgerSchemas, SalesSchemas, Schema, ByCustomer, ByLimit, NoProperty
<1>12. Row("get_overdue_invoices", {"period"}, {})
  BY DEF Row, TOOL_REGISTRY, OfCustomer, Signature, TOOL_SCHEMAS, CustomerSchemas, InsightSchemas,
         LedgerSchemas, SalesSchemas, Schema, ByCustomer, ByLimit, NoProperty
<1>13. Row("get_top_selling_products", {"period", "month", "year", "limit"}, {})
  BY DEF Row, TOOL_REGISTRY, OfCustomer, Signature, TOOL_SCHEMAS, CustomerSchemas, InsightSchemas,
         LedgerSchemas, SalesSchemas, Schema, ByCustomer, ByLimit, NoProperty
<1>14. Row("get_sales_summary", {"period", "month", "year"}, {})
  BY DEF Row, TOOL_REGISTRY, OfCustomer, Signature, TOOL_SCHEMAS, CustomerSchemas, InsightSchemas,
         LedgerSchemas, SalesSchemas, Schema, ByCustomer, ByLimit, NoProperty
<1>. QED  BY <1>1, <1>2, <1>3, <1>4, <1>5, <1>6, <1>7, <1>8, <1>9, <1>10, <1>11, <1>12, <1>13, <1>14

\* Whatever is decided on, and not refused, is reported as a call of the tool.
LEMMA RouteIsReal ==
  ASSUME NEW q, NEW p, Routed(q, p.tool, p.customer, p.dated, p.refused), ~p.refused,
         NEW label, NEW given, given = Reported(p, label)
  PROVE  Binds(p.tool, given) /\ given \in SchemaCalls(p.tool)
<1>. PICK dates : dates = DateParameters(p, label)
  OBVIOUS
<1>0. given = dates \cup (IF NamesCustomer(p) THEN {"customer_name"} ELSE {})
                    \cup (IF p.tool = "get_product_insights" THEN {"product_name"} ELSE {})
  BY DEF Reported
<1>1. /\ p.dated = "no" => dates = {}
      /\ p.dated = "period" => dates \subseteq {"period"}
      /\ p.dated = "sales" => dates \subseteq {"period", "month", "year"}
  BY DEF DateParameters
<1>2. NamesCustomer(p) <=> p.customer # None \/ p.tool = "get_unpaid_invoices"
  BY DEF NamesCustomer
<1>3. CASE p.tool \in PlainTools /\ p.customer = None /\ p.dated = "no"
  <2>1. given = {}
    BY <1>0, <1>1, <1>2, <1>3 DEF PlainTools
  <2>. QED  BY <1>3, <2>1, Rows, CallIsReal DEF PlainTools
<1>4. CASE /\ p.tool \in {"get_top_debtors", "get_overdue_invoices"}
           /\ p.customer = None /\ p.dated = "period"
  <2>1. given \subseteq {"period"}
    BY <1>0, <1>1, <1>2, <1>4
  <2>. QED  BY <1>4, <2>1, Rows, CallIsReal
<1>5. CASE p.tool \in SalesTools /\ p.customer = None /\ p.dated = "sales"
  <2>1. given \subseteq {"period", "month", "year"}
    BY <1>0, <1>1, <1>2, <1>5 DEF SalesTools
  <2>. QED  BY <1>5, <2>1, Rows, CallIsReal DEF SalesTools
<1>6. CASE p.tool \in CustomerTools /\ p.customer # None /\ p.dated = "no"
  <2>1. given = {"customer_name"}
    BY <1>0, <1>1, <1>2, <1>6 DEF CustomerTools
  <2>. QED  BY <1>6, <2>1, Rows, CallIsReal DEF CustomerTools
<1>7. CASE p.tool = "get_customer_statement" /\ p.customer # None /\ p.dated = "period"
  <2>1. {"customer_name"} \subseteq given /\ given \subseteq {"customer_name", "period"}
    BY <1>0, <1>1, <1>2, <1>7
  <2>. QED  BY <1>7, <2>1, Rows, CallIsReal
<1>8. CASE p.tool = "get_unpaid_invoices" /\ p.dated = "period"
  <2>1. given \subseteq {"customer_name", "period"}
    BY <1>0, <1>1, <1>2, <1>8
  <2>. QED  BY <1>8, <2>1, Rows, CallIsReal
<1>9. CASE p.tool = "get_product_insights" /\ p.customer = None /\ p.dated = "no"
  <2>1. given = {"product_name"}
    BY <1>0, <1>1, <1>2, <1>9
  <2>. QED  BY <1>9, <2>1, Rows, CallIsReal
<1>. QED  BY <1>3, <1>4, <1>5, <1>6, <1>7, <1>8, <1>9 DEF Routed

-----------------------------------------------------------------------------
(***************************************************************************)
(* The router's steps.                                                     *)
(***************************************************************************)

\* What is decided about a question stays what _rule_based_route returns on the
\* day it is asked; that day or the one before is today; and what the tool is
\* run on was read from the clock in between.
PlanInv ==
    plan # None =>
       /\ query \in Queries
       /\ Routed(query, plan.route.tool, plan.route.customer, plan.route.dated,
                 plan.route.refused)
       /\ plan.period = ExtractPeriod(query.text, plan.day)
       /\ plan.day \in Days /\ today \in plan.day .. plan.day + 1

RanInv ==
    ran # None =>
       /\ plan # None /\ ~plan.route.refused
       /\ \E n \in plan.day .. today : ran.range = FirstReading(plan, query.text, n)

RouterInv ==
    /\ today \in Days /\ listed \in Catalogues
    /\ query = None => plan = None
    /\ PlanInv
    /\ RanInv

\* What FirstReading reads, of a decision that dates so and extracted that.
Reading(dated, period, text, n) ==
  CASE dated = "no" -> NoRange
    [] dated = "period" -> ParseDateRange(text, n)
    [] dated = "sales" -> SalesScope(text, period, n)

LEMMA FirstReadingIs ==
  ASSUME NEW p, NEW text, NEW n
  PROVE  FirstReading(p, text, n) = Reading(p.route.dated, p.period, text, n)
BY DEF FirstReading, Reading

\* An answer that a decision p and a first reading of the clock lead to.
Answers(p, q, since, until) ==
    \E n \in since .. until :
       LET label == PeriodLabel(q.text, until)
           range == Reading(p.dated, ExtractPeriod(q.text, since), q.text, n)
       IN /\ answer.tool = p.tool /\ answer.customer = p.customer
          /\ answer.parameters = Reported(p, label)
          /\ answer.stated = IF p.dated = "period" THEN label ELSE range
          /\ answer.applied = IF p.dated = "sales" /\ label # NoRange THEN label ELSE range

\* An answer refuses, or is the decided tool's about the question.
AnswerInv ==
    answer # None =>
       /\ answer.refused \in BOOLEAN
       /\ answer.asked \in Queries
       /\ answer.since \in Days /\ answer.until \in Days
       /\ answer.until \in answer.since .. answer.since + 1
       /\ answer.refused =>
             answer.customer = None /\ answer.stated = NoRange /\ answer.applied = NoRange
       /\ ~answer.refused =>
             \E p : /\ Routed(answer.asked, p.tool, p.customer, p.dated, p.refused) /\ ~p.refused
                    /\ Answers(p, answer.asked, answer.since, answer.until)

LEMMA InitRouter == Init => RouterInv /\ AnswerInv
BY DEF Init, RouterInv, PlanInv, RanInv, AnswerInv

LEMMA AskRouter ==
  ASSUME RouterInv, NEW q \in Queries, Ask(q)
  PROVE  RouterInv'
<1>1. /\ today' = today /\ listed' = listed /\ ran' = ran /\ query' = q
      /\ plan' = [route |-> RuleBasedRoute(q), period |-> ExtractPeriod(q.text, today),
                  day |-> today]
      /\ query = None
  BY DEF Ask
<1>2. ran = None /\ q # None
  BY <1>1, RouterAssumption DEF RouterInv, RanInv
<1>3. /\ plan'.route = RuleBasedRoute(q) /\ plan'.day = today
      /\ plan'.period = ExtractPeriod(q.text, today)
  BY <1>1
<1>4. PICK tool, customer, dated, refused :
         /\ RuleBasedRoute(q) = Plan(tool, customer, dated, refused)
         /\ Routed(q, tool, customer, dated, refused)
  BY RouteIs
<1>5. /\ plan'.route.tool = tool /\ plan'.route.customer = customer
      /\ plan'.route.dated = dated /\ plan'.route.refused = refused
  BY <1>3, <1>4 DEF Plan
<1>6. today \in Nat /\ today \in Days
  BY RouterAssumption DEF RouterInv
<1>7. Routed(q, tool, customer, dated, refused)'
  BY <1>1, <1>4 DEF Routed, ExtractCustomer
<1>8. PlanInv'
  BY <1>1, <1>3, <1>5, <1>6, <1>7 DEF PlanInv
<1>9. RanInv'
  BY <1>1, <1>2 DEF RanInv
<1>. QED  BY <1>1, <1>2, <1>8, <1>9 DEF RouterInv

LEMMA RefuseRouter ==
  ASSUME RouterInv, Refuse
  PROVE  RouterInv' /\ AnswerInv'
<1>1. /\ plan # None /\ query \in Queries
      /\ plan.day \in Days /\ today \in plan.day .. plan.day + 1 /\ today \in Days
  BY DEF RouterInv, PlanInv, Refuse
<1>2. answer' = [tool |-> plan.route.tool, refused |-> TRUE, customer |-> None, parameters |-> {},
                 stated |-> NoRange, applied |-> NoRange,
                 asked |-> query, since |-> plan.day, until |-> today]
  BY DEF Refuse
<1>3. /\ answer'.refused = TRUE /\ answer'.customer = None
      /\ answer'.stated = NoRange /\ answer'.applied = NoRange
      /\ answer'.asked = query /\ answer'.since = plan.day /\ answer'.until = today
  BY <1>2
<1>4. AnswerInv'
  BY <1>1, <1>3 DEF AnswerInv
<1>5. /\ query' = None /\ plan' = None /\ today' = today /\ listed' = listed /\ ran' = ran
      /\ ran = None
  BY DEF Refuse, RouterInv, RanInv
<1>6. RouterInv'
  BY <1>5 DEF RouterInv, PlanInv, RanInv
<1>. QED  BY <1>4, <1>6

LEMMA RunRouter ==
  ASSUME RouterInv, Run
  PROVE  RouterInv'
<1>1. /\ today' = today /\ listed' = listed /\ query' = query /\ plan' = plan
      /\ plan # None /\ ~plan.route.refused
      /\ ran' = [range |-> FirstReading(plan, query.text, today)]
  BY DEF Run
<1>2. ran'.range = FirstReading(plan, query.text, today)
  BY <1>1
<1>3. today \in plan.day .. today
  BY <1>1, RouterAssumption DEF RouterInv, PlanInv
<1>4. PlanInv'
  BY <1>1 DEF RouterInv, PlanInv, Routed, ExtractCustomer
<1>5. RanInv'
  BY <1>1, <1>2, <1>3 DEF RanInv
<1>. QED  BY <1>1, <1>4, <1>5 DEF RouterInv

LEMMA ReplyRouter ==
  ASSUME RouterInv, Reply
  PROVE  RouterInv' /\ AnswerInv'
<1>. PICK p, q, label : p = plan.route /\ q = query /\ label = PeriodLabel(query.text, today)
  OBVIOUS
<1>1. /\ ran # None /\ query' = None /\ plan' = None /\ ran' = None
      /\ today' = today /\ listed' = listed
      /\ answer' = [tool |-> p.tool, refused |-> FALSE, customer |-> p.customer,
                    parameters |-> Reported(p, label),
                    stated |-> IF p.dated = "period" THEN label ELSE ran.range,
                    applied |-> IF p.dated = "sales" /\ label # NoRange THEN label
                                ELSE ran.range,
                    asked |-> q, since |-> plan.day, until |-> today]
  BY DEF Reply
<1>2. /\ plan # None /\ q \in Queries /\ ~p.refused
      /\ plan.day \in Days /\ today \in plan.day .. plan.day + 1 /\ today \in Days
      /\ plan.period = ExtractPeriod(q.text, plan.day)
      /\ Routed(q, p.tool, p.customer, p.dated, p.refused)
  BY <1>1 DEF RouterInv, PlanInv, RanInv
<1>3. PICK n \in plan.day .. today : ran.range = FirstReading(plan, q.text, n)
  BY <1>1 DEF RouterInv, RanInv
<1>4. PICK range : range = Reading(p.dated, ExtractPeriod(q.text, plan.day), q.text, n)
  OBVIOUS
<1>5. ran.range = range
  BY <1>2, <1>3, <1>4, FirstReadingIs
<1>6. /\ answer'.tool = p.tool /\ answer'.customer = p.customer /\ answer'.refused = FALSE
      /\ answer'.parameters = Reported(p, label)
      /\ answer'.stated = IF p.dated = "period" THEN label ELSE range
      /\ answer'.applied = IF p.dated = "sales" /\ label # NoRange THEN label ELSE range
      /\ answer'.asked = q /\ answer'.since = plan.day /\ answer'.until = today
  BY <1>1, <1>5
<1>7. Answers(p, answer.asked, answer.since, answer.until)'
  BY <1>4, <1>6 DEF Answers
<1>8. Routed(answer.asked, p.tool, p.customer, p.dated, p.refused)'
  BY <1>1, <1>2, <1>6 DEF Routed, ExtractCustomer
<1>9. AnswerInv'
  BY <1>2, <1>6, <1>7, <1>8 DEF AnswerInv
<1>10. RouterInv'
  BY <1>1 DEF RouterInv, PlanInv, RanInv
<1>. QED  BY <1>9, <1>10

LEMMA DayRouter ==
  ASSUME RouterInv, NextDay
  PROVE  RouterInv'
<1>1. /\ today + 1 \in Days /\ today' = today + 1 /\ listed' = listed /\ query' = query
      /\ plan' = plan /\ ran' = ran
      /\ plan # None => today = plan.day
  BY DEF NextDay
<1>2. today \in Nat
  BY RouterAssumption DEF RouterInv
<1>3. PlanInv'
  BY <1>1, <1>2 DEF RouterInv, PlanInv, Routed, ExtractCustomer
<1>4. RanInv'
  BY <1>1, <1>2 DEF RouterInv, RanInv, PlanInv
<1>. QED  BY <1>1, <1>3, <1>4 DEF RouterInv

\* An answer, and the catalogue it is measured by, stay until it goes out.
LEMMA AnswerStays ==
  ASSUME AnswerInv, answer' = answer \/ answer' = None, listed' = listed
  PROVE  AnswerInv'
BY DEF AnswerInv, Answers, Routed, ExtractCustomer

\* Both are inductive.
THEOREM RouterInvariant == Spec => [](RouterInv /\ AnswerInv)
<1>1. ASSUME RouterInv, AnswerInv, [Next]_routerVars
      PROVE  RouterInv' /\ AnswerInv'
  <2>1. ASSUME NEW q \in Queries, Ask(q)
        PROVE  RouterInv' /\ AnswerInv'
    BY <1>1, <2>1, AskRouter, AnswerStays DEF Ask
  <2>2. CASE Refuse
    BY <1>1, <2>2, RefuseRouter
  <2>3. CASE Run
    BY <1>1, <2>3, RunRouter, AnswerStays DEF Run
  <2>4. CASE Reply
    BY <1>1, <2>4, ReplyRouter
  <2>5. CASE Sent
    <3>1. RouterInv'
      BY <1>1, <2>5 DEF Sent, RouterInv, PlanInv, RanInv, Routed, ExtractCustomer
    <3>. QED  BY <1>1, <2>5, <3>1, AnswerStays DEF Sent
  <2>6. CASE NextDay
    BY <1>1, <2>6, DayRouter, AnswerStays DEF NextDay
  <2>7. CASE UNCHANGED routerVars
    <3>1. RouterInv'
      BY <1>1, <2>7 DEF routerVars, RouterInv, PlanInv, RanInv, Routed, ExtractCustomer
    <3>. QED  BY <1>1, <2>7, <3>1, AnswerStays DEF routerVars
  <2>. QED  BY <1>1, <2>1, <2>2, <2>3, <2>4, <2>5, <2>6, <2>7 DEF Next
<1>. QED  BY <1>1, InitRouter, PTL DEF Spec

-----------------------------------------------------------------------------
(***************************************************************************)
(* What is promised about the answers.                                     *)
(***************************************************************************)

\* LongestNameAnswers, for every catalogue and every set of nested names: the
\* question's names are all in the list, so the longest of them is found.
THEOREM LongestWins == Spec => []LongestNameAnswers
<1>1. ASSUME RouterInv, AnswerInv, answer # None, answer.customer # None
      PROVE  /\ answer.customer \in answer.asked.names
             /\ \A c \in answer.asked.names : NameLength[c] <= NameLength[answer.customer]
  <2>. PICK q : q = answer.asked
    OBVIOUS
  <2>1. listed \in Catalogues /\ listed \in Seq(Customers) /\ q \in Queries
    BY <1>1, RouterAssumption DEF RouterInv, AnswerInv
  <2>2. answer.customer = ExtractCustomer(q)
    BY <1>1 DEF AnswerInv, Answers, Routed
  <2>3. \A c \in q.names : \E i \in DOMAIN listed : c = listed[i]
    BY <2>1, QueriesAssumption
  <2>. QED  BY <1>1, <2>1, <2>2, <2>3, CustomerIs
<1>2. RouterInv /\ AnswerInv => LongestNameAnswers
  BY <1>1 DEF LongestNameAnswers
<1>. QED  BY <1>2, RouterInvariant, PTL

\* NeverBroadened: an answer about nobody in particular was not asked about
\* somebody.
THEOREM OneIsNeverAll == Spec => []NeverBroadened
<1>1. ASSUME RouterInv, AnswerInv, answer # None, ~answer.refused, answer.customer = None
      PROVE  /\ answer.tool \notin {"get_customer_balance", "get_customer_summary",
                                   "get_payment_history", "get_customer_statement",
                                   "get_customer_insights"}
             /\ answer.tool = "get_unpaid_invoices" =>
                  answer.asked.names = {} /\ answer.asked.target # "unknown"
  <2>. PICK q : q = answer.asked
    OBVIOUS
  <2>1. listed \in Catalogues /\ listed \in Seq(Customers) /\ q \in Queries
    BY <1>1, RouterAssumption DEF RouterInv, AnswerInv
  <2>2. PICK p : /\ Routed(q, p.tool, p.customer, p.dated, p.refused) /\ ~p.refused
                 /\ p.tool = answer.tool /\ p.customer = None
    BY <1>1 DEF AnswerInv, Answers
  <2>3. ExtractCustomer(q) = None => q.names = {}
    <3>1. \A c \in q.names : \E i \in DOMAIN listed : c = listed[i]
      BY <2>1, QueriesAssumption
    <3>. QED  BY <2>1, <3>1, CustomerIs, RouterAssumption
  <2>. QED  BY <2>2, <2>3 DEF Routed, PlainTools, SalesTools, CustomerTools
<1>2. RouterInv /\ AnswerInv => NeverBroadened
  BY <1>1 DEF NeverBroadened
<1>. QED  BY <1>2, RouterInvariant, PTL

\* ReportedCallIsReal: the registered tool binds what is reported, and its
\* schema describes it.
THEOREM ReportsAreCalls == Spec => []ReportedCallIsReal
<1>1. ASSUME AnswerInv, answer # None, ~answer.refused
      PROVE  Binds(answer.tool, answer.parameters) /\ answer.parameters \in SchemaCalls(answer.tool)
  <2>1. PICK p, label :
           /\ Routed(answer.asked, p.tool, p.customer, p.dated, p.refused) /\ ~p.refused
           /\ p.tool = answer.tool /\ answer.parameters = Reported(p, label)
    BY <1>1 DEF AnswerInv, Answers
  <2>. QED  BY <2>1, RouteIsReal
<1>2. AnswerInv => ReportedCallIsReal
  BY <1>1 DEF ReportedCallIsReal
<1>. QED  BY <1>2, RouterInvariant, PTL

-----------------------------------------------------------------------------
(***************************************************************************)
(* What an answer covers.                                                  *)
(***************************************************************************)

ParsedKinds == {Precedence[k] : k \in DOMAIN Precedence}

LEMMA PrecedenceIs ==
  ASSUME NEW k, k \in DOMAIN Precedence
  PROVE  \/ Precedence[k] \in {"iso range", "from month to month", "last n days",
                             "month year", "month"}
         \/ Precedence[k] \in RelativeKinds
<1>1. DOMAIN Precedence = 1..17
  BY DEF Precedence
<1>2. /\ Precedence[4] \in RelativeKinds /\ Precedence[5] \in RelativeKinds
      /\ Precedence[6] \in RelativeKinds /\ Precedence[7] \in RelativeKinds
      /\ Precedence[8] \in RelativeKinds /\ Precedence[9] \in RelativeKinds
      /\ Precedence[10] \in RelativeKinds /\ Precedence[11] \in RelativeKinds
      /\ Precedence[12] \in RelativeKinds /\ Precedence[13] \in RelativeKinds
      /\ Precedence[14] \in RelativeKinds /\ Precedence[15] \in RelativeKinds
  BY DEF Precedence, RelativeKinds
<1>. PICK others : others = {"iso range", "from month to month", "last n days",
                            "month year", "month"}
  OBVIOUS
<1>3. /\ Precedence[1] \in others /\ Precedence[2] \in others /\ Precedence[3] \in others
      /\ Precedence[16] \in others /\ Precedence[17] \in others
  BY DEF Precedence
<1>4. k \in 1..17
  BY <1>1
<1>5. Precedence[k] \in others \/ Precedence[k] \in RelativeKinds
  BY ONLY <1>2, <1>3, <1>4
<1>. QED  BY <1>5

\* A phrase that the parser knows is a range, on any day.
LEMMA PhrasesAreRanges ==
  ASSUME NEW p, NEW n, p.kind \in ParsedKinds
  PROVE  PhraseSpan(p, n) # NoRange
<1>1. \A a, b : Span(a, b) # NoRange
  BY DEF Span, NoRange
<1>2. /\ \A y, m : MonthSpan(y, m) # NoRange
      /\ \A y, m, k : MonthsSpan(y, m, k) # NoRange
      /\ \A y : YearSpan(y) # NoRange
      /\ \A d : WeekSpan(d) # NoRange
  BY <1>1 DEF MonthSpan, MonthsSpan, YearSpan, WeekSpan
<1>3. /\ \A y, m : LastMonthSpan(y, m) # NoRange
      /\ \A y, m : ThisQuarterSpan(y, m) # NoRange
      /\ \A y, m : LastQuarterSpan(y, m) # NoRange
  BY <1>2 DEF LastMonthSpan, ThisQuarterSpan, LastQuarterSpan
<1>4. ASSUME NEW kind \in RelativeKinds
      PROVE  RelativeSpan(kind, n) # NoRange
  BY <1>1, <1>2, <1>3 DEF RelativeSpan, RelativeKinds
<1>5. \/ p.kind \in {"iso range", "from month to month", "last n days", "month year", "month"}
      \/ p.kind \in RelativeKinds
  <2>1. PICK k \in DOMAIN Precedence : p.kind = Precedence[k]
    BY DEF ParsedKinds
  <2>. QED  BY <2>1, PrecedenceIs
<1>. QED  BY <1>1, <1>2, <1>4, <1>5 DEF PhraseSpan

\* Whether a text has a range does not depend on the day it is read.
LEMMA RangeOrNone ==
  ASSUME NEW text, NEW n
  PROVE  ParseDateRange(text, n) = NoRange <=> Deciding(text) = {}
<1>1. ASSUME Deciding(text) # {}
      PROVE  ParseDateRange(text, n) # NoRange
  <2>1. PICK p \in Deciding(text) : ParseDateRange(text, n) = PhraseSpan(p, n)
    BY <1>1 DEF ParseDateRange
  <2>2. p.kind \in ParsedKinds
    BY <2>1 DEF Deciding, ParsedKinds
  <2>. QED  BY <2>1, <2>2, PhrasesAreRanges
<1>2. Deciding(text) = {} => ParseDateRange(text, n) = NoRange
  BY DEF ParseDateRange
<1>. QED  BY <1>1, <1>2

\* The phrases of a question, as QueriesAssumption has them.
IsText(text) == \A i \in DOMAIN text : i \in Nat /\ IsPhrase(text[i])

LEMMA MonthsAreMonths ==
  ASSUME NEW text, IsText(text), NEW kinds,
         kinds \subseteq {"month", "month year", "from month to month", "month inside",
                          "arabic month"}
  PROVE  MonthsOf(text, kinds) \subseteq 1..12 /\ MonthsOf(text, kinds) \subseteq Nat
<1>. SUFFICES ASSUME NEW m, m \in MonthsOf(text, kinds)
              PROVE  m \in 1..12 /\ m \in Nat
  <2>. HIDE DEF MonthsOf
  <2>. QED  OBVIOUS
<1>1. PICK p, i : /\ i \in DOMAIN text /\ p = text[i]
                  /\ \/ p.kind \in kinds /\ m = p.month
                     \/ p.kind = "from month to month" /\ m = p.until
  BY DEF MonthsOf
<1>2. IsPhrase(p)
  BY <1>1 DEF IsText
<1>3. CASE p.kind \in kinds /\ m = p.month
  <2>1. p.kind \in {"month", "month year", "from month to month", "month inside",
                   "arabic month"}
    BY <1>3
  <2>2. p.month \in 1..12
    BY ONLY <1>2, <2>1 DEF IsPhrase
  <2>. QED  BY ONLY <1>3, <2>2
<1>4. CASE p.kind = "from month to month" /\ m = p.until
  <2>1. p.until \in 1..12
    BY ONLY <1>2, <1>4 DEF IsPhrase
  <2>2. m = p.until
    BY <1>4
  <2>. QED  BY ONLY <2>1, <2>2
<1>. QED  BY <1>1, <1>3, <1>4

\* A month is named by its number, ...
LEMMA MonthNamedIs ==
  ASSUME NEW text, IsText(text)
  PROVE  MonthNamed(text) = None \/ MonthNamed(text) \in 1..12
<1>1. EnglishMonths(text) \subseteq 1..12 /\ EnglishMonths(text) \subseteq Nat
  <2>. PICK kinds : kinds = {"month", "month year", "from month to month", "month inside"}
    OBVIOUS
  <2>1. MonthsOf(text, kinds) \subseteq 1..12 /\ MonthsOf(text, kinds) \subseteq Nat
    BY MonthsAreMonths
  <2>2. EnglishMonths(text) = MonthsOf(text, kinds)
    BY DEF EnglishMonths
  <2>. QED  BY <2>1, <2>2
<1>2. ArabicMonths(text) \subseteq 1..12 /\ ArabicMonths(text) \subseteq Nat
  <2>. PICK kinds : kinds = {"arabic month"}
    OBVIOUS
  <2>1. MonthsOf(text, kinds) \subseteq 1..12 /\ MonthsOf(text, kinds) \subseteq Nat
    BY MonthsAreMonths
  <2>2. ArabicMonths(text) = MonthsOf(text, kinds)
    BY DEF ArabicMonths
  <2>. QED  BY <2>1, <2>2
<1>3. EnglishMonths(text) # {} => Least(EnglishMonths(text)) \in 1..12
  BY <1>1, LeastIs
<1>4. ArabicMonths(text) # {} => Least(ArabicMonths(text)) \in 1..12
  BY <1>2, LeastIs
<1>. QED  BY <1>3, <1>4 DEF MonthNamed

\* ... and so is a year.
LEMMA YearNamedIs ==
  ASSUME NEW text, IsText(text)
  PROVE  YearNamed(text) = None \/ YearNamed(text) \in Nat \ {0}
<1>. SUFFICES ASSUME YearPhrases(text) # {}
              PROVE  YearNamed(text) \in Nat \ {0}
  BY DEF YearNamed
<1>1. YearPhrases(text) \subseteq Nat
  BY DEF YearPhrases, IsText
<1>2. Least(YearPhrases(text)) \in YearPhrases(text)
  BY <1>1, LeastIs
<1>. PICK p : p = text[Least(YearPhrases(text))]
  OBVIOUS
<1>3. IsPhrase(p) /\ p.kind \in {"month year", "year", "iso range"}
  BY <1>2 DEF YearPhrases, IsText
<1>4. YearNamed(text) = IF p.kind = "iso range" THEN YearOf(p.first) ELSE p.year
  BY DEF YearNamed
<1>5. CASE p.kind = "iso range"
  <2>1. p.first \in Nat \ {0}
    BY <1>3, <1>5 DEF IsPhrase
  <2>. QED  BY <1>4, <1>5, <2>1, YearIs
<1>6. CASE p.kind # "iso range"
  BY <1>3, <1>4, <1>6 DEF IsPhrase
<1>. QED  BY <1>5, <1>6

\* Last month's year is a year: no clock shows the year one.
LEMMA MonthBeforeIs ==
  ASSUME NEW n \in Days
  PROVE  /\ MonthBefore(YearOf(n), MonthOf(n))[1] \in Nat \ {0}
         /\ MonthBefore(YearOf(n), MonthOf(n))[2] \in 1..12
<1>. PICK y, m : y = YearOf(n) /\ m = MonthOf(n)
  OBVIOUS
<1>1. n \in Nat \ {0} /\ n > 365
  BY RouterAssumption
<1>2. y \in Nat \ {0} /\ m \in 1..12 /\ InYear(n, y)
  BY <1>1, YearIs, MonthIs
<1>3. y # 1
  <2>1. DaysBeforeYear(2) = 365
    BY DEF DaysBeforeYear
  <2>. QED  BY <1>1, <1>2, <2>1 DEF InYear
<1>4. CASE m > 1
  <2>1. MonthBefore(y, m) = <<y, m - 1>> /\ m - 1 \in 1..12
    BY <1>2, <1>4 DEF MonthBefore
  <2>. QED  BY <1>2, <2>1
<1>5. CASE m = 1
  <2>1. MonthBefore(y, m) = <<y - 1, 12>> /\ y - 1 \in Nat \ {0}
    BY <1>2, <1>3, <1>5 DEF MonthBefore
  <2>. QED  BY <2>1
<1>. QED  BY <1>2, <1>4, <1>5

LEMMA PeriodIs ==
  ASSUME NEW text, IsText(text), NEW n \in Days, NEW period, period = ExtractPeriod(text, n)
  PROVE  /\ period[1] = None \/ period[1] \in Nat \ {0}
         /\ period[2] = None \/ period[2] \in 1..12
<1>1. n \in Nat \ {0}
  BY RouterAssumption
<1>2. YearOf(n) \in Nat \ {0} /\ MonthOf(n) \in 1..12
  BY <1>1, YearIs, MonthIs
<1>3. period \in {<<YearOf(n), MonthOf(n)>>, MonthBefore(YearOf(n), MonthOf(n)),
                  <<YearNamed(text), MonthNamed(text)>>}
  BY DEF ExtractPeriod
<1>. QED  BY <1>2, <1>3, MonthBeforeIs, MonthNamedIs, YearNamedIs

\* Without a phrase, sales cover one month.
LEMMA SalesMonthIs ==
  ASSUME NEW text, IsText(text), NEW d \in Days, NEW n \in Days,
         NEW range, range = SalesMonth(ExtractPeriod(text, d), n)
  PROVE  range # NoRange /\ \E m \in 1..12 : range = MonthSpan(YearOf(range[1]), m)
<1>. PICK period : period = ExtractPeriod(text, d)
  OBVIOUS
<1>. PICK y, m : y = Default(period[1], YearOf(n)) /\ m = Default(period[2], MonthOf(n))
  OBVIOUS
<1>1. n \in Nat \ {0}
  BY RouterAssumption
<1>2. YearOf(n) \in Nat \ {0} /\ MonthOf(n) \in 1..12
  BY <1>1, YearIs, MonthIs
<1>3. /\ period[1] = None \/ period[1] \in Nat \ {0}
      /\ period[2] = None \/ period[2] \in 1..12
  BY PeriodIs
<1>4. y \in Nat \ {0} /\ m \in 1..12
  BY <1>2, <1>3 DEF Default
<1>5. range = MonthSpan(y, m)
  BY DEF SalesMonth
<1>6. MonthSpan(y, m) = <<First(y, m), Last(y, m)>>
  <2>1. y \in Int
    BY <1>4
  <2>. QED  BY <1>4, <2>1, MonthSpanIs
<1>7. YearOf(range[1]) = y
  BY <1>4, <1>5, <1>6, FirstOfMonth
<1>. QED  BY <1>4, <1>5, <1>6, <1>7 DEF NoRange

\* What an answer's range is, by the way its tool is dated.
LEMMA ScopeIs ==
  ASSUME AnswerInv, answer # None, ~answer.refused
  PROVE  \E p, n :
            /\ n \in answer.since .. answer.until
            /\ Routed(answer.asked, p.tool, p.customer, p.dated, p.refused) /\ p.tool = answer.tool
            /\ LET text == answer.asked.text
                   label == ParseDateRange(text, answer.until)
                   first == ParseDateRange(text, n)
                   sales == IF first # NoRange THEN first
                            ELSE SalesMonth(ExtractPeriod(text, answer.since), n)
               IN /\ p.dated = "no" => answer.stated = NoRange /\ answer.applied = NoRange
                  /\ p.dated = "period" => answer.stated = label /\ answer.applied = first
                  /\ p.dated = "sales" =>
                       /\ answer.stated = sales
                       /\ answer.applied = IF label # NoRange THEN label ELSE sales
<1>. PICK text, label : text = answer.asked.text /\ label = ParseDateRange(text, answer.until)
  OBVIOUS
<1>1. PICK p, n :
         /\ n \in answer.since .. answer.until
         /\ Routed(answer.asked, p.tool, p.customer, p.dated, p.refused) /\ p.tool = answer.tool
         /\ LET range == Reading(p.dated, ExtractPeriod(text, answer.since), text, n)
            IN /\ answer.stated = IF p.dated = "period" THEN label ELSE range
               /\ answer.applied = IF p.dated = "sales" /\ label # NoRange THEN label ELSE range
  BY DEF AnswerInv, Answers, PeriodLabel
<1>. PICK range : range = Reading(p.dated, ExtractPeriod(text, answer.since), text, n)
  OBVIOUS
<1>2. /\ p.dated = "no" => range = NoRange
      /\ p.dated = "period" => range = ParseDateRange(text, n)
      /\ p.dated = "sales" => range = SalesScope(text, ExtractPeriod(text, answer.since), n)
  BY DEF Reading
<1>3. SalesScope(text, ExtractPeriod(text, answer.since), n) =
         IF ParseDateRange(text, n) # NoRange THEN ParseDateRange(text, n)
         ELSE SalesMonth(ExtractPeriod(text, answer.since), n)
  BY DEF SalesScope, PeriodLabel
<1>. QED  BY <1>1, <1>2, <1>3

\* How the tools that ScopeIsParsed speaks of are dated.
LEMMA DatedIs ==
  ASSUME NEW q, NEW tool, NEW customer, NEW dated, NEW refused,
         Routed(q, tool, customer, dated, refused)
  PROVE  /\ tool \in DatedTools => dated = "period"
         /\ tool \in SalesTools => dated = "sales"
         /\ dated \in {"no", "period", "sales"}
BY DEF Routed, DatedTools, SalesTools, PlainTools, CustomerTools

LEMMA StatedOnOneDay ==
  ASSUME AnswerInv
  PROVE  StatedIsApplied
<1>. SUFFICES ASSUME answer # None, answer.since = answer.until
              PROVE  answer.stated = answer.applied
  BY DEF StatedIsApplied
<1>1. CASE answer.refused
  BY <1>1 DEF AnswerInv
<1>2. CASE ~answer.refused
  <2>. PICK text, label : text = answer.asked.text /\ label = ParseDateRange(text, answer.until)
    OBVIOUS
  <2>1. PICK p, n :
           /\ n \in answer.since .. answer.until
           /\ Routed(answer.asked, p.tool, p.customer, p.dated, p.refused)
           /\ LET first == ParseDateRange(text, n)
                  sales == IF first # NoRange THEN first
                           ELSE SalesMonth(ExtractPeriod(text, answer.since), n)
              IN /\ p.dated = "no" => answer.stated = NoRange /\ answer.applied = NoRange
                 /\ p.dated = "period" => answer.stated = label /\ answer.applied = first
                 /\ p.dated = "sales" =>
                      /\ answer.stated = sales
                      /\ answer.applied = IF label # NoRange THEN label ELSE sales
    BY <1>2, ScopeIs
  <2>2. answer.until \in Nat
    BY RouterAssumption DEF AnswerInv
  <2>3. n = answer.until
    BY <2>1, <2>2
  <2>4. p.dated \in {"no", "period", "sales"}
    BY <2>1, DatedIs
  <2>. QED  BY <2>1, <2>3, <2>4
<1>. QED  BY <1>1, <1>2

LEMMA ScopeCovers ==
  ASSUME AnswerInv
  PROVE  ScopeIsParsed
<1>. SUFFICES ASSUME answer # None, ~answer.refused
              PROVE  ScopeIsParsed
  BY DEF ScopeIsParsed
<1>. PICK text, label : text = answer.asked.text /\ label = ParseDateRange(text, answer.until)
  OBVIOUS
<1>. PICK parsed : parsed = {ParseDateRange(text, n) : n \in answer.since .. answer.until}
  OBVIOUS
<1>1. PICK p, n, sales :
         /\ n \in answer.since .. answer.until
         /\ Routed(answer.asked, p.tool, p.customer, p.dated, p.refused) /\ p.tool = answer.tool
         /\ sales = IF ParseDateRange(text, n) # NoRange THEN ParseDateRange(text, n)
                    ELSE SalesMonth(ExtractPeriod(text, answer.since), n)
         /\ p.dated = "period" => answer.applied = ParseDateRange(text, n)
         /\ p.dated = "sales" =>
              answer.applied = IF label # NoRange THEN label ELSE sales
  BY ScopeIs
<1>2. /\ answer.tool \in DatedTools => p.dated = "period"
      /\ answer.tool \in SalesTools => p.dated = "sales"
  BY <1>1, DatedIs
<1>3. /\ answer.since \in Nat /\ answer.until \in Nat
      /\ answer.until \in answer.since .. answer.since + 1
      /\ answer.since \in Days /\ answer.until \in Days /\ answer.asked \in Queries
  BY RouterAssumption DEF AnswerInv
<1>4. label \in parsed /\ ParseDateRange(text, n) \in parsed
  BY <1>1, <1>3
<1>5. ASSUME answer.tool \in SalesTools, NoRange \notin parsed
      PROVE  answer.applied \in parsed
  <2>1. label # NoRange
    BY <1>4, <1>5
  <2>. QED  BY <1>1, <1>2, <1>4, <1>5, <2>1
<1>6. ASSUME answer.tool \in SalesTools, NoRange \in parsed
      PROVE  /\ answer.applied # NoRange
             /\ \E m \in 1 .. 12 : answer.applied = MonthSpan(YearOf(answer.applied[1]), m)
  <2>1. Deciding(text) = {}
    BY <1>6, RangeOrNone
  <2>2. label = NoRange /\ ParseDateRange(text, n) = NoRange
    BY <2>1, RangeOrNone
  <2>3. answer.applied = SalesMonth(ExtractPeriod(text, answer.since), n)
    BY <1>1, <1>2, <1>6, <2>2
  <2>4. n \in Days
    BY <1>1, <1>3
  <2>5. IsText(text)
    BY <1>3, QueriesAssumption DEF IsText
  <2>. QED  BY <1>3, <2>3, <2>4, <2>5, SalesMonthIs
<1>. QED  BY <1>1, <1>2, <1>4, <1>5, <1>6 DEF ScopeIsParsed

\* ScopeIsHonest: what is stated is what was applied unless midnight fell in
\* between, and what was applied is what the question says, or one month.
THEOREM ScopesAreHonest == Spec => []ScopeIsHonest
<1>1. RouterInv /\ AnswerInv => ScopeIsHonest
  BY StatedOnOneDay, ScopeCovers DEF ScopeIsHonest
<1>. QED  BY <1>1, RouterInvariant, PTL
=============================================================================
