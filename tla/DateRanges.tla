----------------------------- MODULE DateRanges -----------------------------
(* src/utils/date_filters.py: which days a question is about.             *)
(* A day is its proleptic ordinal, as in Python, and ISO strings compare as *)
(* the days they denote. A text is the sequence of the date phrases that    *)
(* the regular expressions and substring tests of parse_date_range find in  *)
(* it, in the order they occur; other words do not matter to the parser. A  *)
(* phrase is a record: its kind and the numbers it carries.                 *)
EXTENDS Integers, Sequences, FiniteSets

(* The calendar of Python's date and calendar.monthrange. *)
IsLeap(y) == y % 4 = 0 /\ (y % 100 # 0 \/ y % 400 = 0)

MonthLength(y, m) == IF m = 2 THEN (IF IsLeap(y) THEN 29 ELSE 28)
                     ELSE IF m \in {4, 6, 9, 11} THEN 30 ELSE 31
DaysBeforeMonth(y, m) == <<0, 31, 59, 90, 120, 151, 181, 212, 243, 273, 304, 334>>[m]
                           + (IF m > 2 /\ IsLeap(y) THEN 1 ELSE 0)
DaysBeforeYear(y) == LET p == y - 1 IN 365 * p + p \div 4 - p \div 100 + p \div 400
Day(y, m, d) == DaysBeforeYear(y) + DaysBeforeMonth(y, m) + d

YearOf(n) == CHOOSE y \in (n - 1) \div 366 + 1 .. (n - 1) \div 365 + 1 :
               DaysBeforeYear(y) < n /\ n <= DaysBeforeYear(y + 1)
MonthOf(n) == LET y == YearOf(n)
              IN CHOOSE m \in 1 .. 12 :
                   Day(y, m, 1) <= n /\ n < Day(y, m, 1) + MonthLength(y, m)
Weekday(n) == (n - 1) % 7

(***************************************************************************)
(* Ranges                                                                  *)
(***************************************************************************)
NoRange == <<>>
Span(first, last) == <<first, last>>

MonthSpan(y, m) == Span(Day(y, m, 1), Day(y, m, MonthLength(y, m)))
MonthsSpan(y, m1, m2) == Span(MonthSpan(y, m1)[1], MonthSpan(y, m2)[2])
YearSpan(y) == Span(Day(y, 1, 1), Day(y, 12, 31))
WeekSpan(n) == LET monday == n - Weekday(n) IN Span(monday, monday + 6)

MonthBefore(y, m) == IF m > 1 THEN <<y, m - 1>> ELSE <<y - 1, 12>>

\* mutant: the month number wraps but the year does not.
LastMonthSpan_sameYear(y, m) == MonthSpan(y, MonthBefore(y, m)[2])

LastMonthSpan(y, m) == LET b == MonthBefore(y, m) IN MonthSpan(b[1], b[2])

QuarterStart(m) == ((m - 1) \div 3) * 3 + 1
ThisQuarterSpan(y, m) == MonthsSpan(y, QuarterStart(m), QuarterStart(m) + 2)

LastQuarterSpan(y, m) ==
  LET s == QuarterStart(m) - 3
  IN IF s <= 0 THEN MonthsSpan(y - 1, s + 12, s + 14) ELSE MonthsSpan(y, s, s + 2)

(* The words with a range of their own, relative to today. *)
RelativeKinds == {"today", "yesterday", "this week", "last week", "month to date",
                  "year to date", "this month", "last month", "this quarter",
                  "last quarter", "this year", "last year"}
RelativeSpan(kind, n) ==
  LET y == YearOf(n)  m == MonthOf(n)
  IN CASE kind = "today" -> Span(n, n)
       [] kind = "yesterday" -> Span(n - 1, n - 1)
       [] kind = "this week" -> WeekSpan(n)
       [] kind = "last week" -> WeekSpan(n - 7)
       [] kind = "month to date" -> Span(Day(y, m, 1), n)
       [] kind = "year to date" -> Span(Day(y, 1, 1), n)
       [] kind = "this month" -> MonthSpan(y, m)
       [] kind = "last month" -> LastMonthSpan(y, m)
       [] kind = "this quarter" -> ThisQuarterSpan(y, m)
       [] kind = "last quarter" -> LastQuarterSpan(y, m)
       [] kind = "this year" -> YearSpan(y)
       [] kind = "last year" -> YearSpan(y - 1)

(* The order in which parse_date_range looks for them. *)
Precedence == <<"iso range", "from month to month", "last n days", "today", "yesterday",
                "this week", "last week", "month to date", "year to date",
                "this month", "last month", "this quarter", "last quarter",
                "this year", "last year", "month year", "month">>
Rank(kind) == CHOOSE i \in DOMAIN Precedence : Precedence[i] = kind

(* The phrase that decides: the first occurrence of the first kind that the *)
(* text has, except that bare months are tried in the order of the calendar. *)
Deciding(text) ==
  LET parsed == {i \in DOMAIN text : text[i].kind \in {Precedence[k] : k \in DOMAIN Precedence}}
      before(i, j) == \/ Rank(text[i].kind) < Rank(text[j].kind)
                      \/ /\ text[i].kind = text[j].kind
                         /\ IF text[i].kind = "month"
                            THEN \/ text[i].month < text[j].month
                                 \/ text[i].month = text[j].month /\ i < j
                            ELSE i < j
  IN {text[i] : i \in {k \in parsed : \A j \in parsed \ {k} : before(k, j)}}

PhraseSpan(p, n) ==
  CASE p.kind = "iso range" -> Span(p.first, p.last)
    [] p.kind = "from month to month" -> MonthsSpan(YearOf(n), p.month, p.until)
    [] p.kind = "last n days" -> Span(n - p.days, n)
    [] p.kind = "month year" -> MonthSpan(p.year, p.month)
    [] p.kind = "month" -> MonthSpan(YearOf(n), p.month)
    [] p.kind \in RelativeKinds -> RelativeSpan(p.kind, n)

ParseDateRange(text, n) ==
  LET found == Deciding(text)
  IN IF found = {} THEN NoRange ELSE PhraseSpan(CHOOSE p \in found : TRUE, n)

(* period_label: the range in words, or nothing when none was parsed. *)
PeriodLabel(text, n) == ParseDateRange(text, n)

(* filter_by_date, with the range that was parsed: no range filters nothing; *)
(* a record without a date (0) is in no range.                              *)
InRange(day, range) == day # 0 /\ range[1] <= day /\ day <= range[2]
FilterByDate(rows, range, field) ==
  IF range = NoRange THEN rows ELSE SelectSeq(rows, LAMBDA r : InRange(r[field], range))
=============================================================================
