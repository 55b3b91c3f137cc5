--------------------------- MODULE MCRuleRouter ----------------------------
(* An instance of RuleRouter for TLC: the days around which ranges turn.   *)
EXTENDS RuleRouter

MCNameLength == [c \in Customers |-> CASE c = "STAR" -> 4 [] c = "GOLDEN STAR" -> 11]
MCCatalogues == {<<"STAR", "GOLDEN STAR">>, <<"GOLDEN STAR", "STAR">>}

\* The ends of a week, a month, a quarter, a year and a leap day.
MCDays == Day(2027, 12, 30) .. Day(2028, 1, 4)
            \cup Day(2028, 2, 27) .. Day(2028, 3, 1)
            \cup {Day(2028, 3, 31), Day(2028, 4, 1), Day(2028, 10, 1)}

Query(words, names, subject, target, text) ==
  [words |-> words, names |-> names, subject |-> subject, target |-> target, text |-> text]
Says(kind) == [kind |-> kind]
Month(m) == [kind |-> "month", month |-> m]
MonthYear(m, y) == [kind |-> "month year", month |-> m, year |-> y]

(* Texts with the phrases that compete with one another. *)
Texts == {<<>>,
          <<Says("this month")>>, <<Says("last quarter")>>, <<Says("yesterday")>>,
          <<[kind |-> "last n days", days |-> 30], Month(3)>>,
          <<[kind |-> "from month to month", month |-> 11, until |-> 2]>>,
          <<MonthYear(6, 2027), MonthYear(8, 2027)>>,
          <<Month(6), [kind |-> "year", year |-> 2027]>>,
          <<[kind |-> "year", year |-> 2027]>>,
          <<[kind |-> "month inside", month |-> 5]>>,
          <<[kind |-> "arabic month", month |-> 6], [kind |-> "year", year |-> 2027]>>,
          <<Says("arabic last month")>>,
          <<[kind |-> "iso range", first |-> Day(2027, 2, 1), last |-> Day(2027, 2, 28)],
            Says("today")>>}

Dated == {Query({w}, {}, "else", "none", t) :
            w \in {"top_debtors", "overdue_invoices", "sales_summary"}, t \in Texts}
         \cup {Query({"statement"}, {"STAR"}, "else", "none", t) : t \in {<<>>, <<Says("last month")>>}}

(* Every intent, with no, one or both of two nested names. *)
Named == {Query({w}, names, "else", "none", <<>>) :
            w \in {IntentOrder[i] : i \in DOMAIN IntentOrder},
            names \in {{}, {"STAR"}, {"STAR", "GOLDEN STAR"}}}

Analytic == {Query(words, names, subject, "none", <<>>) :
               words \in {{"product_insights"}, {"customer_insights"},
                          {"product_insights", "customer_insights"}},
               names \in {{}, {"STAR"}}, subject \in {"nothing", "product", "else"}}

Unpaid == {Query({"unpaid_invoices"} \cup more, names, "else", target, t) :
             more \in {{}, {"write"}, {"balance"}}, names \in {{}, {"STAR"}},
             target \in {"none", "unknown", "all", "product"}, t \in {<<>>, <<Month(1)>>}}

MCQueries == Dated \cup Named \cup Analytic \cup Unpaid \cup {Query({}, {}, "else", "none", <<>>)}
=============================================================================
