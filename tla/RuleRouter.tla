----------------------------- MODULE RuleRouter -----------------------------
(* src/agent/router.py: the deterministic router that answers when the     *)
(* language model does not. A query is what its keyword and entity tests    *)
(* find in it: the intents whose keywords occur ("write" for a write verb), *)
(* the known customers it names, whether the text without trigger phrases   *)
(* names a product, what follows "for", and its date phrases.               *)
(* An answer takes several readings of the clock, and midnight may fall     *)
(* between them.                                                            *)
EXTENDS DateRanges, ToolSchemas

CONSTANTS Queries,        \* the queries that may be asked
          Customers,      \* the names provider.get_customers() may list
          NameLength,     \* the length of each, normalised
          Catalogues,     \* the orders in which the backend may list them
          Days,           \* bound of the run: the days it may fall on
          None

ASSUME RouterAssumption ==
  /\ NameLength \in [Customers -> Nat \ {0}]
  /\ Catalogues \subseteq Seq(Customers)
  /\ Days \subseteq {n \in Nat : n > 365}        \* last year was a year
  /\ None \notin Customers /\ None \notin Queries

(* The numbers of a date phrase that the regular expressions let through. *)
IsPhrase(p) ==
  /\ p.kind \in {"month", "month year", "from month to month", "month inside", "arabic month"} =>
       p.month \in 1 .. 12
  /\ p.kind = "from month to month" => p.until \in 1 .. 12
  /\ p.kind \in {"month year", "year"} => p.year \in Nat \ {0}
  /\ p.kind = "iso range" => p.first \in Nat \ {0}

(* What a question is made of: phrases in a row, and customers of the list. *)
ASSUME QueriesAssumption ==
  \A q \in Queries :
    /\ \A i \in DOMAIN q.text : i \in Nat /\ IsPhrase(q.text[i])
    /\ \A names \in Catalogues : q.names \subseteq {names[i] : i \in DOMAIN names}

VARIABLES today,   \* date.today()
          listed,  \* the customers in the backend's order
          query,   \* the query being answered, or None
          plan,    \* the call that the router has decided on, or None
          ran,     \* what the tool was run on, or None
          answer   \* the reply, or None

routerVars == <<today, listed, query, plan, ran, answer>>

(***************************************************************************)
(* Entities                                                                *)
(***************************************************************************)

Least(S) == CHOOSE i \in S : \A j \in S : i <= j

\* mutant: the first name that occurs is taken.
ExtractCustomer_first(q) ==
  LET hits == {i \in DOMAIN listed : listed[i] \in q.names}
  IN IF hits = {} THEN None ELSE listed[Least(hits)]

(* _extract_customer: the first of the longest names that occur. *)
ExtractCustomer(q) ==
  LET hits == {i \in DOMAIN listed : listed[i] \in q.names}
      best == {i \in hits : \A j \in hits : \/ NameLength[listed[i]] > NameLength[listed[j]]
                                            \/ /\ NameLength[listed[i]] = NameLength[listed[j]]
                                               /\ i <= j}
  IN IF hits = {} THEN None ELSE listed[CHOOSE i \in best : TRUE]

(***************************************************************************)
(* Intent                                                                  *)
(***************************************************************************)
IntentOrder == <<"business_alerts", "collections", "overdue_invoices", "top_debtors",
                 "statement", "dashboard", "top_products", "sales_summary",
                 "payment_history", "product_insights", "customer_insights",
                 "customer_summary", "unpaid_invoices", "balance">>

DetectIntent(q) ==
  LET hit == {i \in DOMAIN IntentOrder : IntentOrder[i] \in q.words}
  IN IF "write" \in q.words \/ hit = {} THEN "unknown"
     ELSE IntentOrder[Least(hit)]

(* _resolve_analytic_ambiguity *)
Resolve(intent, q, customer) ==
  CASE intent = "product_insights" /\ customer # None /\ q.subject # "product"
         -> "customer_insights"
    [] intent = "customer_insights" /\ customer = None /\ q.subject = "product"
         -> "product_insights"
    [] OTHER -> intent

\* mutant: the guard is not consulted.
NamesUnmatchedCustomer_never(q) == FALSE

(* _names_unmatched_customer, on what follows "for". *)
NamesUnmatchedCustomer(q) == q.target = "unknown"

(***************************************************************************)
(* Dates                                                                   *)
(***************************************************************************)
Kinds(text) == {text[i].kind : i \in DOMAIN text}

(* _MONTH_MAP by substring: English names in calendar order, then Arabic    *)
(* ones. "inside" is a word that merely contains a month's name.            *)
MonthsOf(text, kinds) ==
  {text[i].month : i \in {j \in DOMAIN text : text[j].kind \in kinds}}
    \cup {text[i].until : i \in {j \in DOMAIN text :
                                   text[j].kind \in kinds \cap {"from month to month"}}}
EnglishMonths(text) ==
  MonthsOf(text, {"month", "month year", "from month to month", "month inside"})
ArabicMonths(text) == MonthsOf(text, {"arabic month"})

MonthNamed(text) ==
  IF EnglishMonths(text) # {} THEN Least(EnglishMonths(text))
  ELSE IF ArabicMonths(text) # {} THEN Least(ArabicMonths(text)) ELSE None

(* The first four digits that read as a year of this century. *)
YearPhrases(text) == {i \in DOMAIN text : text[i].kind \in {"month year", "year", "iso range"}}

YearNamed(text) ==
  LET p == text[Least(YearPhrases(text))]
  IN IF YearPhrases(text) = {} THEN None
     ELSE IF p.kind = "iso range" THEN YearOf(p.first) ELSE p.year

(* _extract_period: <<year, month>>, either of them None. *)
ExtractPeriod(text, n) ==
  IF Kinds(text) \cap {"this month", "arabic this month"} # {} THEN <<YearOf(n), MonthOf(n)>>
  ELSE IF Kinds(text) \cap {"last month", "arabic last month"} # {}
       THEN MonthBefore(YearOf(n), MonthOf(n))
  ELSE <<YearNamed(text), MonthNamed(text)>>

(* _dated_sales_route: the parsed phrase decides; without one the month and *)
(* year of _extract_period; what is missing is taken from the clock.        *)
Default(value, default) == IF value = None THEN default ELSE value

SalesMonth(period, n) == MonthSpan(Default(period[1], YearOf(n)), Default(period[2], MonthOf(n)))

\* mutant: a month that was extracted is used even where a phrase was parsed.
SalesScope_monthFirst(text, period, n) ==
  LET label == PeriodLabel(text, n)
  IN IF label # NoRange /\ period[2] = None THEN label ELSE SalesMonth(period, n)

SalesScope(text, period, n) ==
  LET label == PeriodLabel(text, n)
  IN IF label # NoRange THEN label ELSE SalesMonth(period, n)

(***************************************************************************)
(* Routing                                                                 *)
(***************************************************************************)
Plan(tool, customer, dated, refused) ==
  [tool |-> tool, customer |-> customer, dated |-> dated, refused |-> refused]

(* A tool that needs a customer is refused without one. *)
ForCustomer(tool, customer, dated) == Plan(tool, customer, dated, customer = None)
ForAll(tool, dated) == Plan(tool, None, dated, FALSE)

RuleBasedRoute(q) ==
  LET customer == ExtractCustomer(q)
      intent == Resolve(DetectIntent(q), q, customer)
  IN CASE intent = "business_alerts" -> ForAll("get_business_alerts", "no")
       [] intent = "collections" -> ForAll("get_collection_priorities", "no")
       [] intent = "top_debtors" -> ForAll("get_top_debtors", "period")
       [] intent = "statement" -> ForCustomer("get_customer_statement", customer, "period")
       [] intent = "dashboard" -> ForAll("get_dashboard_summary", "no")
       [] intent = "overdue_invoices" -> ForAll("get_overdue_invoices", "period")
       [] intent = "top_products" -> ForAll("get_top_selling_products", "sales")
       [] intent = "sales_summary" -> ForAll("get_sales_summary", "sales")
       [] intent = "payment_history" -> ForCustomer("get_payment_history", customer, "no")
       [] intent = "product_insights"
            -> Plan("get_product_insights", None, "no", q.subject = "nothing")
       [] intent = "customer_insights" -> ForCustomer("get_customer_insights", customer, "no")
       [] intent = "customer_summary" -> ForCustomer("get_customer_summary", customer, "no")
       [] intent = "unpaid_invoices"
            -> Plan("get_unpaid_invoices", customer, "period",
                    customer = None /\ NamesUnmatchedCustomer(q))
       [] intent = "balance" -> ForCustomer("get_customer_balance", customer, "no")
       [] intent = "unknown" -> Plan("unknown", None, "no", TRUE)

(* The names of the parameters that the reply reports; unpaid invoices       *)
(* always report their customer, even None.                                 *)
DateParameters(p, label) ==
  IF p.dated # "no" /\ label # NoRange THEN {"period"}
  ELSE IF p.dated = "sales" THEN {"month", "year"} ELSE {}

NamesCustomer(p) == p.customer # None \/ p.tool = "get_unpaid_invoices"

\* mutant: a product is reported under the name that the customer tools use.
Reported_wrongName(p, label) ==
  DateParameters(p, label)
    \cup (IF NamesCustomer(p) \/ p.tool = "get_product_insights" THEN {"customer_name"} ELSE {})

Reported(p, label) ==
  DateParameters(p, label)
    \cup (IF NamesCustomer(p) THEN {"customer_name"} ELSE {})
    \cup (IF p.tool = "get_product_insights" THEN {"product_name"} ELSE {})

(***************************************************************************)
(* Answering                                                               *)
(***************************************************************************)
Init ==
  /\ today \in Days
  /\ listed \in Catalogues
  /\ query = None /\ plan = None /\ ran = None /\ answer = None

(* A query arrives and _rule_based_route decides. *)
Ask(q) ==
  /\ query = None /\ answer = None
  /\ query' = q
  /\ plan' = [route |-> RuleBasedRoute(q), period |-> ExtractPeriod(q.text, today), day |-> today]
  /\ UNCHANGED <<today, listed, ran, answer>>

(* A refusal needs no tool. *)
Refuse ==
  /\ plan # None /\ plan.route.refused
  /\ answer' = [tool |-> plan.route.tool, refused |-> TRUE, customer |-> None, parameters |-> {},
                stated |-> NoRange, applied |-> NoRange,
                asked |-> query, since |-> plan.day, until |-> today]
  /\ query' = None /\ plan' = None
  /\ UNCHANGED <<today, listed, ran>>

(* The first reading of the clock. A tool that is given the query as its    *)
(* period parses it now; _dated_sales_route makes its label, or settles     *)
(* month and year, before it calls the tool.                                *)
FirstReading(p, text, n) ==
  CASE p.route.dated = "no" -> NoRange
    [] p.route.dated = "period" -> ParseDateRange(text, n)
    [] p.route.dated = "sales" -> SalesScope(text, p.period, n)

Run ==
  /\ plan # None /\ ~plan.route.refused /\ ran = None
  /\ ran' = [range |-> FirstReading(plan, query.text, today)]
  /\ UNCHANGED <<today, listed, query, plan, answer>>

(* The second: the label that the reply states, or the phrase parsed again  *)
(* by the sales tool's filter; a month and year are passed as they are.     *)
Reply ==
  /\ ran # None
  /\ LET label == PeriodLabel(query.text, today)
         p == plan.route
     IN answer' = [tool |-> p.tool, refused |-> FALSE, customer |-> p.customer,
                   parameters |-> Reported(p, label),
                   stated |-> IF p.dated = "period" THEN label ELSE ran.range,
                   applied |-> IF p.dated = "sales" /\ label # NoRange THEN label
                               ELSE ran.range,
                   asked |-> query, since |-> plan.day, until |-> today]
  /\ query' = None /\ plan' = None /\ ran' = None
  /\ UNCHANGED <<today, listed>>

(* The reply goes out. *)
Sent ==
  /\ answer # None /\ answer' = None
  /\ UNCHANGED <<today, listed, query, plan, ran>>

(* Midnight: at most once while a question is answered. *)
NextDay ==
  /\ today + 1 \in Days
  /\ answer = None /\ (plan # None => today = plan.day)
  /\ today' = today + 1
  /\ UNCHANGED <<listed, query, plan, ran, answer>>

Next ==
  \/ \E q \in Queries : Ask(q)
  \/ Refuse
  \/ Run
  \/ Reply
  \/ Sent
  \/ NextDay

Spec == Init /\ [][Next]_routerVars

(***************************************************************************)
(* Properties of the calendar, at every day the clock passes               *)
(***************************************************************************)
Periods == {"week", "month", "quarter", "year"}
This(unit) == RelativeSpan(CASE unit = "week" -> "this week" [] unit = "month" -> "this month"
                             [] unit = "quarter" -> "this quarter" [] unit = "year" -> "this year",
                           today)
Past(unit) == RelativeSpan(CASE unit = "week" -> "last week" [] unit = "month" -> "last month"
                             [] unit = "quarter" -> "last quarter" [] unit = "year" -> "last year",
                           today)

(* The current week, month, quarter and year contain today, and the last one *)
(* ends on the eve of the current one: no day falls between them or counts  *)
(* twice, across year ends and leap days (parse_date_range).                *)
PeriodsAdjoin ==
  \A unit \in Periods : /\ InRange(today, This(unit))
                        /\ Past(unit)[1] <= Past(unit)[2]
                        /\ Past(unit)[2] + 1 = This(unit)[1]

(* The twelve months named without a year are the current year: every day of *)
(* it is in exactly one of them, and every quarter is three of them.        *)
MonthsPartitionYear ==
  LET y == YearOf(today)
      Named(m) == ParseDateRange(<<[kind |-> "month", month |-> m]>>, today)
  IN /\ Named(1)[1] = This("year")[1] /\ Named(12)[2] = This("year")[2]
     /\ \A m \in 1 .. 11 : Named(m + 1)[1] = Named(m)[2] + 1
     /\ \E m \in 1 .. 10 : This("quarter") = Span(Named(m)[1], Named(m + 2)[2])

(* Both: the relative ranges and the months tile the days (parse_date_range). *)
PeriodsTile == PeriodsAdjoin /\ MonthsPartitionYear

(***************************************************************************)
(* Properties of the answers                                               *)
(***************************************************************************)

(* The range that a reply states is the one its rows were filtered by, unless *)
(* midnight passed while it was made (_period_params, _dated_sales_route).   *)
StatedIsApplied ==
  answer # None /\ answer.since = answer.until => answer.stated = answer.applied

(* A dated answer covers what the parser makes of the whole question on a     *)
(* day between question and reply; sales without a phrase cover one month,   *)
(* and never all time.                                                       *)
DatedTools == {"get_top_debtors", "get_customer_statement", "get_overdue_invoices",
               "get_unpaid_invoices"}
SalesTools == {"get_top_selling_products", "get_sales_summary"}
ScopeIsParsed ==
  answer # None /\ ~answer.refused =>
    LET text == answer.asked.text
        parsed == {ParseDateRange(text, n) : n \in answer.since .. answer.until}
    IN /\ answer.tool \in DatedTools => answer.applied \in parsed
       /\ answer.tool \in SalesTools /\ NoRange \notin parsed => answer.applied \in parsed
       /\ answer.tool \in SalesTools /\ NoRange \in parsed =>
            /\ answer.applied # NoRange
            /\ \E m \in 1 .. 12 : answer.applied = MonthSpan(YearOf(answer.applied[1]), m)

(* Both: an answer covers what was asked, and says so (_dated_sales_route).   *)
ScopeIsHonest == StatedIsApplied /\ ScopeIsParsed

(* Where several known names occur in a question, the answer is about one     *)
(* that no longer name contains, in whatever order the backend lists them    *)
(* (_extract_customer).                                                      *)
LongestNameAnswers ==
  answer # None /\ answer.customer # None =>
    /\ answer.customer \in answer.asked.names
    /\ \A c \in answer.asked.names : NameLength[c] <= NameLength[answer.customer]

(* A question about one customer is never answered with everybody's account:  *)
(* either that customer's, or a refusal (router.py:13-16).                   *)
NeverBroadened ==
  answer # None /\ ~answer.refused /\ answer.customer = None =>
    /\ answer.tool \notin {"get_customer_balance", "get_customer_summary", "get_payment_history",
                          "get_customer_statement", "get_customer_insights"}
    /\ answer.tool = "get_unpaid_invoices" =>
         answer.asked.names = {} /\ answer.asked.target # "unknown"

(* What a reply reports is a call that the registered tool would take and the *)
(* schema describes: a client may show it or repeat it.                      *)
ReportedCallIsReal ==
  answer # None /\ ~answer.refused =>
    /\ Binds(answer.tool, answer.parameters)
    /\ answer.parameters \in SchemaCalls(answer.tool)

(* The router's state: a question is being answered or not, and an answer     *)
(* names a tool that exists and a customer of the catalogue                  *)
(* (_rule_based_route's replies).                                            *)
RouterTypeOK ==
  /\ today \in Days
  /\ listed \in Catalogues
  /\ query \in Queries \cup {None}
  /\ plan = None <=> query = None
  /\ ran # None => plan # None
  /\ answer # None => /\ answer.tool \in DOMAIN TOOL_REGISTRY \cup {"unknown"}
                      /\ answer.customer \in Customers \cup {None}
                      /\ answer.refused \in BOOLEAN
=============================================================================
