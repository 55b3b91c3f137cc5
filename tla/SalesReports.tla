---------------------------- MODULE SalesReports ----------------------------
(* src/tools/sales_tools.py, product_insights_tools.py, dashboard_tools.py, *)
(* customer_insights_tools.py, business_alerts_tools.py.                    *)
EXTENDS LedgerReports

(* _filter_sales. A scope is the range parsed from a period, a year and a     *)
(* month, 0 where they are not given. The year of a blank date does not parse: *)
(* int("") raises.                                                           *)
NoScope == [range |-> NoRange, year |-> 0, month |-> 0]
ByMonth(scope) == scope.range = NoRange /\ (scope.year # 0 \/ scope.month # 0)
Raises(sales, scope) == ByMonth(scope) /\ \E i \in DOMAIN sales : sales[i].date = 0
FilterSales(sales, scope) ==
  IF ByMonth(scope)
  THEN SelectSeq(sales, LAMBDA s : /\ scope.year \in {0, YearOf(s.date)}
                                   /\ scope.month \in {0, MonthOf(s.date)})
  ELSE FilterByDate(sales, scope.range, "date")

(* Revenue grouped by a field, highest first *)
Ranked(sales, field) ==
  LET group(k) == SelectSeq(sales, LAMBDA s : s[field] = k)
  IN Sorted(MapSeq(LAMBDA k : [key |-> k, revenue |-> Revenue(group(k)), orders |-> Len(group(k))],
                   Keys(sales, LAMBDA s : s[field])),
            LAMBDA g, h : g.revenue > h.revenue)
ByProduct(sales) == Ranked(sales, "product")
ByCustomer(sales) == Ranked(sales, "customer")

(* get_top_selling_products *)
TopProducts(sales, scope, limit) ==
  LET filtered == FilterSales(sales, scope)
      ranked == ByProduct(filtered)
  IN [products |-> Slice(ranked, NormalizeLimit(limit, 5)), product_count |-> Len(ranked),
      total_revenue |-> Revenue(filtered), total_transactions |-> Len(filtered)]

(* get_sales_summary: the five best of each *)
SalesSummary(sales, scope) ==
  LET filtered == FilterSales(sales, scope)
  IN [total_revenue |-> Revenue(filtered), total_transactions |-> Len(filtered),
      by_customer |-> Take(5, ByCustomer(filtered)), by_product |-> Take(5, ByProduct(filtered)),
      customer_count |-> Len(ByCustomer(filtered)), product_count |-> Len(ByProduct(filtered))]

(* Hundredths of a percent, rounded *)
Share(part, whole) == IF whole = 0 THEN 0 ELSE (20000 * part + whole) \div (2 * whole)

(* get_product_insights: the product of that name, else those that contain it; *)
(* the share is of the revenue of rows read again.                          *)
ProductInsights(exact, containing, sales, sales2) ==
  LET named == SelectSeq(sales, LAMBDA s : s.product = exact)
      selected == IF named # <<>> THEN named
                  ELSE SelectSeq(sales, LAMBDA s : s.product \in containing)
      dates == {selected[i].date : i \in DOMAIN selected}
  IN IF selected = <<>> THEN [mode |-> "no_match"]
     ELSE [mode |-> IF named # <<>> THEN "exact" ELSE "aggregated",
           revenue |-> Revenue(selected),
           units_sold |-> Total(selected, LAMBDA s : s.quantity),
           first_sale_date |-> Least(dates), last_sale_date |-> Greatest(dates),
           revenue_share |-> Share(Revenue(selected), SalesSummary(sales2, NoScope).total_revenue),
           top_customers |-> Take(5, ByCustomer(selected))]

(* get_dashboard_summary: four figures, each of rows read for it *)
DashboardSummary(sales, owed, late, unpaid, sales2) ==
  LET summary == SalesSummary(sales, NoScope)
      debtors == TopDebtors(owed, NoRange, 1)
      overdue == OverdueInvoices(NoRange, late)
  IN [total_revenue |-> summary.total_revenue,
      outstanding_receivables |-> debtors.total_outstanding,
      total_overdue |-> overdue.total_amount, overdue_invoice_count |-> overdue.count,
      open_invoice_count |-> UnpaidInvoices("", NoRange, unpaid).count,
      top_debtor |-> debtors.debtors, top_product |-> TopProducts(sales2, NoScope, 1).products]

(***************************************************************************)
(* Risk                                                                    *)
(***************************************************************************)

(* _assess_risk *)
AssessRisk(overdue, outstanding, days) ==
  IF overdue >= 200 \/ outstanding >= 300 \/ days > 60 THEN "High"
  ELSE IF overdue > 0 \/ outstanding > 50 \/ days > 30 THEN "Medium" ELSE "Low"

(* get_customer_insights; without a dated purchase the silence is 61 days. *)
CustomerInsights(name, customers, invoices, sales, day) ==
  LET balance == CustomerBalance(name, customers, invoices)
      own == Of(name, sales)
      last == IF own = <<>> THEN 0 ELSE Greatest({own[i].date : i \in DOMAIN own})
  IN [lifetime_revenue |-> Revenue(own), last_purchase_date |-> last,
      outstanding_balance |-> balance.total_balance,
      overdue_amount |-> balance.overdue_amount,
      risk_level |-> AssessRisk(balance.overdue_amount, balance.total_balance,
                                IF last = 0 THEN 61 ELSE day - last)]

(***************************************************************************)
(* Alerts                                                                  *)
(***************************************************************************)
RiskOrder(level) == CASE level = "Critical" -> 0 [] level = "High" -> 1
                      [] level = "Medium" -> 2 [] level = "Low" -> 3
(* A key is 300 for each riyal or percent of the sort key. *)
Alert(level, type, about, key) == [level |-> level, type |-> type, about |-> about, key |-> key]

(* _collection_alerts *)
CollectionAlerts(collections) ==
  MapSeq(LAMBDA p : Alert(p.priority, "Overdue Customer", p.customer, 1000 * p.score),
         SelectSeq(collections.priorities, LAMBDA p : p.priority \in {"Critical", "High"}))

(* _large_invoice_alerts *)
LargeInvoiceAlerts(unpaid, day) ==
  MapSeq(LAMBDA i : Alert(IF ~IsOverdue(i) THEN "Medium"
                          ELSE IF DaysOverdue(i.due_date, day) >= 30 THEN "Critical" ELSE "High",
                          "Large Invoice", i.id, 30000 * Outstanding(i)),
         SelectSeq(unpaid.invoices, LAMBDA i : Outstanding(i) >= 150))

(* _sales_activity_by_customer *)
Activity(sales) ==
  MapSeq(LAMBDA n : [customer |-> n, revenue |-> Revenue(Of(n, sales)),
                     last |-> Greatest({s.date : s \in ToSet(Of(n, sales))})],
         Keys(sales, LAMBDA s : s.customer))

(* _inactive_customer_alerts: the five of most revenue *)
InactiveAlerts(activity, day) ==
  LET silent == SelectSeq(activity, LAMBDA a : a.revenue > 0 /\ a.last # 0 /\ day - a.last > 30)
  IN MapSeq(LAMBDA a : Alert(IF day - a.last >= 60 THEN "High" ELSE "Medium",
                             "Inactive Customer", a.customer, 30000 * a.revenue),
            Take(5, Sorted(silent, LAMBDA a, b : a.revenue > b.revenue)))

(* _product_concentration_alerts *)
ConcentrationAlerts(summary, top) ==
  LET share(p) == Share(p.revenue, summary.total_revenue)
  IN IF summary.total_revenue = 0 THEN <<>>
     ELSE MapSeq(LAMBDA p : Alert(IF share(p) >= 3000 THEN "High" ELSE "Medium",
                                  "Product Concentration", p.key, 3 * share(p)),
                 SelectSeq(top.products, LAMBDA p : share(p) >= 1500))

(* _opportunity_alerts *)
OpportunityAlerts(summary, activity, day) ==
  LET best == summary.by_customer[1]
      act == SelectSeq(activity, LAMBDA a : a.customer = best.key)
  IN IF summary.by_customer = <<>> THEN <<>>
     ELSE IF act = <<>> THEN <<>>
     ELSE IF act[1].last = 0 \/ day - act[1].last > 7 THEN <<>>
     ELSE <<Alert("Low", "Opportunity", best.key, 30000 * best.revenue)>>

\* mutant: alerts are ranked by their size alone.
AlertBefore_bySize(a, b) == a.key > b.key

(* The order of get_business_alerts *)
AlertBefore(a, b) == \/ RiskOrder(a.level) < RiskOrder(b.level)
                     \/ a.level = b.level /\ a.key > b.key

(* get_business_alerts, each part of rows read for it *)
BusinessAlerts(sales, sales2, late, owed, unpaid, sales3, sales4, limit, day) ==
  LET activity == Activity(sales)
      all == Sorted(CollectionAlerts(CollectionPriorities(late, owed, 0, day))
                      \o LargeInvoiceAlerts(UnpaidInvoices("", NoRange, unpaid), day)
                      \o InactiveAlerts(activity, day)
                      \o ConcentrationAlerts(SalesSummary(sales3, NoScope),
                                             TopProducts(sales4, NoScope, 5))
                      \o OpportunityAlerts(SalesSummary(sales2, NoScope), activity, day),
                    AlertBefore)
  IN [alerts |-> Slice(all, NormalizeLimit(limit, 10)), total_alerts |-> Len(all)]
=============================================================================
