--------------------------- MODULE MCLiveReports ---------------------------
(* An instance of LiveReports for TLC. Money in hundreds of riyals.        *)
EXTENDS LiveReports, TLC

MCStart == Day(2028, 1, 31)
MCCustomers == <<[id |-> 1, name |-> "A", credit_limit |-> 100],
                 [id |-> 2, name |-> "B", credit_limit |-> 0]>>
MCProducts == <<[id |-> 1, name |-> "oil"], [id |-> 2, name |-> "rice"]>>

Invoice(id, name, total, residual, issue, due, state) ==
  [id |-> id, customer |-> name, total |-> total, residual |-> residual,
   issue |-> MCStart - issue, due |-> IF due = None THEN 0 ELSE MCStart - due, state |-> state]
Payment(id, name, amount, age) ==
  [id |-> id, customer |-> name, amount |-> amount, date |-> MCStart - age]
Order(id, name, age) == [id |-> id, customer |-> name, date |-> MCStart - age]
Line(id, order, product, total) ==
  [id |-> id, order |-> order, product |-> product, quantity |-> 2, total |-> total]
Adrift(a, b, z) == "A" :> a @@ "B" :> b @@ "Z" :> z
Nothing == [advance |-> 0, credit |-> 0]

(* A small old debt beside a large young one, a part payment on the day of   *)
(* its invoice, and a partner without a customer rank who owes as well.       *)
Busy == [books |-> [invoices |-> <<Invoice(3, "Z", 60, 60, 1, None, "not_paid"),
                                   Invoice(2, "B", 250, 210, 10, 0, "partial"),
                                   Invoice(1, "A", 60, 60, 40, 30, "not_paid")>>,
                    payments |-> <<Payment(1, "B", 40, 10)>>,
                    lines |-> <<Line(1, 1, "oil", 40), Line(2, 2, "rice", 20)>>,
                    orders |-> <<Order(1, "A", 2), Order(2, "B", 61)>>],
         adrift |-> Adrift(Nothing, Nothing, Nothing)]

(* Settled accounts: paid, credited, paid in advance. *)
Calm == [books |-> [invoices |-> <<Invoice(2, "A", 60, 0, 20, 5, "paid"),
                                   Invoice(1, "A", 160, 0, 40, 10, "reversed")>>,
                    payments |-> <<Payment(2, "A", 30, 1), Payment(1, "A", 60, 20)>>,
                    lines |-> <<Line(1, 1, "oil", 40)>>,
                    orders |-> <<Order(1, "A", 45)>>],
         adrift |-> Adrift([advance |-> 30, credit |-> 160], Nothing, Nothing)]

(* Equal debts of different ages. *)
Late == [books |-> [invoices |-> <<Invoice(2, "B", 60, 60, 30, 5, "not_paid"),
                                   Invoice(1, "A", 60, 60, 40, 20, "not_paid")>>,
                    payments |-> <<>>, lines |-> <<>>, orders |-> <<>>],
         adrift |-> Adrift(Nothing, Nothing, Nothing)]

MCLedgers == {Busy, Calm, Late}

Request(kind, name, limit, scope) ==
  [kind |-> kind, name |-> name, limit |-> limit, scope |-> scope]
LastMonth == [AllTime EXCEPT !.text = <<[kind |-> "last month"]>>]
January == [AllTime EXCEPT !.year = 2028, !.month = 1]

MCRequests ==
  {Request(kind, "A", 0, AllTime) : kind \in {"balance", "summary", "payment_history",
                                              "customer_insights", "statement"}}
  \cup {Request("statement", "B", 0, AllTime), Request("statement", "A", 0, LastMonth),
        Request("customer_insights", "B", 0, AllTime), Request("balance", "Z", 0, AllTime),
        Request("unpaid", "A", 0, AllTime), Request("unpaid", "", 0, LastMonth),
        Request("overdue", "", 0, AllTime), Request("product_insights", "oil", 0, AllTime),
        Request("sales_summary", "", 0, January), Request("sales_summary", "", 0, LastMonth),
        Request("top_products", "", 1, January), Request("dashboard", "", 0, AllTime)}
  \cup {Request(kind, "", limit, AllTime) :
          kind \in {"top_debtors", "collections", "alerts"}, limit \in {-1, 1}}
=============================================================================
