----------------------------- MODULE LiveReports -----------------------------
(* A report of the tools over a live Odoo. Every table is read page by page  *)
(* with an offset (provider._search_read_all), a report reads several tables *)
(* and some of them twice, and the books change meanwhile.                   *)
EXTENDS SalesReports, ListFilters

CONSTANTS Customers,  \* the partners with a customer rank, a sequence of records
          Products,   \* the products, a sequence of names
          Requests,   \* the reports asked for
          Ledgers,    \* the books at the start
          Start,      \* the first day
          PAGE_SIZE, TABLE_MAX_ROWS,
          NewBill, NewTerm, NewSale, \* total and term of an invoice, total of a sale
          MaxChanges, MaxFaults,     \* bounds of the run
          None

Ids(rows) == {rows[i].id : i \in DOMAIN rows}

(* A table of Odoo: no two records have the same id. *)
IsTable(rows) ==
  /\ rows \in Seq(ToSet(rows)) /\ Ids(rows) \subseteq Nat
  /\ \A i \in DOMAIN rows : "id" \in DOMAIN rows[i]
  /\ \A i, j \in DOMAIN rows : rows[i].id = rows[j].id => i = j

Kinds == {"balance", "summary", "statement", "payment_history", "top_debtors", "overdue", "unpaid",
          "collections", "sales_summary", "top_products", "product_insights", "customer_insights",
          "dashboard", "alerts"}

ASSUME LiveAssumption ==
  /\ {Start, PAGE_SIZE, TABLE_MAX_ROWS, MaxChanges, MaxFaults} \subseteq Nat
  /\ PAGE_SIZE > 0 /\ TABLE_MAX_ROWS > 0
  /\ IsTable(Customers) /\ IsTable(Products)
  /\ \A l \in Ledgers : \A entity \in {"invoices", "payments", "lines", "orders"} :
        entity \in DOMAIN l.books /\ IsTable(l.books[entity])
  /\ \A r \in Requests : r.kind \in Kinds

VARIABLES books,    \* the tables of Odoo
          adrift,   \* per partner: advances and credits that match no invoice
          today, changes, faults,
          job,      \* the report being made, or None
          shown     \* the report that was made, or None

liveVars == <<books, adrift, today, changes, faults, job, shown>>

(***************************************************************************)
(* Odoo                                                                    *)
(***************************************************************************)
Table(entity) == CASE entity = "customers" -> Customers
                   [] entity = "products" -> Products
                   [] entity = "orders" -> Without(books.orders,
                                             {o \in ToSet(books.orders) :
                                                o.id \notin OrderIds(job.got[Len(job.got)])})
                   [] OTHER -> books[entity]

(* A change reaches a report that is being made: what it reads next moves.   *)
(* The records that come and go are pairs of a table and an id.              *)
OfTable(pairs) == {p[2] : p \in {q \in pairs : job.todo # <<>> /\ q[1] = job.todo[1]}}

Changing(come, gone) ==
  /\ changes < MaxChanges /\ shown = None
  /\ changes' = changes + 1
  /\ job' = IF job = None THEN None
            ELSE [job EXCEPT !.moved = TRUE, !.grew = @ \cup OfTable(come),
                             !.shrank = @ \cup OfTable(gone)]
  /\ UNCHANGED <<faults, shown>>

Fresh(rows) == 1 + Greatest({0} \cup Ids(rows))
Inserted(rows, r, first) == IF first THEN <<r>> \o rows ELSE Append(rows, r)

(* An invoice is posted; where it sorts is up to its number and date. *)
Post(name, first) ==
  LET m == [id |-> Fresh(books.invoices), customer |-> name, total |-> NewBill, residual |-> NewBill,
            issue |-> today, due |-> today + NewTerm, state |-> "not_paid"]
  IN /\ Changing({<<"invoices", m.id>>}, {})
     /\ books' = [books EXCEPT !.invoices = Inserted(@, m, first)]
     /\ UNCHANGED <<adrift, today>>

Received(name, amount) ==
  Inserted(books.payments, [id |-> Fresh(books.payments), customer |-> name, amount |-> amount,
                            date |-> today], TRUE)

(* A payment of an invoice, in part or in full. *)
Settle(i, amount) ==
  LET m == books.invoices[i]
  IN /\ amount \in 1 .. m.residual
     /\ Changing({<<"payments", Fresh(books.payments)>>}, {})
     /\ \E state \in IF amount < m.residual THEN {"partial"} ELSE {"in_payment", "paid"} :
          books' = [books EXCEPT !.payments = Received(m.customer, amount),
                                 !.invoices[i].residual = @ - amount,
                                 !.invoices[i].state = state]
     /\ UNCHANGED <<adrift, today>>

(* A payment of no invoice. *)
Advance(name, amount) ==
  /\ Changing({<<"payments", Fresh(books.payments)>>}, {})
  /\ books' = [books EXCEPT !.payments = Received(name, amount)]
  /\ adrift' = [adrift EXCEPT ![name].advance = @ + amount]
  /\ UNCHANGED today

(* A credit note of what is left of an invoice. *)
CreditNote(i) ==
  LET m == books.invoices[i]
  IN /\ m.residual > 0
     /\ Changing({}, {})
     /\ books' = [books EXCEPT !.invoices[i].residual = 0,
                               !.invoices[i].state = IF m.residual = m.total THEN "reversed"
                                                     ELSE "paid"]
     /\ adrift' = [adrift EXCEPT ![m.customer].credit = @ + m.residual]
     /\ UNCHANGED today

(* An invoice is reset to draft or cancelled: it is no longer posted. *)
Unpost(i) ==
  /\ books.invoices[i].state = "not_paid"
  /\ Changing({}, {<<"invoices", books.invoices[i].id>>})
  /\ books' = [books EXCEPT !.invoices = Without(@, {books.invoices[i]})]
  /\ UNCHANGED <<adrift, today>>

(* An order of one line is confirmed. *)
Sell(name, product) ==
  LET id == Fresh(books.orders)
  IN /\ Changing({<<"orders", id>>, <<"lines", Fresh(books.lines)>>}, {})
     /\ books' = [books EXCEPT
                    !.orders = Append(@, [id |-> id, customer |-> name, date |-> today]),
                    !.lines = Append(@, [id |-> Fresh(@), order |-> id, product |-> product,
                                         quantity |-> 1, total |-> NewSale])]
     /\ UNCHANGED <<adrift, today>>

(* An order is cancelled and deleted. *)
Withdraw(i) ==
  LET o == books.orders[i]
      lines == {l \in ToSet(books.lines) : l.order = o.id}
  IN /\ Changing({}, {<<"lines", l.id>> : l \in lines} \cup {<<"orders", o.id>>})
     /\ books' = [books EXCEPT !.orders = Without(@, {o}), !.lines = Without(@, lines)]
     /\ UNCHANGED <<adrift, today>>

NextDay ==
  /\ Changing({}, {})
  /\ today' = today + 1
  /\ UNCHANGED <<books, adrift>>

Names == DOMAIN adrift
Change ==
  \/ \E name \in Names, first \in BOOLEAN : Post(name, first)
  \/ \E i \in DOMAIN books.invoices :
       \/ \E amount \in {10, books.invoices[i].residual} : Settle(i, amount)
       \/ CreditNote(i)
       \/ Unpost(i)
  \/ \E name \in Names : Advance(name, 10)
  \/ \E name \in Names, p \in {x.name : x \in ToSet(Products)} : Sell(name, p)
  \/ \E i \in DOMAIN books.orders : Withdraw(i)
  \/ NextDay

(***************************************************************************)
(* A report                                                                *)
(***************************************************************************)

(* The text of a period, a year and a month; nothing is asked for. *)
AllTime == [text |-> <<>>, year |-> 0, month |-> 0]

(* What each tool reads, in its order, unless it returns early. *)
SaleReads == <<"lines", "orders">>
Reads(r) ==
  CASE r.kind \in {"balance"} -> <<"customers", "invoices">>
    [] r.kind \in {"summary", "statement"}
         -> <<"customers", "invoices", "payments", "customers", "invoices">>
    [] r.kind = "payment_history" -> <<"customers", "payments">>
    [] r.kind \in {"top_debtors", "overdue"} -> <<"invoices">>
    [] r.kind = "unpaid" -> IF r.name = "" THEN <<"invoices">> ELSE <<"customers", "invoices">>
    [] r.kind = "collections" -> <<"invoices", "invoices">>
    [] r.kind = "sales_summary" -> SaleReads
    [] r.kind = "top_products" -> SaleReads \o <<"products">>
    [] r.kind = "product_insights" -> SaleReads \o SaleReads
    [] r.kind = "customer_insights"
         -> <<"customers", "invoices">> \o SaleReads \o <<"invoices", "payments">>
    [] r.kind = "dashboard"
         -> SaleReads \o <<"invoices", "invoices", "invoices">> \o SaleReads
              \o <<"products", "customers", "products">>
    [] r.kind = "alerts"
         -> SaleReads \o SaleReads \o <<"invoices", "invoices", "invoices">>
              \o SaleReads \o SaleReads \o <<"products">>

(* The tool returns on what it has read: no sale of the product              *)
(* (get_product_insights), no revenue (_product_concentration_alerts).       *)
Returns(r, got) ==
  \/ /\ r.kind = "product_insights" /\ Len(got) = 2
     /\ ProductInsights(r.name, {}, Sales(got[1], got[2]), <<>>) = [mode |-> "no_match"]
  \/ /\ r.kind = "alerts" /\ Len(got) = 9
     /\ Revenue(Sales(got[8], got[9])) = 0

(* How many of the reads left are not made: the orders of no lines            *)
(* (_odoo_sales), and all once the tool returns. They count as no rows.      *)
NoOrders(got, todo) == todo # <<>> /\ todo[1] = "orders" /\ got[Len(got)] = <<>>
Skipped(r, got, todo) ==
  LET orders == IF NoOrders(got, todo) THEN 1 ELSE 0
  IN IF Returns(r, IF orders = 1 THEN Append(got, <<>>) ELSE got) THEN Len(todo) ELSE orders

(* The report of what was read, on the day it is composed, with the range that *)
(* its text has on that day; "raised" where the code raises.                 *)
Compose(r, got, day, range) ==
  LET sales(i) == Sales(got[i], got[i + 1])
      scope == [range |-> range, year |-> r.scope.year, month |-> r.scope.month]
  IN CASE r.kind = "balance" -> CustomerBalance(r.name, got[1], got[2])
       [] r.kind = "summary" -> CustomerSummary(r.name, got[2], got[3], got[4], got[5])
       [] r.kind = "statement"
            -> CustomerStatement(r.name, range, got[2], got[3], got[4], got[5])
       [] r.kind = "payment_history" -> PaymentHistory(r.name, got[2])
       [] r.kind = "top_debtors" -> TopDebtors(got[1], range, r.limit)
       [] r.kind = "overdue" -> OverdueInvoices(range, got[1])
       [] r.kind = "unpaid" -> UnpaidInvoices(r.name, range, got[Len(got)])
       [] r.kind = "collections" -> CollectionPriorities(got[1], got[2], r.limit, day)
       [] r.kind \in {"sales_summary", "top_products"} /\ Raises(sales(1), scope)
            -> [raised |-> TRUE]
       [] r.kind = "sales_summary" /\ ~Raises(sales(1), scope)
            -> SalesSummary(sales(1), scope)
       [] r.kind = "top_products" /\ ~Raises(sales(1), scope)
            -> TopProducts(sales(1), scope, r.limit)
       [] r.kind = "product_insights" -> ProductInsights(r.name, {}, sales(1), sales(3))
       [] r.kind = "customer_insights"
            -> CustomerInsights(r.name, got[1], got[2], sales(3), day)
       [] r.kind = "dashboard"
            -> DashboardSummary(sales(1), got[3], got[4], got[5], sales(6))
       [] r.kind = "alerts"
            -> BusinessAlerts(sales(1), sales(3), got[5], got[6], got[7], sales(8), sales(10),
                              r.limit, day)

Ask(r) ==
  /\ job = None /\ shown = None
  /\ job' = [request |-> r, todo |-> Reads(r), got |-> <<>>, rows |-> <<>>, offset |-> 0,
             since |-> today, plain |-> FALSE, grew |-> {}, shrank |-> {}, moved |-> FALSE]
  /\ UNCHANGED <<books, adrift, today, changes, faults, shown>>

Show(data, steady) == [request |-> job.request, data |-> data, steady |-> steady]

Page(entity) == LET table == Table(entity)
                IN SubSeq(table, job.offset + 1, Least({job.offset + PAGE_SIZE, Len(table)}))

(* The rows as the provider returns them; without its credit_limit field a   *)
(* partner has none.                                                        *)
Normalized(entity, rows, day, plain) ==
  CASE entity = "invoices" -> MapSeq(LAMBDA m : InvoiceRow(m, day), rows)
    [] entity = "customers" /\ plain -> MapSeq(LAMBDA c : [c EXCEPT !.credit_limit = 0], rows)
    [] OTHER -> rows

\* mutant: the offset of the next page is that of the last row read.
NextOffset_lastRow(offset) == offset + PAGE_SIZE - 1

NextOffset(offset) == offset + PAGE_SIZE

(* One call of search_read; a short page ends the table. A name that is not   *)
(* among the customers is an answer only of the first look.                  *)
ReadPage ==
  /\ job # None /\ job.todo # <<>>
  /\ LET entity == job.todo[1]
         page == Page(entity)
         rows == job.rows \o page
         since == IF job.offset = 0 THEN today ELSE job.since
         got == Append(job.got, Normalized(entity, rows, since, job.plain))
         skipped == Skipped(job.request, got, Tail(job.todo))
     IN IF Len(page) = PAGE_SIZE
        THEN /\ job' = [job EXCEPT !.rows = rows, !.offset = NextOffset(@), !.since = since]
             /\ shown' = shown
        ELSE IF entity = "customers" /\ job.got = <<>> /\ ~Known(job.request.name, rows)
        THEN job' = None /\ shown' = Show([unknown |-> job.request.name], ~job.moved)
        ELSE /\ job' = [job EXCEPT !.todo = SubSeq(@, 2 + skipped, Len(@)),
                                   !.got = got \o [i \in 1 .. skipped |-> <<>>],
                                   !.rows = <<>>, !.offset = 0,
                                   !.plain = FALSE, !.grew = {}, !.shrank = {}]
             /\ shown' = shown
  /\ UNCHANGED <<books, adrift, today, changes, faults>>

\* mutant: the rows of the pages that succeeded are kept.
Retried_keepsRows == [job EXCEPT !.offset = 0, !.plain = TRUE]

(* The retry of _odoo_customers and _odoo_payments with fewer fields *)
Retried == [job EXCEPT !.rows = <<>>, !.offset = 0, !.plain = TRUE, !.grew = {}, !.shrank = {}]

(* A call of search_read raises. *)
ReadFails ==
  /\ job # None /\ job.todo # <<>> /\ faults < MaxFaults
  /\ faults' = faults + 1
  /\ IF job.todo[1] \in {"customers", "payments"} /\ ~job.plain
     THEN job' = Retried /\ shown' = shown
     ELSE job' = None /\ shown' = Show([raised |-> TRUE], FALSE)
  /\ UNCHANGED <<books, adrift, today, changes>>

Reply ==
  /\ job # None /\ job.todo = <<>>
  /\ shown' = Show(Compose(job.request, job.got, today,
                          ParseDateRange(job.request.scope.text, today)), ~job.moved)
  /\ job' = None
  /\ UNCHANGED <<books, adrift, today, changes, faults>>

Close ==
  /\ shown # None /\ shown' = None
  /\ UNCHANGED <<books, adrift, today, changes, faults, job>>

Init ==
  /\ \E l \in Ledgers : books = l.books /\ adrift = l.adrift
  /\ today = Start /\ changes = 0 /\ faults = 0
  /\ job = None /\ shown = None

Next ==
  \/ Change
  \/ \E r \in Requests : Ask(r)
  \/ ReadPage
  \/ ReadFails
  \/ Reply
  \/ Close

Spec == Init /\ [][Next]_liveVars

(***************************************************************************)
(* Properties                                                              *)
(***************************************************************************)
Fields(kinds) == shown # None /\ shown.steady /\ shown.request.kind \in kinds
                   /\ {"raised", "unknown"} \cap DOMAIN shown.data = {}
Data == shown.data

(* What Odoo says is owed: the residual amounts, of one partner or of all. *)
Owed(name, Test(_)) ==
  Total(SelectSeq(books.invoices, LAMBDA m : name \in {"", m.customer} /\ Test(m)),
        LAMBDA m : m.residual)
Posted(m) == TRUE
PastDue(m) == m.due # 0 /\ m.due < today

(* A report in the making has what it read and what it has still to read, and *)
(* reads whole pages (_search_read_all); no invoice is settled beyond its      *)
(* total.                                                                      *)
LiveTypeOK ==
  /\ changes \in 0 .. MaxChanges /\ faults \in 0 .. MaxFaults
  /\ \A i \in DOMAIN books.invoices : books.invoices[i].residual \in 0 .. books.invoices[i].total
  /\ job # None => /\ Len(job.got) + Len(job.todo) = Len(Reads(job.request))
                   /\ job.offset % PAGE_SIZE = 0
                   /\ job.todo = <<>> => job.rows = <<>>
                   /\ shown = None

(* A table read in pages has every record that was there throughout, and once, *)
(* unless a record appeared (one may be repeated) or disappeared (one may be   *)
(* skipped) meanwhile (_search_read_all, "Read every matching record").       *)
ReadIsHonest ==
  [][job # None /\ job' # None /\ Len(job'.got) > Len(job.got) =>
       LET table == Table(job.todo[1])
           rows == job.rows \o Page(job.todo[1])
       IN /\ job.grew = {} => Cardinality(Ids(rows)) = Len(rows)
          /\ job.shrank = {} => Ids(table) \ job.grew \subseteq Ids(rows)]_job

(* Whatever tool says what is owed, it is what Odoo says, if nothing changed   *)
(* while it read: the tools compute it in five places, from rows read apart.   *)
OutstandingIsResidual ==
  /\ Fields({"balance"}) => Data.total_balance = Owed(shown.request.name, Posted)
  /\ Fields({"summary", "statement", "customer_insights"}) =>
       Data.outstanding_balance = Owed(shown.request.name, Posted)
  /\ Fields({"top_debtors"}) /\ shown.request.scope = AllTime =>
       /\ Data.total_outstanding = Owed("", Posted)
       /\ \A i \in DOMAIN Data.debtors :
            Data.debtors[i].outstanding_balance = Owed(Data.debtors[i].customer, Posted)
  /\ Fields({"unpaid"}) /\ shown.request.scope = AllTime =>
       Data.total_amount = Owed(shown.request.name, Posted)
  /\ Fields({"dashboard"}) => Data.outstanding_receivables = Owed("", Posted)
  /\ Fields({"collections"}) => \A i \in DOMAIN Data.priorities :
       Data.priorities[i].outstanding_balance = Owed(Data.priorities[i].customer, Posted)

(* Overdue is what was due before today, in every tool.                       *)
OverdueIsPastDue ==
  /\ Fields({"balance", "summary", "customer_insights"}) =>
       Data.overdue_amount = Owed(shown.request.name, PastDue)
  /\ Fields({"overdue"}) /\ shown.request.scope = AllTime =>
       Data.total_amount = Owed("", PastDue)
  /\ Fields({"collections", "dashboard"}) => Data.total_overdue = Owed("", PastDue)
  /\ Fields({"top_debtors"}) /\ shown.request.scope = AllTime => \A i \in DOMAIN Data.debtors :
       Data.debtors[i].overdue_amount = Owed(Data.debtors[i].customer, PastDue)
  /\ Fields({"collections"}) => \A i \in DOMAIN Data.priorities :
       Data.priorities[i].overdue_amount = Owed(Data.priorities[i].customer, PastDue)

(* Both: each figure of a debt is Odoo's, wherever it is computed (the tools  *)
(* on provider.get_invoices).                                                *)
FiguresAreOdoos == OutstandingIsResidual /\ OverdueIsPastDue

(* "unreconciled / advance payments": the difference that a full statement     *)
(* reports is exactly the advances less the credit notes of that customer,    *)
(* even when the read of the payments had to be retried                       *)
(* (get_customer_statement).                                                *)
StatementExplained ==
  Fields({"statement"}) /\ shown.request.scope = AllTime =>
    LET own == adrift[shown.request.name]
    IN /\ Data.difference = own.advance - own.credit
       /\ Data.reconciles <=> own.advance = own.credit

(* The last row that a statement shows, however long it is, has the balance of *)
(* the whole statement (format_customer_statement).                          *)
StatementEndsInBalance ==
  shown # None /\ shown.request.kind = "statement" /\ "rows" \in DOMAIN Data /\ Data.rows # <<>> =>
    LET rows == StatementShown(Data, TABLE_MAX_ROWS)
    IN /\ rows # <<>> /\ Len(rows) <= TABLE_MAX_ROWS
       /\ rows[Len(rows)].balance = Data.total_invoiced - Data.total_paid

(* A customer who pays invoices only, and is credited nothing, is never shown  *)
(* a credit balance in any row of a full statement.                          *)
RunningNeverNegative ==
  Fields({"statement"}) /\ shown.request.scope = AllTime /\ adrift[shown.request.name].advance = 0 =>
    \A i \in DOMAIN Data.rows : Data.rows[i].balance >= 0

(* All three: a statement adds up, shows what it adds up to, and never shows  *)
(* a credit that nobody gave (get_customer_statement).                       *)
StatementAddsUp == StatementExplained /\ StatementEndsInBalance /\ RunningNeverNegative

(* A limit, valid or not, decides how many are shown (_normalize_limit).       *)
Limited(rows, count, default) ==
  Len(rows) = Least({count, IF shown.request.limit > 0 THEN shown.request.limit ELSE default})
LimitCounts ==
  /\ Fields({"top_debtors"}) => Limited(Data.debtors, Data.customer_count, 10)
  /\ Fields({"collections"}) => Limited(Data.priorities, Data.customer_count, NoLimit)
  /\ Fields({"top_products"}) => Limited(Data.products, Data.product_count, 5)
  /\ Fields({"alerts"}) => Limited(Data.alerts, Data.total_alerts, 10)

(* Nobody of `all` is above one who is listed, but those listed before him:    *)
(* neither one who comes later nor one whom the limit left out.               *)
Leads(rows, key(_), all, Above(_, _)) ==
  \A i \in DOMAIN rows : \A x \in all \ {key(rows[j]) : j \in 1 .. i} : ~Above(x, key(rows[i]))

(* What was sold of a product in a month, by the orders of Odoo. *)
SoldIn(product, year, month) ==
  LET orders == {o \in ToSet(books.orders) : YearOf(o.date) = year /\ MonthOf(o.date) = month}
  IN Total(SelectSeq(books.lines, LAMBDA l : /\ l.product = product
                                             /\ \E o \in orders : o.id = l.order),
           LAMBDA l : l.total)

(* What is overdue of a partner, for how long, and in how many invoices. *)
LateInvoices(name) == {m \in ToSet(books.invoices) :
                         m.customer = name /\ m.residual > 0 /\ PastDue(m)}
DaysLate(name) == Greatest({0} \cup {today - m.due : m \in LateInvoices(name)})
Lateness(name) == <<Owed(name, PastDue), DaysLate(name), Cardinality(LateInvoices(name))>>

(* At least as large, as old and of as many invoices, and not the same. *)
Worse(x, y) == Lateness(x) # Lateness(y) /\ \A k \in 1 .. 3 : Lateness(x)[k] >= Lateness(y)[k]

(* By what Odoo says: no debtor, no debt and no product that a report leaves   *)
(* out or puts later is above one that it shows (get_top_debtors,             *)
(* get_collection_priorities, get_top_selling_products).                     *)
NoneAboveShown ==
  /\ Fields({"top_debtors"}) /\ shown.request.scope = AllTime =>
       Leads(Data.debtors, LAMBDA d : d.customer, Names,
             LAMBDA x, y : Owed(x, Posted) > Owed(y, Posted))
  /\ Fields({"collections"}) => Leads(Data.priorities, LAMBDA p : p.customer, Names, Worse)
  /\ Fields({"top_products"}) /\ shown.request.scope.month # 0 =>
       LET sold(p) == SoldIn(p, shown.request.scope.year, shown.request.scope.month)
       IN Leads(Data.products, LAMBDA p : p.key, {p.name : p \in ToSet(Products)},
                LAMBDA x, y : sold(x) > sold(y))

(* Both: a ranking shows as many as it should, and those of the most; what is  *)
(* cut is its end.                                                            *)
RankingsAreSound == LimitCounts /\ NoneAboveShown

(* Who is critical for the collection of debts, by what Odoo says. *)
CriticalDebtor(name) == Owed(name, PastDue) >= 200 \/ DaysLate(name) >= 30

(* The priority of a debt is critical for exactly these                       *)
(* (collections_tools._priority_level).                                      *)
PriorityIsCritical ==
  Fields({"collections"}) => \A i \in DOMAIN Data.priorities :
    Data.priorities[i].priority = "Critical" <=> CriticalDebtor(Data.priorities[i].customer)

(* An alert calls an overdue customer critical only if he is, and every one   *)
(* that is has his alert, unless the list is cut; then it shows nothing that  *)
(* is less than critical in his place (business_alerts_tools.py,              *)
(* _collection_alerts and the order of alerts).                              *)
Called(name) == \E i \in DOMAIN Data.alerts : /\ Data.alerts[i].type = "Overdue Customer"
                                              /\ Data.alerts[i].about = name
                                              /\ Data.alerts[i].level = "Critical"
CriticalIsAnnounced ==
  Fields({"alerts"}) => \A name \in Names :
    /\ Called(name) => CriticalDebtor(name)
    /\ CriticalDebtor(name) =>
         \/ Called(name)
         \/ /\ Len(Data.alerts) < Data.total_alerts
            /\ \A i \in DOMAIN Data.alerts : Data.alerts[i].level = "Critical"

(* The risk of a customer is of another scale, with thresholds of its own: a  *)
(* critical debtor may be a "Medium" there, but is not a "Low", whatever he   *)
(* buys (customer_insights_tools._assess_risk).                              *)
CriticalIsNeverLow ==
  Fields({"customer_insights"}) /\ CriticalDebtor(shown.request.name) => Data.risk_level # "Low"

(* All three: a critical debtor is called so by the collections and by the    *)
(* alerts, and never hidden behind what is less urgent, nor called a low risk. *)
CriticalIsNotHidden == PriorityIsCritical /\ CriticalIsAnnounced /\ CriticalIsNeverLow
=============================================================================
