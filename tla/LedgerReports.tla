---------------------------- MODULE LedgerReports ----------------------------
(* src/tools/customer_tools.py, invoice_tools.py, collections_tools.py: what *)
(* the tools make of the rows they have read.                               *)
EXTENDS ProviderRows

(* get_customer_balance *)
CustomerBalance(name, customers, invoices) ==
  LET open == SelectSeq(Of(name, invoices), Open)
      limit == CustomerOf(name, customers).credit_limit
      total == Outstandings(open)
  IN [total_balance |-> total,
      overdue_amount |-> Outstandings(SelectSeq(open, IsOverdue)),
      unpaid_count |-> Len(open),
      oldest_due_date |-> IF open = <<>> THEN 0
                          ELSE Least({open[i].due_date : i \in DOMAIN open}),
      credit_limit |-> limit,
      credit_used_pct |-> IF limit = 0 THEN 0 ELSE (2000 * total + limit) \div (2 * limit)]

(* The balance within another report: nothing if the name is not found again. *)
BalanceWithin(name, customers, invoices) ==
  IF Known(name, customers) THEN CustomerBalance(name, customers, invoices)
  ELSE [total_balance |-> 0, overdue_amount |-> 0]

(* get_customer_summary: invoices and payments, then the balance of rows read *)
(* again.                                                                   *)
CustomerSummary(name, invoices, payments, customers, invoices2) ==
  LET balance == BalanceWithin(name, customers, invoices2)
  IN [total_invoices |-> Len(Of(name, invoices)),
      total_billed |-> Total(Of(name, invoices), LAMBDA i : i.amount),
      total_paid |-> Total(Of(name, payments), LAMBDA p : p.amount),
      outstanding_balance |-> balance.total_balance,
      overdue_amount |-> balance.overdue_amount]

(* get_payment_history, latest first *)
PaymentHistory(name, payments) ==
  LET own == Of(name, payments)
  IN [payments |-> Sorted(own, LAMBDA p, q : p.date > q.date),
      total_paid |-> Total(own, LAMBDA p : p.amount)]

(* get_top_debtors *)
Debtor(name, open) ==
  LET own == Of(name, open)
      dues == {own[i].due_date : i \in DOMAIN own} \ {0}
  IN [customer |-> name, outstanding_balance |-> Outstandings(own),
      overdue_amount |-> Outstandings(SelectSeq(own, IsOverdue)),
      open_invoice_count |-> Len(own),
      oldest_due_date |-> IF dues = {} THEN 0 ELSE Least(dues)]
TopDebtors(invoices, range, limit) ==
  LET open == FilterByDate(SelectSeq(invoices, Open), range, "issue_date")
      debtors == Sorted(MapSeq(LAMBDA n : Debtor(n, open), Keys(open, LAMBDA i : i.customer)),
                        LAMBDA d, e : d.outstanding_balance > e.outstanding_balance)
  IN [debtors |-> Slice(debtors, NormalizeLimit(limit, 10)),
      customer_count |-> Len(debtors),
      total_outstanding |-> Total(debtors, LAMBDA d : d.outstanding_balance)]

(* The rows of get_customer_statement *)
InvoiceEntry(i) == [date |-> i.issue_date, type |-> 0, debit |-> i.amount, credit |-> 0]
PaymentEntry(p) == [date |-> p.date, type |-> 1, debit |-> 0, credit |-> p.amount]

(* Chronological; invoices before payments on the same day. *)
EntryBefore(r, s) == r.date < s.date \/ (r.date = s.date /\ r.type < s.type)
Net(r) == r.debit - r.credit

(* get_customer_statement *)
CustomerStatement(name, range, invoices, payments, customers, invoices2) ==
  LET billed == FilterByDate(Of(name, invoices), range, "issue_date")
      paid == FilterByDate(Of(name, payments), range, "date")
      entries == Sorted(MapSeq(InvoiceEntry, billed) \o MapSeq(PaymentEntry, paid), EntryBefore)
      rows == [i \in DOMAIN entries |->
                 [entry |-> entries[i], balance |-> Total(SubSeq(entries, 1, i), Net)]]
      activity == Total(entries, Net)
      outstanding == BalanceWithin(name, customers, invoices2).total_balance
  IN [rows |-> rows,
      total_invoiced |-> Total(entries, LAMBDA r : r.debit),
      total_paid |-> Total(entries, LAMBDA r : r.credit),
      outstanding_balance |-> outstanding, activity_balance |-> activity,
      reconciles |-> activity = outstanding, difference |-> outstanding - activity,
      partial |-> range # NoRange]

(* format_customer_statement: the latest rows when there are too many. *)
StatementShown(statement, max) ==
  SubSeq(statement.rows, Greatest({1, Len(statement.rows) - max + 1}), Len(statement.rows))
StatementNote(statement) == IF statement.partial THEN "period"
                            ELSE IF statement.reconciles THEN "reconciled" ELSE "difference"

(* formatting.fmt_invoice_table, fmt_payment_table: the first rows *)
TableShown(rows, max) == Take(max, rows)

(* get_unpaid_invoices: of one customer, or of all (name = "") *)
DueBefore(i, j) == i.due_date < j.due_date
UnpaidInvoices(name, range, invoices) ==
  LET open == SelectSeq(invoices, Open)
      rows == FilterByDate(IF name = "" THEN open ELSE Of(name, open), range, "issue_date")
  IN [invoices |-> Sorted(rows, DueBefore), count |-> Len(rows),
      total_amount |-> Outstandings(rows)]

(* get_overdue_invoices *)
OverdueCustomer(name, rows) ==
  LET own == Of(name, rows)
  IN [customer |-> name, invoice_count |-> Len(own), total_overdue |-> Outstandings(own),
      oldest_due |-> Least({own[i].due_date : i \in DOMAIN own})]
OverdueInvoices(range, invoices) ==
  LET rows == Sorted(FilterByDate(SelectSeq(invoices, IsOverdue), range, "issue_date"), DueBefore)
      names == Keys(rows, LAMBDA i : i.customer)
  IN [invoices |-> rows, count |-> Len(rows), total_amount |-> Outstandings(rows),
      by_customer |-> Sorted(MapSeq(LAMBDA n : OverdueCustomer(n, rows), names),
                             LAMBDA c, d : c.total_overdue > d.total_overdue)]

(* _priority_level *)
PriorityLevel(days, overdue) ==
  IF days >= 30 \/ overdue >= 200 THEN "Critical"
  ELSE IF days >= 14 \/ overdue >= 50 THEN "High"
  ELSE IF days >= 1 \/ overdue > 0 THEN "Medium" ELSE "Low"

(* The score of get_collection_priorities, thirtyfold. *)
Score(overdue, days, count) == overdue * (30 + days) + 30 * count

(* get_collection_priorities: overdue invoices, and debtors of rows read again *)
CollectionPriorities(invoices, invoices2, limit, day) ==
  LET overdue == OverdueInvoices(NoRange, invoices)
      debtors == TopDebtors(invoices2, NoRange, 10000).debtors
      balance(c) == LET own == {i \in DOMAIN debtors : debtors[i].customer = c.customer}
                    IN IF own = {} THEN c.total_overdue
                       ELSE debtors[Least(own)].outstanding_balance
      priority(c) == LET days == DaysOverdue(c.oldest_due, day)
                     IN [customer |-> c.customer, outstanding_balance |-> balance(c),
                         overdue_amount |-> c.total_overdue, count |-> c.invoice_count,
                         days_overdue |-> days,
                         score |-> Score(c.total_overdue, days, c.invoice_count),
                         priority |-> PriorityLevel(days, c.total_overdue)]
      ranked == Sorted(MapSeq(priority, overdue.by_customer), LAMBDA p, q : p.score > q.score)
  IN [priorities |-> Slice(ranked, NormalizeLimit(limit, NoLimit)),
      customer_count |-> Len(ranked), total_overdue |-> overdue.total_amount]
=============================================================================
