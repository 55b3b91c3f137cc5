---------------------------- MODULE ProviderRows ----------------------------
(* src/data/provider.py: the rows the tools work on, normalised from the    *)
(* records of Odoo; and the ways in which every tool cuts them. A date is a *)
(* day, 0 where the field is empty. Money is in hundreds of riyals. Names    *)
(* that differ in case are one name.                                        *)
EXTENDS DateRanges, SequencesExt

(* sum(f(r) for r in rows) *)
Total(rows, f(_)) == FoldLeft(LAMBDA sum, r : sum + f(r), 0, rows)

(* A stable sort, as list.sort is. *)
Sorted(rows, before(_, _)) ==
  LET place(i) == Cardinality({j \in DOMAIN rows :
                                 \/ before(rows[j], rows[i])
                                 \/ (j <= i /\ ~before(rows[i], rows[j]))})
  IN [k \in DOMAIN rows |-> rows[CHOOSE i \in DOMAIN rows : place(i) = k]]

(* The keys of a dictionary filled in the order of the rows. *)
Keys(rows, key(_)) ==
  FoldLeft(LAMBDA keys, r : IF Contains(keys, key(r)) THEN keys ELSE Append(keys, key(r)),
           <<>>, rows)
MapSeq(f(_), s) == [i \in DOMAIN s |-> f(s[i])]
Least(S) == CHOOSE x \in S : \A y \in S : x <= y
Greatest(S) == CHOOSE x \in S : \A y \in S : x >= y

(* list[:limit]: a negative limit cuts from the end. *)
Take(n, rows) == SubSeq(rows, 1, Least({n, Len(rows)}))

\* mutant: list[-limit:], the end of the ranking.
Slice_tail(rows, limit) == SubSeq(rows, Greatest({1, Len(rows) - limit + 1}), Len(rows))

Slice(rows, limit) == IF limit >= 0 THEN Take(limit, rows)
                      ELSE SubSeq(rows, 1, Len(rows) + limit)

(* _normalize_limit: an invalid limit is the default. *)
NormalizeLimit(limit, default) == IF limit > 0 THEN limit ELSE default
NoLimit == 1000000

(***************************************************************************)
(* Records of Odoo and their rows                                          *)
(***************************************************************************)
Settled == {"paid", "in_payment", "reversed"}

\* mutant: what is due today is overdue already.
Status_dueToday(m, day) == IF m.state \in Settled THEN "paid"
                           ELSE IF m.residual > 0 /\ m.due # 0 /\ m.due <= day THEN "overdue"
                           ELSE "unpaid"

(* _odoo_invoices, on the day it is called *)
Status(m, day) == IF m.state \in Settled THEN "paid"
                  ELSE IF m.residual > 0 /\ m.due # 0 /\ m.due < day THEN "overdue"
                  ELSE "unpaid"
InvoiceRow(m, day) ==
  [id |-> m.id, customer |-> m.customer, amount |-> m.total,
   paid_amount |-> m.total - m.residual, status |-> Status(m, day),
   issue_date |-> m.issue, due_date |-> m.due]

(* _odoo_sales: each line with what the orders that were read say of it. *)
OrderIds(lines) == {lines[i].order : i \in DOMAIN lines}
SaleRow(line, orders) ==
  LET found == {i \in DOMAIN orders : orders[i].id = line.order}
      order == orders[Greatest(found)]
  IN [date |-> IF found = {} THEN 0 ELSE order.date,
      customer |-> IF found = {} THEN "" ELSE order.customer,
      product |-> line.product, quantity |-> line.quantity, total |-> line.total]
Sales(lines, orders) == MapSeq(LAMBDA l : SaleRow(l, orders), lines)

(***************************************************************************)
(* Rows                                                                    *)
(***************************************************************************)
Outstanding(inv) == inv.amount - inv.paid_amount
Open(inv) == inv.status \in {"unpaid", "overdue"}
IsOverdue(inv) == inv.status = "overdue"
Of(name, rows) == SelectSeq(rows, LAMBDA r : r.customer = name)
Outstandings(rows) == Total(rows, Outstanding)
SaleTotal(s) == s.total
Revenue(sales) == Total(sales, SaleTotal)

(* _find_customer *)
Known(name, customers) == \E i \in DOMAIN customers : customers[i].name = name
CustomerOf(name, customers) ==
  customers[Least({i \in DOMAIN customers : customers[i].name = name})]

(* formatting.days_overdue *)
DaysOverdue(due, day) == Greatest({day - due, 0})
=============================================================================
