------------------------ MODULE LiveReportsTheorems ------------------------
(***************************************************************************)
(* Theorems about LiveReports, for all books, every size of a page and any *)
(* number of changes and faults: what paging by offset can miss or repeat. *)
(***************************************************************************)
EXTENDS LiveReports, ListFiltersTheorems, SequenceTheorems

-----------------------------------------------------------------------------
(***************************************************************************)
(* Tables.                                                                 *)
(***************************************************************************)

\* The ids of a list of records are their own.
Distinct(rows) == \A i, j \in DOMAIN rows : rows[i].id = rows[j].id => i = j

\* Every record of the list after was in the list before, no earlier in it.
MovesUp(before, after) ==
    \A i \in DOMAIN after : \E j \in DOMAIN before : i <= j /\ after[i].id = before[j].id

\* Every record of the list after is new or was before, no later in the list.
MovesDown(before, after, new) ==
    \A i \in DOMAIN after :
        after[i].id \in new \/ \E j \in DOMAIN before : j <= i /\ after[i].id = before[j].id

\* How a table changes where records come and go.
Moves(before, after, come, gone) ==
    /\ come = {} => MovesUp(before, after)
    /\ gone = {} => MovesDown(before, after, come)

LEMMA MovesNowhere ==
  ASSUME NEW before, NEW after, NEW come, NEW gone, NEW E, before \in Seq(E), DOMAIN after = DOMAIN before,
         \A i \in DOMAIN before : after[i].id = before[i].id
  PROVE  Moves(before, after, come, gone)
<1>1. \A i \in DOMAIN after : i \in DOMAIN before /\ i <= i
  OBVIOUS
<1>. QED  BY <1>1 DEF Moves, MovesUp, MovesDown

\* A filter keeps the order of a table; 
LEMMA FilterMovesUp ==
  ASSUME NEW E, NEW gone
  PROVE  \A rows \in Seq(E) : MovesUp(rows, Without(rows, gone))
<1>. DEFINE S == {rows \in Seq(E) : MovesUp(rows, Without(rows, gone))
                                     /\ Len(Without(rows, gone)) <= Len(rows)}
<1>1. <<>> \in S
  BY WithoutNone DEF MovesUp
<1>2. ASSUME NEW rows \in Seq(E), NEW e \in E, rows \in S
      PROVE  Append(rows, e) \in S
  <2>1. PICK more, kept : more = Append(rows, e) /\ kept = Without(rows, gone)
    OBVIOUS
  <2>2. /\ more \in Seq(E) /\ Len(more) = Len(rows) + 1 /\ Len(rows) \in Nat
        /\ more[Len(rows) + 1] = e /\ \A i \in DOMAIN rows : i \in DOMAIN more /\ more[i] = rows[i]
    BY <2>1
  <2>3. kept \in Seq(E) /\ MovesUp(rows, kept) /\ Len(kept) <= Len(rows)
    <3>1. kept \in Seq(E \ gone)
      BY <2>1, WithoutType
    <3>. QED  BY <1>2, <2>1, <3>1
  <2>4. MovesUp(more, kept)
    BY <2>2, <2>3 DEF MovesUp
  <2>5. MovesUp(more, Append(kept, e)) /\ Len(Append(kept, e)) <= Len(more)
    <3>1. PICK long : long = Append(kept, e)
      OBVIOUS
    <3>2. /\ Len(long) = Len(kept) + 1 /\ long[Len(kept) + 1] = e /\ Len(kept) \in Nat
          /\ DOMAIN long = DOMAIN kept \cup {Len(kept) + 1}
          /\ \A i \in DOMAIN kept : long[i] = kept[i]
      BY <2>3, <3>1
    <3>3. Len(rows) + 1 \in DOMAIN more /\ Len(kept) + 1 <= Len(rows) + 1
      BY <2>2, <2>3
    <3>. QED  BY <2>2, <2>3, <2>4, <3>1, <3>2, <3>3 DEF MovesUp
  <2>6. Without(more, gone) = IF e \in gone THEN kept ELSE Append(kept, e)
    BY <2>1, WithoutNext
  <2>7. Len(kept) <= Len(more)
    BY <2>2, <2>3
  <2>8. MovesUp(more, Without(more, gone)) /\ Len(Without(more, gone)) <= Len(more)
    BY <2>4, <2>5, <2>6, <2>7
  <2>. QED  BY <2>1, <2>2, <2>8
<1>. HIDE DEF S
<1>3. Seq(E) \subseteq S
  BY <1>1, <1>2, Listing
<1>. QED  BY <1>3 DEF S

\* and lets the ids be their own.
LEMMA FilterDistinct ==
  ASSUME NEW E, NEW gone
  PROVE  \A rows \in Seq(E) : Distinct(rows) => Distinct(Without(rows, gone))
<1>. DEFINE S == {rows \in Seq(E) : Distinct(rows) => Distinct(Without(rows, gone))}
<1>1. <<>> \in S
  BY WithoutNone DEF Distinct
<1>2. ASSUME NEW rows \in Seq(E), NEW e \in E, rows \in S
      PROVE  Append(rows, e) \in S
  <2>1. PICK more, kept : more = Append(rows, e) /\ kept = Without(rows, gone)
    OBVIOUS
  <2>2. /\ more \in Seq(E) /\ Len(more) = Len(rows) + 1 /\ Len(rows) \in Nat
        /\ more[Len(rows) + 1] = e /\ Len(rows) + 1 \in DOMAIN more
        /\ \A i \in DOMAIN rows : i \in DOMAIN more /\ more[i] = rows[i] /\ i # Len(rows) + 1
    BY <2>1
  <2>3. kept \in Seq(E) /\ MovesUp(rows, kept)
    <3>1. kept \in Seq(E \ gone)
      BY <2>1, WithoutType
    <3>. QED  BY <2>1, <3>1, FilterMovesUp
  <2>4. Without(more, gone) = IF e \in gone THEN kept ELSE Append(kept, e)
    BY <2>1, WithoutNext
  <2>5. ASSUME Distinct(more)
        PROVE  Distinct(Without(more, gone))
    <3>1. Distinct(rows)
      BY <2>2, <2>5 DEF Distinct
    <3>2. Distinct(kept)
      BY <1>2, <2>1, <3>1
    <3>3. \A i \in DOMAIN kept : kept[i].id # e.id
      BY <2>2, <2>3, <2>5 DEF Distinct, MovesUp
    <3>4. PICK long : long = Append(kept, e)
      OBVIOUS
    <3>5. /\ DOMAIN long = DOMAIN kept \cup {Len(kept) + 1} /\ long[Len(kept) + 1] = e
          /\ \A i \in DOMAIN kept : long[i] = kept[i]
      BY <2>3, <3>4
    <3>6. Distinct(long)
      BY <3>2, <3>3, <3>5 DEF Distinct
    <3>. QED  BY <2>4, <3>2, <3>4, <3>6
  <2>. QED  BY <2>1, <2>2, <2>5
<1>. HIDE DEF S
<1>3. Seq(E) \subseteq S
  BY <1>1, <1>2, Listing
<1>. QED  BY <1>3 DEF S


\* An entry is inserted at either end, ...
LEMMA InsertMoves ==
  ASSUME NEW E, NEW rows \in Seq(E), NEW r, NEW first \in BOOLEAN, NEW come, NEW gone, r.id \in come,
         NEW more, more = Inserted(rows, r, first)
  PROVE  Moves(rows, more, come, gone)
<1>1. PICK l \in Nat : l = Len(rows)
  OBVIOUS
<1>2. CASE first
  <2>1. /\ DOMAIN more = 1..(l + 1) /\ more[1] = r
        /\ \A i \in 2..(l + 1) : more[i] = rows[i - 1]
    BY <1>1, <1>2 DEF Inserted
  <2>2. ASSUME NEW i \in DOMAIN more
        PROVE  more[i].id \in come \/ \E j \in DOMAIN rows : j <= i /\ more[i].id = rows[j].id
    <3>1. CASE i = 1
      BY <2>1, <3>1
    <3>2. CASE i \in 2..(l + 1)
      <4>1. i - 1 \in DOMAIN rows /\ i - 1 <= i /\ more[i] = rows[i - 1]
        BY <1>1, <2>1, <3>2
      <4>. QED  BY <4>1
    <3>. QED  BY <2>1, <3>1, <3>2
  <2>. QED  BY <2>2 DEF Moves, MovesDown
<1>3. CASE ~first
  <2>1. more = Append(rows, r)
    BY <1>3 DEF Inserted
  <2>2. /\ DOMAIN more = 1..(l + 1) /\ more[l + 1] = r
        /\ \A i \in 1..l : more[i] = rows[i]
    BY <1>1, <2>1
  <2>3. ASSUME NEW i \in DOMAIN more
        PROVE  more[i].id \in come \/ \E j \in DOMAIN rows : j <= i /\ more[i].id = rows[j].id
    <3>1. CASE i = l + 1
      BY <2>2, <3>1
    <3>2. CASE i \in 1..l
      <4>1. i \in DOMAIN rows /\ i <= i /\ more[i] = rows[i]
        BY <1>1, <2>2, <3>2
      <4>. QED  BY <4>1
    <3>. QED  BY <2>2, <3>1, <3>2
  <2>. QED  BY <2>3 DEF Moves, MovesDown
<1>. QED  BY <1>2, <1>3

\* and has an id that no other has.
LEMMA GreatestExists ==
  ASSUME NEW E
  PROVE  \A rows \in Seq(E) : Ids(rows) \subseteq Nat =>
            \E m \in {0} \cup Ids(rows) : \A n \in {0} \cup Ids(rows) : m >= n
<1>. DEFINE Has(rows) == \E m \in {0} \cup Ids(rows) : \A n \in {0} \cup Ids(rows) : m >= n
            S == {rows \in Seq(E) : Ids(rows) \subseteq Nat => Has(rows)}
<1>1. <<>> \in S
  <2>1. Ids(<<>>) = {}
    BY DEF Ids
  <2>. QED  BY <2>1
<1>2. ASSUME NEW rows \in Seq(E), NEW e \in E, rows \in S
      PROVE  Append(rows, e) \in S
  <2>1. PICK more, id : more = Append(rows, e) /\ id = e.id
    OBVIOUS
  <2>2. more \in Seq(E) /\ Ids(more) = Ids(rows) \cup {id}
    BY <2>1 DEF Ids
  <2>3. ASSUME Ids(more) \subseteq Nat
        PROVE  Has(more)
    <3>1. id \in Nat /\ Ids(rows) \subseteq Nat
      BY <2>2, <2>3
    <3>2. PICK m \in {0} \cup Ids(rows) : \A n \in {0} \cup Ids(rows) : m >= n
      BY <1>2, <3>1
    <3>3. m \in Nat
      BY <3>1
    <3>4. CASE id > m
      <4>1. \A n \in {0} \cup Ids(more) : id >= n
        BY <2>2, <3>1, <3>2, <3>3, <3>4
      <4>. QED  BY <2>2, <4>1
    <3>5. CASE m >= id
      <4>1. \A n \in {0} \cup Ids(more) : m >= n
        BY <2>2, <3>1, <3>2, <3>3, <3>5
      <4>. QED  BY <2>2, <3>2, <4>1
    <3>. QED  BY <3>1, <3>3, <3>4, <3>5
  <2>. HIDE DEF Has
  <2>. QED  BY <2>1, <2>2, <2>3
<1>. HIDE DEF S
<1>3. Seq(E) \subseteq S
  BY <1>1, <1>2, Listing
<1>. QED  BY <1>3 DEF S

LEMMA FreshIsNew ==
  ASSUME NEW rows, IsTable(rows)
  PROVE  Fresh(rows) \in Nat /\ Fresh(rows) \notin Ids(rows)
<1>1. rows \in Seq(ToSet(rows)) /\ Ids(rows) \subseteq Nat
  BY DEF IsTable
<1>2. PICK m \in {0} \cup Ids(rows) : \A n \in {0} \cup Ids(rows) : m >= n
  BY <1>1, GreatestExists
<1>. DEFINE g == Greatest({0} \cup Ids(rows))
<1>3. g \in {0} \cup Ids(rows) /\ \A n \in {0} \cup Ids(rows) : g >= n
  BY <1>2 DEF Greatest
<1>. HIDE DEF g
<1>4. Fresh(rows) = 1 + g
  BY DEF Fresh, g
<1>5. g \in Nat
  BY <1>1, <1>3
<1>. QED  BY <1>1, <1>3, <1>4, <1>5

-----------------------------------------------------------------------------
(***************************************************************************)
(* The tables of Odoo stay tables.                                         *)
(***************************************************************************)

Entities == {"customers", "products", "invoices", "payments", "lines", "orders"}
Stored == {"invoices", "payments", "lines", "orders"}

BooksInv == /\ Stored \subseteq DOMAIN books
            /\ \A entity \in Stored : IsTable(books[entity])

\* What makes a table of a list.
LEMMA TableIs ==
  ASSUME NEW E, NEW rows \in Seq(E), Distinct(rows), Ids(rows) \subseteq Nat,
         \A i \in DOMAIN rows : "id" \in DOMAIN rows[i]
  PROVE  IsTable(rows)
<1>1. rows \in Seq(ToSet(rows))
  BY DEF ToSet
<1>. QED  BY <1>1 DEF IsTable, Distinct

LEMMA InsertTable ==
  ASSUME NEW rows, IsTable(rows), NEW r, r.id = Fresh(rows), "id" \in DOMAIN r, NEW first \in BOOLEAN
  PROVE  IsTable(Inserted(rows, r, first))
<1>1. PICK E : E = ToSet(rows) \cup {r}
  OBVIOUS
<1>2. PICK l \in Nat : rows \in Seq(E) /\ l = Len(rows)
  BY <1>1 DEF IsTable
<1>3. PICK more : more = Inserted(rows, r, first)
  OBVIOUS
<1>4. /\ \A i \in DOMAIN rows : rows[i].id # r.id /\ rows[i].id \in Nat /\ "id" \in DOMAIN rows[i]
      /\ r.id \in Nat /\ Distinct(rows)
  BY FreshIsNew DEF IsTable, Ids, Distinct
<1>5. CASE first
  <2>1. more = <<r>> \o rows
    BY <1>3, <1>5 DEF Inserted
  <2>2. /\ more \in Seq(E) /\ DOMAIN more = 1..(l + 1) /\ more[1] = r
        /\ \A i \in 2..(l + 1) : more[i] = rows[i - 1] /\ i - 1 \in DOMAIN rows
    BY <1>1, <1>2, <2>1
  <2>3. \A i \in DOMAIN more : "id" \in DOMAIN more[i] /\ more[i].id \in Nat
    BY <1>4, <2>2
  <2>4. Distinct(more)
    <3>1. SUFFICES ASSUME NEW i \in DOMAIN more, NEW j \in DOMAIN more, more[i].id = more[j].id
                   PROVE  i = j
      BY DEF Distinct
    <3>2. CASE i = 1 /\ j = 1
      BY <3>2
    <3>3. CASE i \in 2..(l + 1) /\ j \in 2..(l + 1)
      <4>1. rows[i - 1].id = rows[j - 1].id /\ i - 1 \in DOMAIN rows /\ j - 1 \in DOMAIN rows
        BY <2>2, <3>1, <3>3
      <4>2. i - 1 = j - 1
        BY <1>4, <4>1 DEF Distinct
      <4>. QED  BY <3>3, <4>2
    <3>4. CASE i = 1 /\ j \in 2..(l + 1)
      BY <1>4, <2>2, <3>1, <3>4
    <3>5. CASE i \in 2..(l + 1) /\ j = 1
      BY <1>4, <2>2, <3>1, <3>5
    <3>. QED  BY <2>2, <3>2, <3>3, <3>4, <3>5
  <2>. QED  BY <1>3, <2>2, <2>3, <2>4, TableIs DEF Ids
<1>6. CASE ~first
  <2>1. more = Append(rows, r)
    BY <1>3, <1>6 DEF Inserted
  <2>2. /\ more \in Seq(E) /\ DOMAIN more = 1..(l + 1) /\ more[l + 1] = r
        /\ \A i \in 1..l : more[i] = rows[i] /\ i \in DOMAIN rows
    BY <1>1, <1>2, <2>1
  <2>3. \A i \in DOMAIN more : "id" \in DOMAIN more[i] /\ more[i].id \in Nat
    BY <1>4, <2>2
  <2>4. Distinct(more)
    BY <1>2, <1>4, <2>2 DEF Distinct
  <2>. QED  BY <1>3, <2>2, <2>3, <2>4, TableIs DEF Ids
<1>. QED  BY <1>5, <1>6

LEMMA FilterTable ==
  ASSUME NEW rows, IsTable(rows), NEW gone
  PROVE  IsTable(Without(rows, gone))
<1>1. PICK E : E = ToSet(rows)
  OBVIOUS
<1>2. rows \in Seq(E) /\ Distinct(rows) /\ \A e \in E : "id" \in DOMAIN e /\ e.id \in Nat
  BY <1>1 DEF IsTable, Distinct, ToSet, Ids
<1>3. PICK kept : kept = Without(rows, gone)
  OBVIOUS
<1>4. kept \in Seq(E \ gone) /\ Distinct(kept)
  BY <1>2, <1>3, WithoutType, FilterDistinct
<1>5. kept \in Seq(E)
  BY <1>4
<1>6. \A i \in DOMAIN kept : kept[i] \in E
  BY <1>5
<1>. QED  BY <1>2, <1>3, <1>4, <1>5, <1>6, TableIs DEF Ids

\* A record of a table changes, and keeps its id.
LEMMA ChangedTable ==
  ASSUME NEW rows, IsTable(rows), NEW i \in DOMAIN rows, NEW r, "id" \in DOMAIN r, r.id = rows[i].id,
         NEW more, more = [rows EXCEPT ![i] = r]
  PROVE  IsTable(more)
<1>1. PICK E : E = ToSet(rows) \cup {r}
  OBVIOUS
<1>2. rows \in Seq(E) /\ Distinct(rows)
  BY <1>1 DEF IsTable, Distinct
<1>3. /\ more \in Seq(E) /\ DOMAIN more = DOMAIN rows
      /\ \A j \in DOMAIN rows : more[j] = IF j = i THEN r ELSE rows[j]
  BY <1>1, <1>2
<1>4. \A j \in DOMAIN rows : more[j].id = rows[j].id /\ "id" \in DOMAIN more[j] /\ rows[j].id \in Nat
  BY <1>3 DEF IsTable, Ids
<1>5. Distinct(more)
  BY <1>2, <1>3, <1>4 DEF Distinct
<1>6. Ids(more) \subseteq Nat
  BY <1>3, <1>4 DEF Ids
<1>. QED  BY <1>3, <1>4, <1>5, <1>6, TableIs


\* The orders that a report reads are those of its lines.
OrdersOf(rows, ids) == Without(rows, {o \in ToSet(rows) : o.id \notin ids})

LEMMA OrdersInserted ==
  ASSUME NEW rows, IsTable(rows), NEW r, NEW ids, NEW come, r.id \in come, NEW gone
  PROVE  Moves(OrdersOf(rows, ids), OrdersOf(Append(rows, r), ids), come, gone)
<1>1. PICK E : E = ToSet(rows) \cup {r}
  OBVIOUS
<1>2. rows \in Seq(E) /\ r \in E
  BY <1>1 DEF IsTable
<1>3. PICK more : more = Append(rows, r)
  OBVIOUS
<1>4. PICK A, B : /\ A = {o \in ToSet(rows) : o.id \notin ids}
                  /\ B = {o \in ToSet(more) : o.id \notin ids}
  OBVIOUS
<1>5. \A i \in DOMAIN rows : rows[i] \in A <=> rows[i] \in B
  BY <1>2, <1>3, <1>4 DEF ToSet
<1>6. Without(rows, A) = Without(rows, B)
  BY <1>2, <1>5, WithoutSame
<1>7. Without(more, B) = IF r \in B THEN Without(rows, B) ELSE Append(Without(rows, B), r)
  BY <1>2, <1>3, WithoutNext
<1>8. PICK kept : kept = Without(rows, A)
  OBVIOUS
<1>9. kept \in Seq(E)
  <2>1. kept \in Seq(E \ A)
    BY <1>2, <1>8, WithoutType
  <2>. QED  BY <2>1
<1>10. Moves(kept, kept, come, gone)
  BY <1>9, MovesNowhere
<1>11. Moves(kept, Append(kept, r), come, gone)
  <2>1. Append(kept, r) = Inserted(kept, r, FALSE)
    BY DEF Inserted
  <2>. QED  BY <1>9, <2>1, InsertMoves
<1>. QED  BY <1>3, <1>4, <1>6, <1>7, <1>8, <1>10, <1>11 DEF OrdersOf

LEMMA OrdersFiltered ==
  ASSUME NEW rows, IsTable(rows), NEW g, NEW ids, NEW come, NEW gone, gone # {}
  PROVE  Moves(OrdersOf(rows, ids), OrdersOf(Without(rows, g), ids), come, gone)
<1>1. PICK E : E = ToSet(rows)
  OBVIOUS
<1>2. rows \in Seq(E)
  BY <1>1 DEF IsTable
<1>3. PICK less : less = Without(rows, g)
  OBVIOUS
<1>4. less \in Seq(E)
  <2>1. less \in Seq(E \ g)
    BY <1>2, <1>3, WithoutType
  <2>. QED  BY <2>1
<1>5. PICK A, B : /\ A = {o \in ToSet(rows) : o.id \notin ids}
                  /\ B = {o \in ToSet(less) : o.id \notin ids}
  OBVIOUS
<1>6. \A i \in DOMAIN less : less[i] \in B <=> less[i] \in A
  BY <1>1, <1>4, <1>5 DEF ToSet
<1>7. Without(less, B) = Without(less, A)
  BY <1>4, <1>6, WithoutSame
<1>8. Without(less, A) = Without(rows, g \cup A)
  BY <1>2, <1>3, WithoutBoth
<1>9. PICK kept : kept = Without(rows, A)
  OBVIOUS
<1>10. kept \in Seq(E)
  <2>1. kept \in Seq(E \ A)
    BY <1>2, <1>9, WithoutType
  <2>. QED  BY <2>1
<1>11. Without(kept, g \cup A) = Without(rows, g \cup A)
  BY <1>2, <1>9, WithoutTwice
<1>12. MovesUp(kept, Without(kept, g \cup A))
  BY <1>10, FilterMovesUp
<1>13. MovesUp(kept, Without(less, B))
  BY <1>7, <1>8, <1>11, <1>12
<1>. QED  BY <1>3, <1>5, <1>9, <1>13 DEF Moves, OrdersOf

-----------------------------------------------------------------------------
(***************************************************************************)
(* What a change does to what a report reads.                              *)
(***************************************************************************)

JobFields == {"request", "todo", "got", "rows", "offset", "since", "plain", "grew", "shrank", "moved"}

JobInv ==
    job # None => /\ DOMAIN job = JobFields
                  /\ job.todo \in Seq(Entities)
                  /\ job.offset \in Nat
                  /\ job.rows \in Seq(ToSet(job.rows))
                  /\ job.got \in Seq(ToSet(job.got))

\* The ids of the pairs of a table and an id that are about this table.
IdsOf(pairs, entity) == {p[2] : p \in {q \in pairs : q[1] = entity}}

\* The report in the making after a change.
LEMMA ChangedJob ==
  ASSUME NEW come, NEW gone, Changing(come, gone), JobInv, job # None, job.todo # <<>>
  PROVE  /\ job'.todo = job.todo /\ job'.got = job.got
         /\ job'.rows = job.rows /\ job'.offset = job.offset
         /\ job'.grew = job.grew \cup IdsOf(come, job.todo[1])
         /\ job'.shrank = job.shrank \cup IdsOf(gone, job.todo[1])
<1>1. PICK c, g : c = OfTable(come) /\ g = OfTable(gone)
  OBVIOUS
<1>2. c = IdsOf(come, job.todo[1]) /\ g = IdsOf(gone, job.todo[1])
  BY <1>1 DEF OfTable, IdsOf
<1>3. job' = [job EXCEPT !.moved = TRUE, !.grew = @ \cup c, !.shrank = @ \cup g]
  BY <1>1 DEF Changing
<1>4. /\ job'.todo = job.todo /\ job'.got = job.got
      /\ job'.rows = job.rows /\ job'.offset = job.offset
      /\ job'.grew = job.grew \cup c /\ job'.shrank = job.shrank \cup g
  BY <1>3 DEF JobInv, JobFields
<1>. QED  BY <1>2, <1>4


LEMMA ChangedJobInv ==
  ASSUME NEW come, NEW gone, Changing(come, gone), JobInv
  PROVE  JobInv' /\ (job' # None => job # None)
<1>1. PICK c, g : c = OfTable(come) /\ g = OfTable(gone)
  OBVIOUS
<1>2. job' = IF job = None THEN None
             ELSE [job EXCEPT !.moved = TRUE, !.grew = @ \cup c, !.shrank = @ \cup g]
  BY <1>1 DEF Changing
<1>3. CASE job # None
  <2>1. /\ DOMAIN job' = JobFields
        /\ job'.todo = job.todo /\ job'.rows = job.rows /\ job'.offset = job.offset
        /\ job'.got = job.got
    BY <1>2, <1>3 DEF JobInv, JobFields
  <2>. QED  BY <1>3, <2>1 DEF JobInv
<1>. QED  BY <1>2, <1>3 DEF JobInv

\* How the tables of Odoo move where records come and go.
BooksMove(come, gone) ==
    /\ \A entity \in Stored \ {"orders"} :
          Moves(books[entity], books'[entity], IdsOf(come, entity), IdsOf(gone, entity))
    /\ \/ books'["orders"] = books["orders"]
       \/ \E r : r.id \in IdsOf(come, "orders") /\ books'["orders"] = Append(books["orders"], r)
       \/ \E g : /\ books'["orders"] = Without(books["orders"], g)
                 /\ IdsOf(gone, "orders") # {}

\* What the report reads moves likewise.
LEMMA TablesMove ==
  ASSUME NEW come, NEW gone, Changing(come, gone), BooksInv, BooksMove(come, gone), JobInv,
         job # None, job.todo # <<>>, NEW entity \in Entities
  PROVE  Moves(Table(entity), Table(entity)', IdsOf(come, entity), IdsOf(gone, entity))
<1>1. CASE entity = "customers"
  <2>1. Table(entity) = Customers /\ Table(entity)' = Customers /\ Customers \in Seq(ToSet(Customers))
    BY <1>1, LiveAssumption DEF Table, IsTable
  <2>. QED  BY <2>1, MovesNowhere
<1>2. CASE entity = "products"
  <2>1. Table(entity) = Products /\ Table(entity)' = Products /\ Products \in Seq(ToSet(Products))
    BY <1>2, LiveAssumption DEF Table, IsTable
  <2>. QED  BY <2>1, MovesNowhere
<1>3. CASE entity \in Stored \ {"orders"}
  <2>1. Table(entity) = books[entity] /\ Table(entity)' = books'[entity]
    BY <1>3 DEF Table, Stored
  <2>. QED  BY <1>3, <2>1 DEF BooksMove
<1>4. CASE entity = "orders"
  <2>1. PICK ids : ids = OrderIds(job.got[Len(job.got)])
    OBVIOUS
  <2>2. ids = OrderIds(job'.got[Len(job'.got)])
    BY <2>1, ChangedJob
  <2>3. PICK before, after : before = books["orders"] /\ after = books'["orders"]
    OBVIOUS
  <2>4. Table(entity) = OrdersOf(before, ids) /\ Table(entity)' = OrdersOf(after, ids)
    BY <1>4, <2>1, <2>2, <2>3 DEF Table, OrdersOf
  <2>5. IsTable(before)
    BY <2>3 DEF BooksInv, Stored
  <2>6. CASE after = before
    <3>1. OrdersOf(before, ids) \in Seq(ToSet(before) \ {o \in ToSet(before) : o.id \notin ids})
      BY <2>5, WithoutType DEF OrdersOf, IsTable
    <3>. QED  BY <2>4, <2>6, <3>1, MovesNowhere
  <2>7. CASE \E r : r.id \in IdsOf(come, "orders") /\ after = Append(before, r)
    BY <1>4, <2>4, <2>5, <2>7, OrdersInserted
  <2>8. CASE \E g : after = Without(before, g) /\ IdsOf(gone, "orders") # {}
    BY <1>4, <2>4, <2>5, <2>8, OrdersFiltered
  <2>. QED  BY <2>3, <2>6, <2>7, <2>8 DEF BooksMove
<1>. QED  BY <1>1, <1>2, <1>3, <1>4 DEF Entities, Stored

\* A table that stays, or grows or shrinks by one kind of change.
LEMMA Stays ==
  ASSUME NEW rows, IsTable(rows), NEW come, NEW gone
  PROVE  Moves(rows, rows, come, gone)
BY MovesNowhere DEF IsTable

LEMMA Filtered ==
  ASSUME NEW rows, IsTable(rows), NEW away, NEW come, NEW gone, away = {} \/ gone # {}
  PROVE  Moves(rows, Without(rows, away), come, gone)
<1>1. rows \in Seq(ToSet(rows))
  BY DEF IsTable
<1>2. CASE away = {}
  <2>1. Without(rows, away) = rows
    BY <1>1, <1>2, WithoutNothing
  <2>. QED  BY <2>1, Stays
<1>3. CASE gone # {}
  BY <1>1, <1>3, FilterMovesUp DEF Moves
<1>. QED  BY <1>2, <1>3

LEMMA InsertedMoves ==
  ASSUME NEW rows, IsTable(rows), NEW r, NEW first \in BOOLEAN, NEW come, NEW gone, r.id \in come
  PROVE  Moves(rows, Inserted(rows, r, first), come, gone)
BY InsertMoves DEF IsTable

LEMMA ChangedMoves ==
  ASSUME NEW rows, IsTable(rows), NEW i \in DOMAIN rows, NEW r, r.id = rows[i].id, NEW come, NEW gone
  PROVE  Moves(rows, [rows EXCEPT ![i] = r], come, gone)
<1>1. PICK more : more = [rows EXCEPT ![i] = r]
  OBVIOUS
<1>2. rows \in Seq(ToSet(rows)) /\ DOMAIN more = DOMAIN rows
  BY <1>1 DEF IsTable
<1>3. \A j \in DOMAIN rows : more[j].id = rows[j].id
  BY <1>1, <1>2
<1>. QED  BY <1>1, <1>2, <1>3, MovesNowhere


-----------------------------------------------------------------------------
(***************************************************************************)
(* The changes of the books.                                               *)
(***************************************************************************)

LEMMA IdsOfPair ==
  ASSUME NEW pairs, NEW entity, NEW id, <<entity, id>> \in pairs
  PROVE  id \in IdsOf(pairs, entity)
<1>1. PICK p : p = <<entity, id>>
  OBVIOUS
<1>2. p \in pairs /\ p[1] = entity /\ p[2] = id
  BY <1>1
<1>. QED  BY <1>2 DEF IdsOf

\* What a change must show: the tables stay tables, and move.
Allowed(come, gone) == Changing(come, gone) /\ BooksInv' /\ BooksMove(come, gone)

LEMMA PostMoves ==
  ASSUME BooksInv, NEW name, NEW first \in BOOLEAN, Post(name, first)
  PROVE  \E come, gone : Allowed(come, gone)
<1>1. PICK r : /\ r.id = Fresh(books["invoices"]) /\ "id" \in DOMAIN r
               /\ Changing({<<"invoices", r.id>>}, {})
               /\ books' = [books EXCEPT !.invoices = Inserted(@, r, first)]
  BY DEF Post
<1>2. PICK come : come = {<<"invoices", r.id>>}
  OBVIOUS
<1>3. r.id \in IdsOf(come, "invoices")
  <2>1. <<"invoices", r.id>> \in come
    BY <1>2
  <2>. QED  BY ONLY <2>1, IdsOfPair
<1>4. /\ books'["invoices"] = Inserted(books["invoices"], r, first)
      /\ \A entity \in Stored \ {"invoices"} : books'[entity] = books[entity]
      /\ Stored \subseteq DOMAIN books'
  BY <1>1 DEF BooksInv, Stored
<1>5. \A entity \in Stored : IsTable(books[entity])
  BY DEF BooksInv
<1>6. BooksInv'
  BY <1>1, <1>4, <1>5, InsertTable DEF BooksInv, Stored
<1>7. \A entity \in Stored : Moves(books[entity], books'[entity], IdsOf(come, entity), IdsOf({}, entity))
  BY <1>3, <1>4, <1>5, InsertedMoves, Stays DEF Stored
<1>. QED  BY <1>1, <1>2, <1>4, <1>6, <1>7 DEF Allowed, BooksMove, Stored

\* A payment is received, and an invoice may change with it.
LEMMA ReceiptMoves ==
  ASSUME BooksInv, NEW name, NEW amount, NEW come, come = {<<"payments", Fresh(books["payments"])>>},
         Stored \subseteq DOMAIN books',
         books'["payments"] = Received(name, amount),
         \A entity \in {"lines", "orders"} : books'[entity] = books[entity],
         \/ books'["invoices"] = books["invoices"]
         \/ \E i \in DOMAIN books["invoices"] : \E r :
               /\ "id" \in DOMAIN r /\ r.id = books["invoices"][i].id
               /\ books'["invoices"] = [books["invoices"] EXCEPT ![i] = r]
  PROVE  BooksInv' /\ BooksMove(come, {})
<1>1. PICK p : /\ p.id = Fresh(books["payments"]) /\ "id" \in DOMAIN p
               /\ books'["payments"] = Inserted(books["payments"], p, TRUE)
  BY DEF Received
<1>2. \A entity \in Stored : IsTable(books[entity])
  BY DEF BooksInv
<1>3. p.id \in IdsOf(come, "payments")
  <2>1. <<"payments", p.id>> \in come
    BY <1>1
  <2>. QED  BY ONLY <2>1, IdsOfPair
<1>4. /\ IsTable(books'["payments"])
      /\ Moves(books["payments"], books'["payments"], IdsOf(come, "payments"), IdsOf({}, "payments"))
  <2>1. IsTable(books["payments"])
    BY <1>2 DEF Stored
  <2>2. IsTable(Inserted(books["payments"], p, TRUE))
    BY ONLY <1>1, <2>1, InsertTable
  <2>3. Moves(books["payments"], Inserted(books["payments"], p, TRUE), IdsOf(come, "payments"),
              IdsOf({}, "payments"))
    BY ONLY <1>3, <2>1, InsertedMoves
  <2>. QED  BY <1>1, <2>2, <2>3
<1>5. /\ IsTable(books'["invoices"])
      /\ Moves(books["invoices"], books'["invoices"], IdsOf(come, "invoices"), IdsOf({}, "invoices"))
  <2>1. CASE books'["invoices"] = books["invoices"]
    BY <1>2, <2>1, Stays DEF Stored
  <2>2. ASSUME NEW i \in DOMAIN books["invoices"], NEW r, "id" \in DOMAIN r,
               r.id = books["invoices"][i].id,
               books'["invoices"] = [books["invoices"] EXCEPT ![i] = r]
        PROVE  <1>5!:
    BY <1>2, <2>2, ChangedTable, ChangedMoves DEF Stored
  <2>. QED  BY <2>1, <2>2
<1>6. \A entity \in {"lines", "orders"} :
         /\ IsTable(books'[entity])
         /\ Moves(books[entity], books'[entity], IdsOf(come, entity), IdsOf({}, entity))
  BY <1>2, Stays DEF Stored
<1>. QED  BY <1>4, <1>5, <1>6 DEF BooksInv, BooksMove, Stored

LEMMA SettleMoves ==
  ASSUME BooksInv, NEW i \in DOMAIN books["invoices"], NEW amount, Settle(i, amount)
  PROVE  \E come, gone : Allowed(come, gone)
<1>1. PICK m : m = books["invoices"][i]
  OBVIOUS
<1>2. PICK state, p :
         /\ Changing({<<"payments", Fresh(books["payments"])>>}, {})
         /\ p = Received(m.customer, amount)
         /\ books' = [books EXCEPT !.payments = p, !.invoices[i].residual = @ - amount,
                                   !.invoices[i].state = state]
  BY <1>1 DEF Settle
<1>3. PICK r : r = [m EXCEPT !.residual = @ - amount, !.state = state]
  OBVIOUS
<1>4. IsTable(books["invoices"])
  BY DEF BooksInv, Stored
<1>5. "id" \in DOMAIN r /\ r.id = m.id
  BY <1>1, <1>3, <1>4 DEF IsTable
<1>6. /\ Stored \subseteq DOMAIN books' /\ books'["payments"] = p
      /\ \A entity \in {"lines", "orders"} : books'[entity] = books[entity]
  BY <1>2 DEF BooksInv, Stored
<1>7. books'["invoices"] = [books["invoices"] EXCEPT ![i] = r]
  BY <1>1, <1>2, <1>3 DEF BooksInv, Stored
<1>8. PICK come : come = {<<"payments", Fresh(books["payments"])>>}
  OBVIOUS
<1>9. BooksInv' /\ BooksMove(come, {})
  <2>1. \E j \in DOMAIN books["invoices"] : \E x :
           /\ "id" \in DOMAIN x /\ x.id = books["invoices"][j].id
           /\ books'["invoices"] = [books["invoices"] EXCEPT ![j] = x]
    BY <1>1, <1>5, <1>7
  <2>2. books'["payments"] = Received(m.customer, amount)
    BY <1>2, <1>6
  <2>. QED  BY <1>6, <1>8, <2>1, <2>2, ReceiptMoves
<1>. QED  BY <1>2, <1>8, <1>9 DEF Allowed

LEMMA AdvanceMoves ==
  ASSUME BooksInv, NEW name, NEW amount, Advance(name, amount)
  PROVE  \E come, gone : Allowed(come, gone)
<1>1. PICK p : /\ Changing({<<"payments", Fresh(books["payments"])>>}, {})
               /\ p = Received(name, amount)
               /\ books' = [books EXCEPT !.payments = p]
  BY DEF Advance
<1>2. /\ Stored \subseteq DOMAIN books' /\ books'["payments"] = p
      /\ \A entity \in {"lines", "orders", "invoices"} : books'[entity] = books[entity]
  BY <1>1 DEF BooksInv, Stored
<1>. QED  BY <1>1, <1>2, ReceiptMoves DEF Allowed

LEMMA CreditMoves ==
  ASSUME BooksInv, NEW i \in DOMAIN books["invoices"], CreditNote(i)
  PROVE  \E come, gone : Allowed(come, gone)
<1>1. PICK m : m = books["invoices"][i]
  OBVIOUS
<1>2. PICK state :
         /\ Changing({}, {})
         /\ books' = [books EXCEPT !.invoices[i].residual = 0, !.invoices[i].state = state]
  BY <1>1 DEF CreditNote
<1>3. PICK r : r = [m EXCEPT !.residual = 0, !.state = state]
  OBVIOUS
<1>4. \A entity \in Stored : IsTable(books[entity])
  BY DEF BooksInv
<1>5. "id" \in DOMAIN r /\ r.id = m.id
  BY <1>1, <1>3, <1>4 DEF IsTable, Stored
<1>6. /\ Stored \subseteq DOMAIN books'
      /\ \A entity \in Stored \ {"invoices"} : books'[entity] = books[entity]
  BY <1>2 DEF BooksInv, Stored
<1>7. books'["invoices"] = [books["invoices"] EXCEPT ![i] = r]
  BY <1>1, <1>2, <1>3 DEF BooksInv, Stored
<1>8. BooksInv'
  BY <1>1, <1>4, <1>5, <1>6, <1>7, ChangedTable DEF BooksInv, Stored
<1>9. \A entity \in Stored : Moves(books[entity], books'[entity], IdsOf({}, entity), IdsOf({}, entity))
  BY <1>1, <1>4, <1>5, <1>6, <1>7, ChangedMoves, Stays DEF Stored
<1>. QED  BY <1>2, <1>6, <1>8, <1>9 DEF Allowed, BooksMove, Stored

LEMMA UnpostMoves ==
  ASSUME BooksInv, NEW i \in DOMAIN books["invoices"], Unpost(i)
  PROVE  \E come, gone : Allowed(come, gone)
<1>1. PICK m, gone : m = books["invoices"][i] /\ gone = {<<"invoices", m.id>>}
  OBVIOUS
<1>2. Changing({}, gone) /\ books' = [books EXCEPT !.invoices = Without(@, {m})]
  BY <1>1 DEF Unpost
<1>3. IdsOf(gone, "invoices") # {}
  <2>1. <<"invoices", m.id>> \in gone
    BY <1>1
  <2>2. m.id \in IdsOf(gone, "invoices")
    BY ONLY <2>1, IdsOfPair
  <2>. QED  BY <2>2
<1>4. \A entity \in Stored : IsTable(books[entity])
  BY DEF BooksInv
<1>5. /\ Stored \subseteq DOMAIN books' /\ books'["invoices"] = Without(books["invoices"], {m})
      /\ \A entity \in Stored \ {"invoices"} : books'[entity] = books[entity]
  BY <1>2 DEF BooksInv, Stored
<1>6. BooksInv'
  BY <1>4, <1>5, FilterTable DEF BooksInv, Stored
<1>7. \A entity \in Stored : Moves(books[entity], books'[entity], IdsOf({}, entity), IdsOf(gone, entity))
  BY <1>3, <1>4, <1>5, Filtered, Stays DEF Stored
<1>. QED  BY <1>2, <1>5, <1>6, <1>7 DEF Allowed, BooksMove, Stored

LEMMA SellMoves ==
  ASSUME BooksInv, NEW name, NEW product, Sell(name, product)
  PROVE  \E come, gone : Allowed(come, gone)
<1>1. PICK o, l :
         /\ o.id = Fresh(books["orders"]) /\ "id" \in DOMAIN o
         /\ l.id = Fresh(books["lines"]) /\ "id" \in DOMAIN l
         /\ Changing({<<"orders", o.id>>, <<"lines", l.id>>}, {})
         /\ books' = [books EXCEPT !.orders = Append(@, o), !.lines = Append(@, l)]
  BY DEF Sell
<1>2. PICK come : come = {<<"orders", o.id>>, <<"lines", l.id>>}
  OBVIOUS
<1>3. o.id \in IdsOf(come, "orders") /\ l.id \in IdsOf(come, "lines")
  <2>1. <<"orders", o.id>> \in come /\ <<"lines", l.id>> \in come
    BY <1>2
  <2>2. o.id \in IdsOf(come, "orders")
    BY ONLY <2>1, IdsOfPair
  <2>3. l.id \in IdsOf(come, "lines")
    BY ONLY <2>1, IdsOfPair
  <2>. QED  BY <2>2, <2>3
<1>4. \A entity \in Stored : IsTable(books[entity])
  BY DEF BooksInv
<1>5. /\ Stored \subseteq DOMAIN books'
      /\ books'["orders"] = Append(books["orders"], o) /\ books'["lines"] = Append(books["lines"], l)
      /\ \A entity \in {"invoices", "payments"} : books'[entity] = books[entity]
  BY <1>1 DEF BooksInv, Stored
<1>6. /\ books'["orders"] = Inserted(books["orders"], o, FALSE)
      /\ books'["lines"] = Inserted(books["lines"], l, FALSE)
  BY <1>5 DEF Inserted
<1>7. BooksInv'
  BY <1>1, <1>4, <1>5, <1>6, InsertTable DEF BooksInv, Stored
<1>8. \A entity \in Stored : Moves(books[entity], books'[entity], IdsOf(come, entity), IdsOf({}, entity))
  BY <1>3, <1>4, <1>5, <1>6, InsertedMoves, Stays DEF Stored
<1>. QED  BY <1>1, <1>2, <1>3, <1>5, <1>7, <1>8 DEF Allowed, BooksMove, Stored

LEMMA WithdrawMoves ==
  ASSUME BooksInv, NEW i \in DOMAIN books["orders"], Withdraw(i)
  PROVE  \E come, gone : Allowed(come, gone)
<1>1. PICK o, lines, gone :
         /\ gone = {<<"lines", l.id>> : l \in lines} \cup {<<"orders", o.id>>}
         /\ Changing({}, gone)
         /\ books' = [books EXCEPT !.orders = Without(@, {o}), !.lines = Without(@, lines)]
  BY DEF Withdraw
<1>2. IdsOf(gone, "orders") # {} /\ (lines = {} \/ IdsOf(gone, "lines") # {})
  <2>1. o.id \in IdsOf(gone, "orders") /\ \A l \in lines : l.id \in IdsOf(gone, "lines")
    BY <1>1, IdsOfPair
  <2>. QED  BY <2>1
<1>3. \A entity \in Stored : IsTable(books[entity])
  BY DEF BooksInv
<1>4. /\ Stored \subseteq DOMAIN books'
      /\ books'["orders"] = Without(books["orders"], {o})
      /\ books'["lines"] = Without(books["lines"], lines)
      /\ \A entity \in {"invoices", "payments"} : books'[entity] = books[entity]
  BY <1>1 DEF BooksInv, Stored
<1>5. BooksInv'
  BY <1>3, <1>4, FilterTable DEF BooksInv, Stored
<1>6. \A entity \in Stored : Moves(books[entity], books'[entity], IdsOf({}, entity), IdsOf(gone, entity))
  BY <1>2, <1>3, <1>4, Filtered, Stays DEF Stored
<1>. QED  BY <1>1, <1>2, <1>4, <1>5, <1>6 DEF Allowed, BooksMove, Stored

LEMMA ChangeIsAllowed ==
  ASSUME BooksInv, Change
  PROVE  \E come, gone : Allowed(come, gone)
<1>1. CASE NextDay
  <2>1. Changing({}, {}) /\ books' = books
    BY <1>1 DEF NextDay
  <2>2. \A entity \in Stored : IsTable(books[entity])
    BY DEF BooksInv
  <2>3. \A entity \in Stored : Moves(books[entity], books'[entity], IdsOf({}, entity), IdsOf({}, entity))
    BY <2>1, <2>2, Stays
  <2>. QED  BY <2>1, <2>3 DEF Allowed, BooksMove, BooksInv
<1>. QED  BY <1>1, PostMoves, SettleMoves, AdvanceMoves, CreditMoves, UnpostMoves, SellMoves,
             WithdrawMoves DEF Change


-----------------------------------------------------------------------------
(***************************************************************************)
(* Paging.                                                                 *)
(***************************************************************************)

\* What is known of the rows read so far and of the table as it is by now: if
\* nothing appeared, no row is repeated, nor will be; if nothing disappeared,
\* what is before the offset was read or appeared.
Paged(rows, offset, grew, shrank, table) ==
    /\ grew = {} =>
          /\ Distinct(rows)
          /\ \A i \in DOMAIN table : i > offset => table[i].id \notin Ids(rows)
    /\ shrank = {} =>
          \A i \in DOMAIN table : i <= offset => table[i].id \in Ids(rows) \cup grew

PagingInv ==
    job # None /\ job.todo # <<>> => \A entity \in Entities :
        entity = job.todo[1] =>
            Paged(job.rows, job.offset, job.grew, job.shrank, Table(entity))

LEMMA PagedMoves ==
  ASSUME NEW rows, NEW offset \in Nat, NEW grew, NEW shrank, NEW before, NEW after, NEW come, NEW gone,
         Paged(rows, offset, grew, shrank, before), Moves(before, after, come, gone),
         DOMAIN before \subseteq Nat, DOMAIN after \subseteq Nat
  PROVE  Paged(rows, offset, grew \cup come, shrank \cup gone, after)
<1>1. ASSUME grew \cup come = {}
      PROVE  /\ Distinct(rows)
             /\ \A i \in DOMAIN after : i > offset => after[i].id \notin Ids(rows)
  <2>1. grew = {} /\ MovesUp(before, after)
    BY <1>1 DEF Moves
  <2>2. ASSUME NEW i \in DOMAIN after, i > offset
        PROVE  after[i].id \notin Ids(rows)
    <3>1. PICK j \in DOMAIN before : i <= j /\ after[i].id = before[j].id
      BY <2>1 DEF MovesUp
    <3>2. j > offset
      BY <2>2, <3>1
    <3>. QED  BY <2>1, <3>1, <3>2 DEF Paged
  <2>. QED  BY <2>1, <2>2 DEF Paged
<1>2. ASSUME shrank \cup gone = {}, NEW i \in DOMAIN after, i <= offset
      PROVE  after[i].id \in Ids(rows) \cup (grew \cup come)
  <2>1. shrank = {} /\ MovesDown(before, after, come)
    BY <1>2 DEF Moves
  <2>2. ASSUME NEW j \in DOMAIN before, j <= i, after[i].id = before[j].id
        PROVE  after[i].id \in Ids(rows) \cup grew
    <3>1. j <= offset
      BY <1>2, <2>2
    <3>. QED  BY <2>1, <2>2, <3>1 DEF Paged
  <2>. QED  BY <2>1, <2>2 DEF MovesDown
<1>. QED  BY <1>1, <1>2 DEF Paged

\* A page of a table.
LEMMA LeastOfTwo ==
  ASSUME NEW a \in Nat, NEW b \in Nat
  PROVE  Least({a, b}) = IF a <= b THEN a ELSE b
<1>1. PICK c : c \in {a, b} /\ \A d \in {a, b} : c <= d
  <2>1. CASE a <= b
    BY <2>1
  <2>2. CASE b <= a
    BY <2>2
  <2>. QED  BY <2>1, <2>2
<1>. DEFINE l == Least({a, b})
<1>2. l \in {a, b} /\ \A d \in {a, b} : l <= d
  BY <1>1 DEF Least
<1>. HIDE DEF l
<1>3. l = IF a <= b THEN a ELSE b
  BY <1>2
<1>. QED  BY <1>3 DEF l

IsPage(page, table, offset, size) ==
    /\ page \in Seq(ToSet(table))
    /\ \A k \in DOMAIN page : /\ k \in 1..size /\ offset + k \in DOMAIN table
                             /\ page[k] = table[offset + k]
    /\ \A i \in DOMAIN table : offset < i /\ i <= offset + size => i - offset \in DOMAIN page
    /\ Len(page) # size => \A i \in DOMAIN table : i <= offset + size

LEMMA SliceIs ==
  ASSUME NEW E, NEW list \in Seq(E), NEW a \in Nat, NEW b \in Nat, b <= Len(list)
  PROVE  /\ SubSeq(list, a + 1, b) \in Seq(E)
         /\ Len(SubSeq(list, a + 1, b)) = IF a < b THEN b - a ELSE 0
         /\ \A k \in 1..(b - a) : SubSeq(list, a + 1, b)[k] = list[a + k]
<1>1. \A i \in a + 1 .. b : list[i] \in E
  OBVIOUS
<1>2. a + 1 \in Int /\ b \in Int
  OBVIOUS
<1>. DEFINE part == SubSeq(list, a + 1, b)
<1>3. /\ part \in Seq(E)
      /\ Len(part) = IF a + 1 <= b THEN b - (a + 1) + 1 ELSE 0
      /\ \A k \in 1 .. b - (a + 1) + 1 : part[k] = list[a + 1 + k - 1]
  BY ONLY <1>1, <1>2, SubSeqProperties
<1>. HIDE DEF part
<1>4. \A k \in 1..(b - a) : a + 1 + k - 1 = a + k /\ k \in 1 .. b - (a + 1) + 1
  OBVIOUS
<1>5. Len(part) = IF a < b THEN b - a ELSE 0
  BY <1>3
<1>. QED  BY <1>3, <1>4, <1>5 DEF part

LEMMA PageIs ==
  ASSUME NEW table, IsTable(table), NEW offset \in Nat, NEW size, size \in Nat \ {0}
  PROVE  IsPage(SubSeq(table, offset + 1, Least({offset + size, Len(table)})), table, offset, size)
<1>1. PICK E : E = ToSet(table) /\ table \in Seq(E)
  BY DEF IsTable
<1>2. PICK l, top : l = Len(table) /\ top = offset + size
  OBVIOUS
<1>3. l \in Nat /\ top \in Nat /\ top > offset /\ DOMAIN table = 1..l
  BY <1>1, <1>2
<1>4. PICK last : last = Least({top, l})
  OBVIOUS
<1>5. last \in Nat /\ last = IF top <= l THEN top ELSE l
  BY <1>3, <1>4, LeastOfTwo
<1>6. last <= l
  BY <1>3, <1>5
<1>7. PICK page : page = SubSeq(table, offset + 1, last)
  OBVIOUS
<1>8. /\ page \in Seq(E)
      /\ Len(page) = IF offset < last THEN last - offset ELSE 0
      /\ \A k \in 1..(last - offset) : page[k] = table[offset + k]
  <2>1. last \in Nat /\ last <= Len(table)
    BY <1>2, <1>5, <1>6
  <2>. QED  BY ONLY <1>1, <1>7, <2>1, offset \in Nat, SliceIs
<1>9. DOMAIN page = 1..Len(page)
  BY <1>8
<1>10. ASSUME NEW k \in DOMAIN page
       PROVE  k \in 1..size /\ offset + k \in DOMAIN table /\ page[k] = table[offset + k]
  <2>1. k \in 1..(last - offset)
    BY <1>5, <1>8, <1>9
  <2>2. k \in 1..size /\ offset + k \in 1..l
    BY <1>2, <1>3, <1>5, <1>6, <2>1
  <2>. QED  BY <1>3, <1>8, <2>1, <2>2
<1>11. ASSUME NEW i \in DOMAIN table, offset < i, i <= top
       PROVE  i - offset \in DOMAIN page
  <2>1. i \in 1..l /\ i <= last
    BY <1>3, <1>5, <1>11
  <2>. QED  BY <1>5, <1>8, <1>9, <1>11, <2>1
<1>12. ASSUME Len(page) # size, NEW i \in DOMAIN table
       PROVE  i <= top
  <2>1. CASE top <= l
    BY <1>2, <1>3, <1>5, <1>8, <1>12, <2>1
  <2>2. CASE l < top
    BY <1>3, <2>2
  <2>. QED  BY <1>3, <2>1, <2>2
<1>13. IsPage(page, table, offset, size)
  BY <1>1, <1>2, <1>8, <1>10, <1>11, <1>12 DEF IsPage
<1>. QED  BY ONLY <1>2, <1>4, <1>7, <1>13

LEMMA PagedRead ==
  ASSUME NEW rows, NEW offset \in Nat, NEW grew, NEW shrank, NEW table, NEW size \in Nat,
         Paged(rows, offset, grew, shrank, table), IsTable(table), rows \in Seq(ToSet(rows)),
         NEW page, IsPage(page, table, offset, size), NEW more, more = rows \o page
  PROVE  /\ Paged(more, offset + size, grew, shrank, table)
         /\ more \in Seq(ToSet(more))
<1>1. PICK E : E = ToSet(rows) \cup ToSet(table)
  OBVIOUS
<1>2. rows \in Seq(E) /\ table \in Seq(E) /\ Distinct(table)
  BY <1>1 DEF IsTable, Distinct
<1>3. /\ page \in Seq(E)
      /\ \A k \in DOMAIN page : /\ k \in 1..size /\ offset + k \in DOMAIN table
                                /\ page[k] = table[offset + k]
      /\ \A i \in DOMAIN table : offset < i /\ i <= offset + size => i - offset \in DOMAIN page
  BY <1>1, <1>2 DEF IsPage
<1>4. PICK l \in Nat, m \in Nat : l = Len(rows) /\ m = Len(page)
  BY <1>2, <1>3
<1>5. /\ more \in Seq(E) /\ DOMAIN more = 1..(l + m)
      /\ DOMAIN rows = 1..l /\ DOMAIN page = 1..m
      /\ \A i \in 1..l : more[i] = rows[i]
      /\ \A k \in 1..m : more[l + k] = page[k]
  BY <1>2, <1>3, <1>4
<1>6. \A i \in DOMAIN more : i \in 1..l \/ \E k \in 1..m : i = l + k
  <2>1. ASSUME NEW i \in DOMAIN more, i \notin 1..l
        PROVE  \E k \in 1..m : i = l + k
    <3>1. i - l \in 1..m /\ i = l + (i - l)
      BY <1>5, <2>1
    <3>. QED  BY <3>1
  <2>. QED  BY <2>1
<1>7. Ids(more) = Ids(rows) \cup Ids(page)
  <2>1. ASSUME NEW i \in DOMAIN more
        PROVE  more[i].id \in Ids(rows) \cup Ids(page)
    <3>1. CASE i \in 1..l
      BY <1>5, <3>1 DEF Ids
    <3>2. ASSUME NEW k \in 1..m, i = l + k
          PROVE  more[i].id \in Ids(page)
      BY <1>5, <3>2 DEF Ids
    <3>. QED  BY <1>6, <3>1, <3>2
  <2>2. ASSUME NEW i \in DOMAIN rows
        PROVE  rows[i].id \in Ids(more)
    BY <1>5, <2>2 DEF Ids
  <2>3. ASSUME NEW k \in DOMAIN page
        PROVE  page[k].id \in Ids(more)
    <3>1. l + k \in DOMAIN more /\ more[l + k] = page[k]
      BY <1>5, <2>3
    <3>. QED  BY <3>1 DEF Ids
  <2>4. Ids(rows) \subseteq Ids(more) /\ Ids(page) \subseteq Ids(more)
    BY <2>2, <2>3 DEF Ids
  <2>5. Ids(more) \subseteq Ids(rows) \cup Ids(page)
    BY <2>1 DEF Ids
  <2>. QED  BY <2>4, <2>5
<1>8. ASSUME grew = {}
      PROVE  /\ Distinct(more)
             /\ \A i \in DOMAIN table : i > offset + size => table[i].id \notin Ids(more)
  <2>1. /\ Distinct(rows)
        /\ \A i \in DOMAIN table : i > offset => table[i].id \notin Ids(rows)
    BY <1>8 DEF Paged
  <2>2. ASSUME NEW k \in DOMAIN page
        PROVE  page[k].id \notin Ids(rows)
    <3>1. offset + k > offset /\ offset + k \in DOMAIN table /\ page[k] = table[offset + k]
      BY <1>3, <2>2
    <3>. QED  BY <2>1, <3>1
  <2>3. Distinct(page)
    <3>. SUFFICES ASSUME NEW j \in DOMAIN page, NEW k \in DOMAIN page, page[j].id = page[k].id
                  PROVE  j = k
      BY DEF Distinct
    <3>1. /\ j \in Nat /\ k \in Nat
          /\ offset + j \in DOMAIN table /\ offset + k \in DOMAIN table
          /\ table[offset + j].id = table[offset + k].id
      BY <1>3
    <3>2. offset + j = offset + k
      BY ONLY <1>2, <3>1 DEF Distinct
    <3>. QED  BY ONLY <3>1, <3>2, offset \in Nat
  <2>4. Distinct(more)
    <3>. SUFFICES ASSUME NEW i \in DOMAIN more, NEW j \in DOMAIN more, more[i].id = more[j].id
                  PROVE  i = j
      BY DEF Distinct
    <3>1. CASE i \in 1..l /\ j \in 1..l
      BY <1>5, <2>1, <3>1 DEF Distinct
    <3>2. ASSUME NEW k \in 1..m, i = l + k, j \in 1..l
          PROVE  FALSE
      <4>1. k \in DOMAIN page /\ page[k].id = rows[j].id /\ j \in DOMAIN rows
        BY <1>5, <3>2
      <4>2. rows[j].id \in Ids(rows)
        BY <4>1 DEF Ids
      <4>. QED  BY <2>2, <4>1, <4>2
    <3>3. ASSUME NEW k \in 1..m, j = l + k, i \in 1..l
          PROVE  FALSE
      <4>1. k \in DOMAIN page /\ page[k].id = rows[i].id /\ i \in DOMAIN rows
        BY <1>5, <3>3
      <4>2. rows[i].id \in Ids(rows)
        BY <4>1 DEF Ids
      <4>. QED  BY <2>2, <4>1, <4>2
    <3>4. ASSUME NEW k \in 1..m, i = l + k, NEW n \in 1..m, j = l + n
          PROVE  i = j
      <4>1. page[k].id = page[n].id
        BY <1>5, <3>4
      <4>2. k = n
        BY <1>5, <2>3, <4>1 DEF Distinct
      <4>. QED  BY <3>4, <4>2
    <3>. QED  BY <1>6, <3>1, <3>2, <3>3, <3>4
  <2>5. ASSUME NEW i \in DOMAIN table, i > offset + size
        PROVE  table[i].id \notin Ids(more)
    <3>1. table[i].id \notin Ids(rows)
      <4>1. i > offset
        BY <1>2, <2>5
      <4>. QED  BY <2>1, <4>1
    <3>2. ASSUME NEW k \in DOMAIN page, page[k].id = table[i].id
          PROVE  FALSE
      <4>1. offset + k \in DOMAIN table /\ table[offset + k].id = table[i].id /\ k \in 1..size
        BY <1>3, <3>2
      <4>2. offset + k = i
        BY <1>2, <4>1 DEF Distinct
      <4>. QED  BY <2>5, <4>1, <4>2
    <3>. QED  BY <1>7, <3>1, <3>2 DEF Ids
  <2>. QED  BY <2>4, <2>5
<1>9. ASSUME shrank = {}, NEW i \in DOMAIN table, i <= offset + size
      PROVE  table[i].id \in Ids(more) \cup grew
  <2>1. i \in Nat
    BY <1>2
  <2>2. CASE i <= offset
    BY <1>7, <1>9, <2>2 DEF Paged
  <2>3. CASE offset < i
    <3>1. i - offset \in DOMAIN page
      BY <1>3, <1>9, <2>3
    <3>2. page[i - offset] = table[i]
      <4>1. offset + (i - offset) = i
        BY <2>1
      <4>. QED  BY <1>3, <3>1, <4>1
    <3>. QED  BY <1>7, <3>1, <3>2 DEF Ids
  <2>. QED  BY <2>1, <2>2, <2>3
<1>10. more \in Seq(ToSet(more))
  <2>1. more \in Seq(E) /\ \A i \in DOMAIN more : more[i] \in ToSet(more)
    BY <1>5 DEF ToSet
  <2>. QED  BY ONLY <2>1
<1>. QED  BY <1>8, <1>9, <1>10 DEF Paged


\* What a report reads is a table.
LEMMA TableIsTable ==
  ASSUME BooksInv, NEW entity \in Entities
  PROVE  IsTable(Table(entity))
<1>1. CASE entity \in {"customers", "products"}
  BY <1>1, LiveAssumption DEF Table
<1>2. CASE entity \in Stored \ {"orders"}
  <2>1. Table(entity) = books[entity]
    BY <1>2 DEF Table, Stored
  <2>. QED  BY <1>2, <2>1 DEF BooksInv
<1>3. CASE entity = "orders"
  <2>1. PICK gone : Table(entity) = Without(books["orders"], gone)
    BY <1>3 DEF Table
  <2>2. IsTable(books["orders"])
    BY DEF BooksInv, Stored
  <2>. QED  BY <2>1, <2>2, FilterTable
<1>. QED  BY <1>1, <1>2, <1>3 DEF Entities, Stored

TablesAreTables == \A entity \in Entities : IsTable(Table(entity))

LEMMA AllTables == BooksInv => TablesAreTables
BY TableIsTable DEF TablesAreTables

-----------------------------------------------------------------------------
(***************************************************************************)
(* The steps of a report.                                                  *)
(***************************************************************************)

PagesInv == BooksInv /\ JobInv /\ PagingInv

\* At the start of a table nothing has been read.
LEMMA NothingPaged ==
  ASSUME NEW table, DOMAIN table \subseteq Nat \ {0}
  PROVE  Paged(<<>>, 0, {}, {}, table)
<1>1. Ids(<<>>) = {} /\ Distinct(<<>>)
  BY DEF Ids, Distinct
<1>2. \A i \in DOMAIN table : ~(i <= 0)
  OBVIOUS
<1>. QED  BY <1>1, <1>2 DEF Paged

\* A report that begins a table.
LEMMA Beginning ==
  ASSUME BooksInv', JobInv',
         job' # None /\ job'.todo # <<>> => /\ job'.rows = <<>> /\ job'.offset = 0
                                           /\ job'.grew = {} /\ job'.shrank = {}
  PROVE  PagingInv'
<1>. SUFFICES ASSUME job' # None, job'.todo # <<>>, NEW entity \in Entities
              PROVE  Paged(job'.rows, job'.offset, job'.grew, job'.shrank, Table(entity)')
  BY DEF PagingInv
<1>1. TablesAreTables'
  BY AllTables, PTL
<1>2. PICK table : table = Table(entity)'
  OBVIOUS
<1>3. IsTable(table)
  BY <1>1, <1>2 DEF TablesAreTables
<1>4. DOMAIN table \subseteq Nat \ {0}
  BY <1>3 DEF IsTable
<1>5. Paged(<<>>, 0, {}, {}, table)
  BY <1>4, NothingPaged
<1>. QED  BY <1>2, <1>5

\* What a tool reads is a list of tables.
LEMMA ReadsAreEntities ==
  ASSUME NEW r \in Requests
  PROVE  Reads(r) \in Seq(Entities)
<1>1. r.kind \in Kinds
  BY LiveAssumption
<1>2. SaleReads \in Seq(Entities)
  BY DEF SaleReads, Entities
<1>3. /\ <<"customers", "invoices">> \in Seq(Entities)
      /\ <<"customers", "invoices", "payments", "customers", "invoices">> \in Seq(Entities)
      /\ <<"customers", "payments">> \in Seq(Entities)
      /\ <<"invoices">> \in Seq(Entities)
      /\ <<"invoices", "invoices">> \in Seq(Entities)
  BY DEF Entities
<1>4. /\ <<"products">> \in Seq(Entities)
      /\ <<"invoices", "payments">> \in Seq(Entities)
      /\ <<"invoices", "invoices", "invoices">> \in Seq(Entities)
      /\ <<"products", "customers", "products">> \in Seq(Entities)
  BY DEF Entities
<1>5. \A a, b \in Seq(Entities) : a \o b \in Seq(Entities)
  OBVIOUS
<1>6. SaleReads \o <<"products">> \in Seq(Entities) /\ SaleReads \o SaleReads \in Seq(Entities)
  BY <1>2, <1>4, <1>5
<1>7. <<"customers", "invoices">> \o SaleReads \o <<"invoices", "payments">> \in Seq(Entities)
  BY <1>2, <1>3, <1>4, <1>5
<1>8. SaleReads \o <<"invoices", "invoices", "invoices">> \o SaleReads
        \o <<"products", "customers", "products">> \in Seq(Entities)
  <2>1. SaleReads \o <<"invoices", "invoices", "invoices">> \in Seq(Entities)
    BY <1>2, <1>4, <1>5
  <2>2. SaleReads \o <<"invoices", "invoices", "invoices">> \o SaleReads \in Seq(Entities)
    BY <1>2, <1>5, <2>1
  <2>. QED  BY <1>4, <1>5, <2>2
<1>9. SaleReads \o SaleReads \o <<"invoices", "invoices", "invoices">>
        \o SaleReads \o SaleReads \o <<"products">> \in Seq(Entities)
  <2>1. SaleReads \o SaleReads \o <<"invoices", "invoices", "invoices">> \in Seq(Entities)
    BY <1>4, <1>5, <1>6
  <2>2. SaleReads \o SaleReads \o <<"invoices", "invoices", "invoices">> \o SaleReads \in Seq(Entities)
    BY <1>2, <1>5, <2>1
  <2>3. SaleReads \o SaleReads \o <<"invoices", "invoices", "invoices">>
          \o SaleReads \o SaleReads \in Seq(Entities)
    BY <1>2, <1>5, <2>2
  <2>. QED  BY <1>4, <1>5, <2>3
<1>10. CASE r.kind \in {"balance", "summary", "statement", "payment_history", "top_debtors", "overdue",
                        "unpaid", "collections"}
  BY <1>3, <1>10 DEF Reads
<1>11. CASE r.kind = "sales_summary"
  BY <1>2, <1>11 DEF Reads
<1>12. CASE r.kind = "top_products"
  BY <1>6, <1>12 DEF Reads
<1>13. CASE r.kind = "product_insights"
  BY <1>6, <1>13 DEF Reads
<1>14. CASE r.kind = "customer_insights"
  BY <1>7, <1>14 DEF Reads
<1>15. CASE r.kind = "dashboard"
  BY <1>8, <1>15 DEF Reads
<1>16. CASE r.kind = "alerts"
  BY <1>9, <1>16 DEF Reads
<1>. QED  BY <1>1, <1>10, <1>11, <1>12, <1>13, <1>14, <1>15, <1>16 DEF Kinds

LEMMA AskPages ==
  ASSUME PagesInv, NEW r \in Requests, Ask(r)
  PROVE  PagesInv'
<1>1. BooksInv'
  BY DEF Ask, PagesInv, BooksInv
<1>2. /\ job'.todo = Reads(r) /\ job'.got = <<>> /\ job'.rows = <<>> /\ job'.offset = 0
      /\ job'.grew = {} /\ job'.shrank = {} /\ DOMAIN job' = JobFields
  BY DEF Ask, JobFields
<1>3. JobInv'
  BY <1>2, ReadsAreEntities DEF JobInv
<1>4. PagingInv'
  BY <1>1, <1>2, <1>3, Beginning
<1>. QED  BY <1>1, <1>3, <1>4 DEF PagesInv

LEMMA ChangedTodo ==
  ASSUME NEW come, NEW gone, Changing(come, gone), JobInv, job # None
  PROVE  job'.todo = job.todo /\ job'.got = job.got
<1>1. PICK c, g : c = OfTable(come) /\ g = OfTable(gone)
  OBVIOUS
<1>2. job' = [job EXCEPT !.moved = TRUE, !.grew = @ \cup c, !.shrank = @ \cup g]
  BY <1>1 DEF Changing
<1>. QED  BY <1>2 DEF JobInv, JobFields

LEMMA ChangePages ==
  ASSUME PagesInv, Change
  PROVE  PagesInv'
<1>1. PICK come, gone : Allowed(come, gone)
  BY ChangeIsAllowed DEF PagesInv
<1>2. BooksInv /\ JobInv /\ BooksInv' /\ Changing(come, gone) /\ BooksMove(come, gone)
  BY <1>1 DEF Allowed, PagesInv
<1>3. JobInv' /\ (job' # None => job # None)
  BY <1>2, ChangedJobInv
<1>4. ASSUME job' # None, job'.todo # <<>>, NEW entity \in Entities, entity = job'.todo[1]
      PROVE  Paged(job'.rows, job'.offset, job'.grew, job'.shrank, Table(entity)')
  <2>1. job # None /\ job'.todo = job.todo
    <3>1. job # None
      BY <1>3, <1>4
    <3>. QED  BY <1>2, <3>1, ChangedTodo
  <2>2. entity = job.todo[1] /\ job.todo # <<>>
    BY <1>4, <2>1
  <2>4. /\ job'.rows = job.rows /\ job'.offset = job.offset
        /\ job'.grew = job.grew \cup IdsOf(come, entity)
        /\ job'.shrank = job.shrank \cup IdsOf(gone, entity)
    BY <1>2, <2>1, <2>2, ChangedJob
  <2>5. Moves(Table(entity), Table(entity)', IdsOf(come, entity), IdsOf(gone, entity))
    BY <1>2, <2>1, <2>2, TablesMove
  <2>6. PICK before, after : before = Table(entity) /\ after = Table(entity)'
    OBVIOUS
  <2>7. IsTable(before) /\ IsTable(after)
    <3>1. TablesAreTables'
      BY <1>2, AllTables, PTL
    <3>2. IsTable(Table(entity)')
      BY <3>1 DEF TablesAreTables
    <3>. QED  BY <1>2, <2>6, <3>2, TableIsTable
  <2>8. DOMAIN before \subseteq Nat /\ DOMAIN after \subseteq Nat
    BY <2>7 DEF IsTable
  <2>9. Paged(job.rows, job.offset, job.grew, job.shrank, before) /\ job.offset \in Nat
    BY <1>2, <2>1, <2>2, <2>6 DEF PagesInv, PagingInv, JobInv
  <2>10. Paged(job.rows, job.offset, job.grew \cup IdsOf(come, entity),
               job.shrank \cup IdsOf(gone, entity), after)
    BY <2>5, <2>6, <2>8, <2>9, PagedMoves
  <2>. QED  BY <2>4, <2>6, <2>10
<1>5. PagingInv'
  BY <1>4 DEF PagingInv
<1>. QED  BY <1>2, <1>3, <1>5 DEF PagesInv


\* The page that is read is one of the table.
LEMMA PageOfTable ==
  ASSUME PagesInv, job # None, job.todo # <<>>, NEW entity, entity = job.todo[1]
  PROVE  /\ entity \in Entities /\ IsTable(Table(entity))
         /\ IsPage(Page(entity), Table(entity), job.offset, PAGE_SIZE)
<1>1. entity \in Entities /\ job.offset \in Nat
  BY DEF PagesInv, JobInv
<1>2. PICK table, offset : table = Table(entity) /\ offset = job.offset
  OBVIOUS
<1>3. IsTable(table) /\ offset \in Nat /\ PAGE_SIZE \in Nat \ {0}
  BY <1>1, <1>2, TableIsTable, LiveAssumption DEF PagesInv
<1>4. IsPage(SubSeq(table, offset + 1, Least({offset + PAGE_SIZE, Len(table)})), table, offset, PAGE_SIZE)
  BY ONLY <1>3, PageIs
<1>. QED  BY <1>1, <1>2, <1>3, <1>4 DEF Page

\* What is left of a list after its first entries.
LEMMA RestIs ==
  ASSUME NEW E, NEW list \in Seq(E), NEW n \in Nat
  PROVE  SubSeq(list, 2 + n, Len(list)) \in Seq(E)
<1>1. PICK l, m : l = Len(list) /\ m = 2 + n
  OBVIOUS
<1>2. \A i \in m .. l : list[i] \in E
  BY <1>1
<1>3. m \in Int /\ l \in Int
  BY <1>1
<1>4. SubSeq(list, m, l) \in Seq(E)
  BY ONLY <1>2, <1>3, SubSeqProperties
<1>. QED  BY <1>1, <1>4

\* A table is read to its end, and the next n reads are not made.
ReadOn(n, next) ==
    job' = [job EXCEPT !.todo = SubSeq(@, 2 + n, Len(@)),
                       !.got = Append(job.got, next) \o [i \in 1 .. n |-> <<>>],
                       !.rows = <<>>, !.offset = 0,
                       !.plain = FALSE, !.grew = {}, !.shrank = {}]

LEMMA ReadPagePages ==
  ASSUME PagesInv, ReadPage
  PROVE  PagesInv'
<1>1. /\ job # None /\ job.todo # <<>> /\ books' = books
      /\ BooksInv /\ JobInv /\ PagingInv
  BY DEF ReadPage, PagesInv
<1>2. BooksInv'
  BY <1>1 DEF BooksInv
<1>3. PICK entity, page, more : entity = job.todo[1] /\ page = Page(entity) /\ more = job.rows \o page
  OBVIOUS
<1>4. entity \in Entities /\ IsTable(Table(entity)) /\ IsPage(page, Table(entity), job.offset, PAGE_SIZE)
  BY <1>1, <1>3, PageOfTable
<1>5. Paged(job.rows, job.offset, job.grew, job.shrank, Table(entity)) /\ job.offset \in Nat
  BY <1>1, <1>3, <1>4 DEF PagingInv, JobInv
<1>6. /\ Paged(more, job.offset + PAGE_SIZE, job.grew, job.shrank, Table(entity))
      /\ more \in Seq(ToSet(more)) /\ job.offset + PAGE_SIZE \in Nat
  <2>1. PICK rows, offset, grew, shrank, table :
           /\ rows = job.rows /\ offset = job.offset /\ grew = job.grew /\ shrank = job.shrank
           /\ table = Table(entity)
    OBVIOUS
  <2>2. /\ Paged(rows, offset, grew, shrank, table) /\ offset \in Nat /\ PAGE_SIZE \in Nat
        /\ IsTable(table) /\ IsPage(page, table, offset, PAGE_SIZE) /\ more = rows \o page
        /\ rows \in Seq(ToSet(rows))
    BY <1>1, <1>3, <1>4, <1>5, <2>1, LiveAssumption DEF JobInv
  <2>3. Paged(more, offset + PAGE_SIZE, grew, shrank, table) /\ more \in Seq(ToSet(more))
    BY ONLY <2>2, PagedRead
  <2>. QED  BY <2>1, <2>2, <2>3
<1>7. CASE Len(page) = PAGE_SIZE
  <2>1. PICK since : job' = [job EXCEPT !.rows = more, !.offset = NextOffset(@), !.since = since]
    BY <1>3, <1>7 DEF ReadPage
  <2>2. /\ DOMAIN job' = JobFields /\ job'.todo = job.todo /\ job'.got = job.got
        /\ job'.rows = more /\ job'.offset = job.offset + PAGE_SIZE
        /\ job'.grew = job.grew /\ job'.shrank = job.shrank
    BY <1>1, <2>1 DEF JobInv, JobFields, NextOffset
  <2>3. JobInv'
    BY <1>1, <1>6, <2>2 DEF JobInv
  <2>4. Table(entity)' = Table(entity)
    BY <1>1, <2>2 DEF Table
  <2>5. PagingInv'
    BY <1>3, <1>6, <2>2, <2>4 DEF PagingInv
  <2>. QED  BY <1>2, <2>3, <2>5 DEF PagesInv
<1>8. CASE job' = None
  BY <1>2, <1>8 DEF PagesInv, JobInv, PagingInv
<1>9. CASE \E n \in Nat : \E next : ReadOn(n, next)
  <2>1. PICK n, next : n \in Nat /\ ReadOn(n, next)
    BY <1>9
  <2>2. PICK todo, got, none : /\ todo = SubSeq(job.todo, 2 + n, Len(job.todo))
                               /\ none = [i \in 1 .. n |-> <<>>]
                               /\ got = Append(job.got, next) \o none
    OBVIOUS
  <2>3. /\ DOMAIN job' = JobFields /\ job'.todo = todo /\ job'.got = got
        /\ job'.rows = <<>> /\ job'.offset = 0 /\ job'.grew = {} /\ job'.shrank = {}
    BY <1>1, <2>1, <2>2 DEF JobInv, JobFields, ReadOn
  <2>4. got \in Seq(ToSet(got))
    <3>1. PICK E : E = ToSet(job.got) \cup {next, <<>>}
      OBVIOUS
    <3>2. Append(job.got, next) \in Seq(E)
      <4>1. job.got \in Seq(E)
        BY <1>1, <3>1 DEF JobInv
      <4>. QED  BY <3>1, <4>1
    <3>3. none \in Seq(E)
      BY <2>1, <2>2, <3>1
    <3>4. got \in Seq(E)
      BY <2>1, <2>2, <3>2, <3>3
    <3>. QED  BY <3>4 DEF ToSet
  <2>5. todo \in Seq(Entities)
    BY <1>1, <2>1, <2>2, RestIs DEF JobInv
  <2>6. JobInv'
    <3>1. <<>> \in Seq(ToSet(<<>>))
      OBVIOUS
    <3>. QED  BY <2>3, <2>4, <2>5, <3>1 DEF JobInv
  <2>7. PagingInv'
    BY <1>2, <2>3, <2>6, Beginning
  <2>. QED  BY <1>2, <2>6, <2>7 DEF PagesInv
<1>10. Len(page) # PAGE_SIZE => job' = None \/ \E n \in Nat : \E next : ReadOn(n, next)
  <2>1. PICK since : since = IF job.offset = 0 THEN today ELSE job.since
    OBVIOUS
  <2>2. PICK next : next = Normalized(entity, more, since, job.plain)
    OBVIOUS
  <2>3. PICK n : n = Skipped(job.request, Append(job.got, next), Tail(job.todo))
    OBVIOUS
  <2>4. Len(page) # PAGE_SIZE => job' = None \/ ReadOn(n, next)
    BY <1>3, <2>1, <2>2, <2>3 DEF ReadPage, ReadOn
  <2>5. n \in Nat
    <3>1. Len(Tail(job.todo)) \in Nat
      BY <1>1 DEF JobInv
    <3>. QED  BY <2>3, <3>1 DEF Skipped
  <2>. QED  BY <2>4, <2>5
<1>. QED  BY <1>7, <1>8, <1>9, <1>10

LEMMA ReadFailsPages ==
  ASSUME PagesInv, ReadFails
  PROVE  PagesInv'
<1>1. /\ job # None /\ books' = books /\ BooksInv /\ JobInv
      /\ job' = Retried \/ job' = None
  BY DEF ReadFails, PagesInv
<1>2. BooksInv'
  BY <1>1 DEF BooksInv
<1>3. CASE job' = None
  BY <1>2, <1>3 DEF PagesInv, JobInv, PagingInv
<1>4. CASE job' = Retried
  <2>1. /\ DOMAIN job' = JobFields /\ job'.todo = job.todo /\ job'.got = job.got
        /\ job'.rows = <<>> /\ job'.offset = 0 /\ job'.grew = {} /\ job'.shrank = {}
    BY <1>1, <1>4 DEF Retried, JobInv, JobFields
  <2>2. JobInv'
    <3>1. <<>> \in Seq(ToSet(<<>>))
      OBVIOUS
    <3>. QED  BY <1>1, <2>1, <3>1 DEF JobInv
  <2>3. PagingInv'
    BY <1>2, <2>1, <2>2, Beginning
  <2>. QED  BY <1>2, <2>2, <2>3 DEF PagesInv
<1>. QED  BY <1>1, <1>3, <1>4

LEMMA StayPages ==
  ASSUME PagesInv, books' = books, job' = job \/ job' = None
  PROVE  PagesInv'
<1>1. BooksInv'
  BY DEF PagesInv, BooksInv
<1>2. CASE job' = None
  BY <1>1, <1>2 DEF PagesInv, JobInv, PagingInv
<1>3. CASE job' = job
  <2>1. \A entity \in Entities : Table(entity)' = Table(entity)
    BY <1>3 DEF Table
  <2>2. JobInv' /\ PagingInv'
    BY <1>3, <2>1 DEF PagesInv, JobInv, PagingInv
  <2>. QED  BY <1>1, <2>2 DEF PagesInv
<1>. QED  BY <1>2, <1>3

LEMMA PagesStart == Init => PagesInv
<1>. SUFFICES ASSUME Init
              PROVE  PagesInv
  OBVIOUS
<1>1. PICK l \in Ledgers : books = l.books
  BY DEF Init
<1>2. BooksInv
  BY <1>1, LiveAssumption DEF BooksInv, Stored
<1>3. job = None
  BY DEF Init
<1>. QED  BY <1>2, <1>3 DEF PagesInv, JobInv, PagingInv

LEMMA PagesKept == PagesInv /\ [Next]_liveVars => PagesInv'
<1>. SUFFICES ASSUME PagesInv, [Next]_liveVars
              PROVE  PagesInv'
  OBVIOUS
<1>1. CASE Change
  BY <1>1, ChangePages
<1>2. CASE \E r \in Requests : Ask(r)
  BY <1>2, AskPages
<1>3. CASE ReadPage
  BY <1>3, ReadPagePages
<1>4. CASE ReadFails
  BY <1>4, ReadFailsPages
<1>5. CASE Reply \/ Close \/ UNCHANGED liveVars
  <2>1. books' = books /\ (job' = job \/ job' = None)
    BY <1>5 DEF Reply, Close, liveVars
  <2>. QED  BY <2>1, StayPages
<1>. QED  BY <1>1, <1>2, <1>3, <1>4, <1>5 DEF Next

THEOREM PagesAreTracked == Spec => []PagesInv
BY PagesStart, PagesKept, PTL DEF Spec

-----------------------------------------------------------------------------
(***************************************************************************)
(* What was read.                                                          *)
(***************************************************************************)

\* A list without a repetition has as many ids as entries.
LEMMA DistinctCounts ==
  ASSUME NEW E, NEW rows \in Seq(E), Distinct(rows)
  PROVE  Cardinality(Ids(rows)) = Len(rows)
<1>1. PICK n \in Nat : n = Len(rows) /\ DOMAIN rows = 1..n
  OBVIOUS
<1>2. PICK S : S = Ids(rows)
  OBVIOUS
<1>. DEFINE f == [i \in 1..n |-> rows[i].id]
<1>3. f \in [1..n -> S] /\ \A i \in 1..n : f[i] = rows[i].id
  BY <1>1, <1>2 DEF Ids
<1>4. \A s \in S : \E i \in 1..n : f[i] = s
  BY <1>1, <1>2, <1>3 DEF Ids
<1>5. \A i, j \in 1..n : f[i] = f[j] => i = j
  BY <1>1, <1>3 DEF Distinct
<1>. HIDE DEF f
<1>6. f \in Bijection(1..n, S)
  BY <1>3, <1>4, <1>5 DEF Bijection, Injection, Surjection, IsInjective
<1>7. ExistsBijection(1..n, S)
  BY <1>6 DEF ExistsBijection
<1>. QED  BY <1>1, <1>2, <1>7, FS_CountingElements

\* A read ends with a short page.
LEMMA ShortPage ==
  ASSUME PagesInv, ReadPage, job' # None, Len(job'.got) > Len(job.got)
  PROVE  Len(Page(job.todo[1])) # PAGE_SIZE
<1>. SUFFICES ASSUME Len(Page(job.todo[1])) = PAGE_SIZE
              PROVE  FALSE
  OBVIOUS
<1>1. PICK rows, since :
         job' = [job EXCEPT !.rows = rows, !.offset = NextOffset(@), !.since = since]
  BY DEF ReadPage
<1>2. job'.got = job.got /\ job.got \in Seq(ToSet(job.got))
  BY <1>1 DEF ReadPage, PagesInv, JobInv, JobFields
<1>3. PICK got, l \in Nat : got = job.got /\ l = Len(got)
  BY <1>2
<1>4. l > l
  BY <1>2, <1>3
<1>. QED  BY <1>4

\* What is read is whole.
ReadIsWhole(table, rows, grew, shrank) ==
    /\ grew = {} => Cardinality(Ids(rows)) = Len(rows)
    /\ shrank = {} => Ids(table) \ grew \subseteq Ids(rows)

LEMMA WholeRead ==
  ASSUME NEW rows, NEW offset \in Nat, NEW grew, NEW shrank, NEW table, NEW size \in Nat,
         Paged(rows, offset, grew, shrank, table), IsTable(table), rows \in Seq(ToSet(rows)),
         NEW page, IsPage(page, table, offset, size), Len(page) # size,
         NEW more, more = rows \o page
  PROVE  ReadIsWhole(table, more, grew, shrank)
<1>1. Paged(more, offset + size, grew, shrank, table) /\ more \in Seq(ToSet(more))
  BY PagedRead
<1>2. \A i \in DOMAIN table : i <= offset + size
  BY DEF IsPage
<1>3. ASSUME grew = {}
      PROVE  Cardinality(Ids(more)) = Len(more)
  BY <1>1, <1>3, DistinctCounts DEF Paged
<1>4. ASSUME shrank = {}
      PROVE  Ids(table) \ grew \subseteq Ids(more)
  BY <1>1, <1>2, <1>4 DEF Paged, Ids
<1>. QED  BY <1>3, <1>4 DEF ReadIsWhole

LEMMA ReadPageIsHonest ==
  ASSUME PagesInv, ReadPage, job' # None, Len(job'.got) > Len(job.got)
  PROVE  ReadIsWhole(Table(job.todo[1]), job.rows \o Page(job.todo[1]), job.grew, job.shrank)
<1>1. /\ job # None /\ job.todo # <<>> /\ JobInv /\ PagingInv
  BY DEF ReadPage, PagesInv
<1>2. PICK entity, page, table :
         entity = job.todo[1] /\ page = Page(entity) /\ table = Table(entity)
  OBVIOUS
<1>3. entity \in Entities /\ IsTable(table) /\ IsPage(page, table, job.offset, PAGE_SIZE)
  BY <1>1, <1>2, PageOfTable
<1>4. PICK rows, offset, grew, shrank :
         rows = job.rows /\ offset = job.offset /\ grew = job.grew /\ shrank = job.shrank
  OBVIOUS
<1>5. Paged(rows, offset, grew, shrank, table)
  BY <1>1, <1>2, <1>3, <1>4 DEF PagingInv
<1>6. offset \in Nat /\ rows \in Seq(ToSet(rows)) /\ PAGE_SIZE \in Nat
  BY <1>1, <1>4, LiveAssumption DEF JobInv
<1>7. Len(page) # PAGE_SIZE
  BY <1>2, ShortPage
<1>8. IsPage(page, table, offset, PAGE_SIZE)
  BY <1>3, <1>4
<1>9. ReadIsWhole(table, rows \o page, grew, shrank)
  BY ONLY <1>3, <1>5, <1>6, <1>7, <1>8, WholeRead
<1>. QED  BY <1>2, <1>4, <1>9

\* No other step ends the read of a table.
LEMMA OnlyReadPageReads ==
  ASSUME PagesInv, [Next]_liveVars, job # None, job' # None, Len(job'.got) > Len(job.got)
  PROVE  ReadPage
<1>1. PICK l \in Nat : l = Len(job.got)
  BY DEF PagesInv, JobInv
<1>2. job'.got # job.got
  BY <1>1
<1>3. ~Change
  <2>1. ASSUME Change
        PROVE  FALSE
    <3>1. PICK come, gone : Changing(come, gone)
      BY <2>1, ChangeIsAllowed DEF PagesInv, Allowed
    <3>. QED  BY <1>2, <3>1, ChangedTodo DEF PagesInv
  <2>. QED  BY <2>1
<1>4. ~ReadFails
  BY <1>2 DEF ReadFails, Retried, PagesInv, JobInv, JobFields
<1>5. ~(\E r \in Requests : Ask(r)) /\ ~Reply /\ ~Close /\ ~UNCHANGED liveVars
  BY <1>2 DEF Ask, Reply, Close, liveVars
<1>. QED  BY <1>3, <1>4, <1>5 DEF Next

(***************************************************************************)
(* ReadIsHonest: a table that is read page by page with an offset, while   *)
(* records come and go, repeats no record unless one appeared, and misses  *)
(* none that was there throughout unless one disappeared; whatever the     *)
(* size of a page and of the table, and wherever a retry began again       *)
(* (_search_read_all).                                                     *)
(***************************************************************************)
THEOREM ReadsAreHonest == Spec => ReadIsHonest
<1>1. PagesInv /\ [Next]_liveVars =>
        [job # None /\ job' # None /\ Len(job'.got) > Len(job.got) =>
           LET table == Table(job.todo[1])
               rows == job.rows \o Page(job.todo[1])
           IN /\ job.grew = {} => Cardinality(Ids(rows)) = Len(rows)
              /\ job.shrank = {} => Ids(table) \ job.grew \subseteq Ids(rows)]_job
  <2>1. SUFFICES ASSUME PagesInv, [Next]_liveVars, job # None, job' # None,
                        Len(job'.got) > Len(job.got)
                 PROVE  ReadIsWhole(Table(job.todo[1]), job.rows \o Page(job.todo[1]),
                                    job.grew, job.shrank)
    BY DEF ReadIsWhole
  <2>2. ReadPage
    BY <2>1, OnlyReadPageReads
  <2>. QED  BY <2>1, <2>2, ReadPageIsHonest
<1>. QED  BY <1>1, PagesAreTracked, PTL DEF Spec, ReadIsHonest
=============================================================================
