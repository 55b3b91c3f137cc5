----------------------- MODULE DashboardQuietTheorems -----------------------
(***************************************************************************)
(* Theorems about a tab of Dashboard at rest, for every number of          *)
(* handlers, conversations and questions: it lists what exists in the      *)
(* order of the server, and shows what is saved in its active              *)
(* conversation.                                                           *)
(*                                                                         *)
(* They need one tab (another's changes are never pushed to it), an owner  *)
(* who lets nothing overlap with a deletion (its list would come back from *)
(* what the closure of handleDelete captured) and no rejected query (the   *)
(* client keeps what it showed).  The agent may fail.                      *)
(***************************************************************************)
EXTENDS DashboardTheorems, SequenceTheorems

-----------------------------------------------------------------------------
(***************************************************************************)
(* The list and the rows.                                                  *)
(***************************************************************************)

\* What a filter leaves of a list.
LEMMA FilteredSet ==
  ASSUME NEW gone, NEW list \in Seq(Ids)
  PROVE  Without(list, gone) \in Seq(Ids) /\ ToSet(Without(list, gone)) = ToSet(list) \ gone
<1>1. Entries(Without(list, gone)) = Entries(list) \ gone
  BY WithoutEntries
<1>2. Without(list, gone) \in Seq(Ids)
  BY WithoutOfUsed
<1>3. \A l : ToSet(l) = Entries(l)
  BY DEF ToSet, Entries
<1>. QED  BY <1>1, <1>2, <1>3

\* What a list with a new front holds.
LEMMA FrontSet ==
  ASSUME NEW c \in Ids, NEW list \in Seq(Ids)
  PROVE  <<c>> \o list \in Seq(Ids) /\ ToSet(<<c>> \o list) = {c} \cup ToSet(list)
<1>. PICK l, more : l = <<c>> /\ more = l \o list
  OBVIOUS
<1>1. l \in Seq(Ids) /\ Len(l) = 1 /\ l[1] = c
  OBVIOUS
<1>2. /\ more \in Seq(Ids) /\ DOMAIN more = 1..(1 + Len(list)) /\ more[1] = c
      /\ \A i \in 1..Len(list) : more[1 + i] = list[i]
  BY <1>1
<1>3. DOMAIN list = 1..Len(list) /\ Len(list) \in Nat
  OBVIOUS
<1>4. ToSet(more) \subseteq {c} \cup ToSet(list)
  <2>. SUFFICES ASSUME NEW i \in DOMAIN more
                PROVE  more[i] \in {c} \cup ToSet(list)
    BY DEF ToSet
  <2>1. CASE i = 1
    BY <1>2, <2>1
  <2>2. CASE i # 1
    <3>1. PICK j \in 1..Len(list) : i = 1 + j
      <4>1. i - 1 \in 1..Len(list) /\ i = 1 + (i - 1)
        BY <1>2, <1>3, <2>2
      <4>. QED  BY <4>1
    <3>. QED  BY <1>2, <1>3, <3>1 DEF ToSet
  <2>. QED  BY <2>1, <2>2
<1>5. {c} \cup ToSet(list) \subseteq ToSet(more)
  <2>1. c \in ToSet(more)
    BY <1>2, <1>3 DEF ToSet
  <2>2. ASSUME NEW i \in DOMAIN list
        PROVE  list[i] \in ToSet(more)
    <3>1. 1 + i \in DOMAIN more
      BY <1>2, <1>3
    <3>. QED  BY <1>2, <1>3, <3>1 DEF ToSet
  <2>. QED  BY <2>1, <2>2 DEF ToSet
<1>. QED  BY <1>2, <1>4, <1>5

\* Filters that agree on the list return the same.
LEMMA SameFilter ==
  ASSUME NEW list \in Seq(Ids), NEW gone, NEW other,
         \A c \in ToSet(list) : c \in gone <=> c \in other
  PROVE  Without(list, gone) = Without(list, other)
<1>1. \A i \in DOMAIN list : list[i] \in gone <=> list[i] \in other
  BY DEF ToSet
<1>. QED  BY <1>1, WithoutSame

\* A filter of a list with a new front.
LEMMA FrontFilter ==
  ASSUME NEW c \in Ids, NEW list \in Seq(Ids), NEW gone
  PROVE  /\ c \in gone => Without(<<c>> \o list, gone) = Without(list, gone)
         /\ c \notin gone => Without(<<c>> \o list, gone) = <<c>> \o Without(list, gone)
<1>1. \A l \in Seq(Ids) :
        Without(<<c>> \o l, gone) =
          IF c \in gone THEN Without(l, gone) ELSE <<c>> \o Without(l, gone)
  BY ONLY c \in Ids, WithoutFront
<1>2. Without(<<c>> \o list, gone) =
        IF c \in gone THEN Without(list, gone) ELSE <<c>> \o Without(list, gone)
  BY <1>1
<1>. QED  BY ONLY <1>2

\* A list with an entry moved to the front holds what it held,
LEMMA FrontHolds ==
  ASSUME NEW list \in Seq(Ids), NEW c \in ToSet(list)
  PROVE  ToFront(list, c) \in Seq(Ids) /\ ToSet(ToFront(list, c)) = ToSet(list)
<1>. PICK rest : rest = Without(list, {c})
  OBVIOUS
<1>1. c \in Ids
  BY DEF ToSet
<1>2. rest \in Seq(Ids) /\ ToSet(rest) = ToSet(list) \ {c}
  BY FilteredSet
<1>3. <<c>> \o rest \in Seq(Ids) /\ ToSet(<<c>> \o rest) = {c} \cup ToSet(rest)
  BY <1>1, <1>2, FrontSet
<1>. QED  BY <1>2, <1>3 DEF ToFront

\* and may be filtered before or after.
LEMMA FrontFiltered ==
  ASSUME NEW gone, NEW list \in Seq(Ids), NEW c \in Ids, c \notin gone
  PROVE  Without(ToFront(list, c), gone) = ToFront(Without(list, gone), c)
<1>. PICK rest : rest = Without(list, {c})
  OBVIOUS
<1>1. rest \in Seq(Ids)
  BY FilteredSet
<1>2. Without(<<c>> \o rest, gone) = <<c>> \o Without(rest, gone)
  BY <1>1, FrontFilter
<1>3. /\ Without(Without(list, {c}), gone) = Without(list, {c} \cup gone)
      /\ Without(Without(list, gone), {c}) = Without(list, gone \cup {c})
  BY WithoutBoth
<1>4. {c} \cup gone = gone \cup {c}
  OBVIOUS
<1>. QED  BY <1>2, <1>3, <1>4 DEF ToFront

\* Two filters commute.
LEMMA FilteredTwice ==
  ASSUME NEW gone, NEW other, NEW list \in Seq(Ids)
  PROVE  Without(Without(list, gone), other) = Without(Without(list, other), gone)
<1>1. /\ Without(Without(list, gone), other) = Without(list, gone \cup other)
      /\ Without(Without(list, other), gone) = Without(list, other \cup gone)
  BY WithoutBoth
<1>2. gone \cup other = other \cup gone
  OBVIOUS
<1>. QED  BY <1>1, <1>2

\* To move to the front what is there changes nothing.
LEMMA FrontTwice ==
  ASSUME NEW list \in Seq(Ids), NEW c \in Ids
  PROVE  ToFront(ToFront(list, c), c) = ToFront(list, c)
<1>. PICK rest : rest = Without(list, {c})
  OBVIOUS
<1>1. rest \in Seq(Ids)
  BY FilteredSet
<1>2. Without(<<c>> \o rest, {c}) = Without(rest, {c})
  BY <1>1, FrontFilter
<1>3. Without(rest, {c}) = rest
  <2>1. Without(Without(list, {c}), {c}) = Without(list, {c})
    BY WithoutTwice
  <2>. QED  BY <2>1
<1>. QED  BY <1>2, <1>3 DEF ToFront

-----------------------------------------------------------------------------
(***************************************************************************)
(* One tab, and an owner who lets nothing overlap with a deletion: what is *)
(* known of the queue of the tab, its handlers and its page.               *)
(***************************************************************************)

PageFields == {"pc", "list", "active", "turns", "loading", "switching"}

\* The page that is open.
OpenPage(page) ==
    /\ page = [f \in PageFields |-> page[f]]
    /\ page.pc = "open"
    /\ page.list \in Seq(Ids) /\ page.turns \in Seq(Turn)

Busied(page) == page.loading \/ page.switching

\* The call is one that the handler awaits.
Fits(c, k) ==
    \/ k.kind = "ask" /\ k.pc = "token" /\ c.op = "token"
    \/ Saving(k) /\ c.op = "append" /\ c.conv = k.conv /\ c.msg.question = k.question
    \/ k.kind = "new" /\ c.op = "create"
    \/ k.kind = "select" /\ c.op = "load" /\ c.conv = k.conv
    \/ k.kind = "rename" /\ c.op = "rename" /\ c.conv = k.conv
    \/ k.kind = "delete" /\ k.pc = "deleting" /\ c.op = "delete" /\ c.conv = k.conv
    \/ k.kind = "delete" /\ k.pc = "creating" /\ c.op = "create"
    \/ k.kind = "delete" /\ k.pc = "loading" /\ c.op = "load" /\ c.conv = k.conv

\* It names a conversation, and the list has it.
NamesListed(c, list) == c.op \in {"load", "rename", "delete", "append"} => c.conv \in ToSet(list)

\* No call fails, only a write is checked, or written ahead of its answer, and a
\* conversation is answered with its messages or null.
Reaches(stage, op, result) ==
    /\ stage # "failed"
    /\ stage = "checked" => op \in {"rename", "delete", "append"}
    /\ stage = "written" => op \in {"create", "rename", "delete"}
    /\ stage = "done" /\ op = "load" => result \in Seq(Saved) \cup {None}

\* Only the page's first call has no handler, and only the oldest is being served.
CallFits(queue, hs, list, i) ==
    /\ queue[i].task = None => queue[i].op = "token" /\ i = 1
    /\ queue[i].task # None => Fits(queue[i], hs[queue[i].task])
    /\ NamesListed(queue[i], list)
    /\ i > 1 => queue[i].stage = "sent"
    /\ Reaches(queue[i].stage, queue[i].op, queue[i].result)

AllFit(queue, hs, list) == \A i \in DOMAIN queue : CallFits(queue, hs, list, i)

\* The call of handler s that saves its question, or its answer.
TurnAt(queue, s, i, role) ==
    i \in DOMAIN queue /\ queue[i].task = s /\ queue[i].msg.role = role

\* handleAsk has its two calls next to each other; a handler awaits one call otherwise.
SavesOK(queue, k, s) ==
    /\ Saving(k) /\ k.pc = "saving" =>
          \E i \in DOMAIN queue :
             /\ TurnAt(queue, s, i, "user") /\ TurnAt(queue, s, i + 1, "assistant")
             /\ \A j \in DOMAIN queue : queue[j].task = s => j \in {i, i + 1}
    /\ Saving(k) /\ k.pc = "saved one" =>
          /\ TurnAt(queue, s, 1, "assistant")
          /\ \A j \in DOMAIN queue : queue[j].task = s => j = 1
    /\ ~Saving(k) => \A i, j \in DOMAIN queue : queue[i].task = s /\ queue[j].task = s => i = j
    /\ k.kind = "delete" /\ k.pc = "creating" => 1 \in DOMAIN queue /\ queue[1].task = s

AllSave(queue, hs) == \A s \in Slots : SavesOK(queue, hs[s], s)

\* handleAsk, handleNew and handleSelect run one at a time.
Exclusive(k) == k.kind \in {"ask", "new", "select"}

\* While the tab is busy no other of these runs, while it deletes no other at all.
SoleOK(hs, page, s) ==
    /\ Exclusive(hs[s]) => Busied(page) /\ \A r \in Slots \ {s} : ~Exclusive(hs[r])
    /\ hs[s].kind = "ask" => page.active = hs[s].conv
    /\ hs[s].kind = "delete" =>
          /\ \A r \in Slots \ {s} : hs[r] = NoTask
          /\ hs[s].pc = "deleting" => /\ hs[s].list = page.list /\ hs[s].active = page.active
                                      /\ hs[s].conv \in ToSet(page.list)

AllSole(hs, page) == \A s \in Slots : SoleOK(hs, page, s)

\* The list once the oldest call, of handler k, has returned.
DueList(c, k, list) ==
    IF \/ c.op = "rename" /\ c.stage \in {"written", "done"}
       \/ c.op = "append" /\ (c.stage = "done" \/ k.pc = "saved one")
    THEN ToFront(list, c.conv)
    ELSE IF c.op = "delete" /\ c.stage \in {"written", "done"} THEN Without(list, {c.conv})
    ELSE IF c.op = "create" /\ c.stage \in {"written", "done"}
    THEN IF k.kind = "new" THEN <<c.result>> \o list ELSE <<c.result>>
    ELSE IF c.op = "create" /\ k.kind # "new" THEN <<>> ELSE list

Due(queue, hs, list) ==
    IF queue = <<>> THEN list ELSE DueList(queue[1], hs[queue[1].task], list)

\* The rows but for those that the server's own rendering has created.
Visible == Without(recent, rendered)

\* The active conversation is listed, unless another is being loaded for it.
ActiveListed(hs, page) ==
    page.active \in ToSet(page.list)
      \/ \E s \in Slots : hs[s].kind = "delete" /\ hs[s].pc = "loading"

\* The tab that is open,
OpenOK(page, queue, hs, rows) ==
    /\ OpenPage(page)
    /\ AllFit(queue, hs, page.list) /\ AllSave(queue, hs)
    /\ AllSole(hs, page) /\ ActiveListed(hs, page)
    /\ Due(queue, hs, page.list) = rows

\* and the tab as it comes.
PageOK(page, queue, hs, rows, hidden) ==
    /\ page.pc \in {"closed", "creating", "rendering", "open"}
    /\ page.pc # "open" => queue = <<>> /\ hidden = {} /\ \A s \in Slots : hs[s] = NoTask
    /\ page.pc = "creating" => rows = <<>>
    /\ page.pc = "rendering" => page.list = rows
    /\ page.pc = "open" => OpenOK(page, queue, hs, rows)

\* The rows and the tables stay the same conversations.
RowsMatch == ToSet(recent) = DOMAIN messages /\ rendered \subseteq used

MirrorInv == /\ DashboardInv
             /\ RowsMatch
             /\ \A t \in Tabs : PageOK(tab[t], calls[t], task[t], Visible, rendered)

-----------------------------------------------------------------------------
(***************************************************************************)
(* The client's steps on the queue and the handlers.                       *)
(***************************************************************************)

\* The queue without its first d calls, and with more calls.
Shifts(later, queue, d, more) ==
    /\ later \in Seq(Calls)
    /\ DOMAIN later = 1..(Len(queue) - d + Len(more))
    /\ \A i \in 1..(Len(queue) - d) : later[i] = queue[i + d]
    /\ \A i \in 1..Len(more) : later[Len(queue) - d + i] = more[i]

\* Handler s goes on as k.
Moves(hs, later, s, k) == (\A r \in Slots \ {s} : later[r] = hs[r]) /\ later[s] = k

\* Where the calls of the later queue come from.
LEMMA ShiftedFrom ==
  ASSUME NEW queue \in Seq(Calls), NEW later, NEW d \in {0, 1}, d <= Len(queue),
         NEW more \in Seq(Calls), Shifts(later, queue, d, more), NEW i \in DOMAIN later
  PROVE  \/ i + d \in DOMAIN queue /\ i + d > d /\ later[i] = queue[i + d]
         \/ \E l \in 1..Len(more) : i = Len(queue) - d + l /\ later[i] = more[l]
<1>. PICK n, m : n = Len(queue) - d /\ m = Len(more)
  OBVIOUS
<1>1. n \in Nat /\ m \in Nat /\ DOMAIN queue = 1..(n + d) /\ i \in 1..(n + m)
  BY DEF Shifts
<1>2. CASE i \in 1..n
  BY <1>1, <1>2 DEF Shifts
<1>3. CASE i \in (n + 1)..(n + m)
  <2>1. PICK l \in 1..m : i = n + l
    BY <1>1, <1>3, Offset
  <2>. QED  BY <1>1, <2>1 DEF Shifts
<1>. QED  BY <1>1, <1>2, <1>3

\* A call that handler s begins to await.
NewFits(c, s, k, list) ==
    c.task = s /\ Fits(c, k) /\ NamesListed(c, list) /\ c.stage = "sent"

AllNew(more, s, k, list) == \A l \in 1..Len(more) : NewFits(more[l], s, k, list)

\* The calls of handler s after the first d are calls that k awaits.
StillFit(queue, d, s, k) == \A i \in DOMAIN queue : i > d /\ queue[i].task = s => Fits(queue[i], k)

\* Calls go and come, and each still has a handler that awaits it.
LEMMA ShiftFits ==
  ASSUME NEW queue \in Seq(Calls), NEW later, NEW d \in {0, 1}, d <= Len(queue),
         NEW more \in Seq(Calls), Shifts(later, queue, d, more),
         NEW hs, NEW after, NEW s \in Slots, NEW k, Moves(hs, after, s, k), None \notin Slots,
         NEW list, NEW listed, AllFit(queue, hs, list),
         StillFit(queue, d, s, k), AllNew(more, s, k, listed),
         Len(queue) = d \/ ToSet(list) \subseteq ToSet(listed)
  PROVE  AllFit(later, after, listed)
<1>. SUFFICES ASSUME NEW i \in DOMAIN later
              PROVE  CallFits(later, after, listed, i)
  BY DEF AllFit
<1>. PICK c : c = later[i]
  OBVIOUS
<1>0. after[s] = k /\ \A r \in Slots \ {s} : after[r] = hs[r]
  BY DEF Moves
<1>1. CASE i + d \in DOMAIN queue /\ i + d > d /\ c = queue[i + d]
  <2>1. CallFits(queue, hs, list, i + d) /\ c \in Calls
    BY <1>1 DEF AllFit
  <2>2. Len(queue) # d
    BY <1>1
  <2>3. NamesListed(c, listed)
    BY <1>1, <2>1, <2>2 DEF CallFits, NamesListed
  <2>4. c.task # None => Fits(c, after[c.task])
    <3>1. CASE c.task = s
      BY <1>0, <1>1, <3>1 DEF StillFit
    <3>2. CASE c.task \in Slots \ {s}
      <4>1. Fits(c, hs[c.task])
        BY <1>1, <2>1, <3>2 DEF CallFits
      <4>2. after[c.task] = hs[c.task]
        BY <1>0, <3>2
      <4>. QED  BY <4>1, <4>2
    <3>3. c.task \in Slots \cup {None}
      BY <2>1 DEF Calls
    <3>. QED  BY <3>1, <3>2, <3>3
  <2>5. i \in Nat \ {0}
    BY DEF Shifts
  <2>6. /\ c.task = None => c.op = "token" /\ i + d = 1
        /\ (i + d > 1 => c.stage = "sent") /\ Reaches(c.stage, c.op, c.result)
    BY <1>1, <2>1 DEF CallFits
  <2>7. /\ c.task = None => c.op = "token" /\ i = 1
        /\ i > 1 => c.stage = "sent"
    BY <2>5, <2>6
  <2>. QED  BY <2>3, <2>4, <2>6, <2>7 DEF CallFits
<1>2. ASSUME NEW l \in 1..Len(more), c = more[l]
      PROVE  CallFits(later, after, listed, i)
  <2>1. NewFits(c, s, k, listed)
    BY <1>2 DEF AllNew
  <2>2. c.task = s /\ c.task # None /\ Fits(c, after[c.task]) /\ c.stage = "sent"
    BY <1>0, <2>1 DEF NewFits
  <2>3. NamesListed(c, listed)
    BY <2>1 DEF NewFits
  <2>. QED  BY <2>2, <2>3 DEF CallFits, Reaches
<1>. QED  BY <1>1, <1>2, ShiftedFrom

\* The calls of another handler stay, in their order.
LEMMA ShiftSaves ==
  ASSUME NEW queue \in Seq(Calls), NEW later, NEW d \in {0, 1}, d <= Len(queue),
         NEW more \in Seq(Calls), Shifts(later, queue, d, more), NEW r,
         \A l \in 1..Len(more) : more[l].task # r, d = 1 => queue[1].task # r,
         NEW k, SavesOK(queue, k, r)
  PROVE  SavesOK(later, k, r)
<1>. PICK n, m : n = Len(queue) - d /\ m = Len(more)
  OBVIOUS
<1>1. /\ n \in Nat /\ m \in Nat /\ DOMAIN queue = 1..(n + d) /\ DOMAIN later = 1..(n + m)
      /\ \A i \in 1..n : later[i] = queue[i + d]
  BY DEF Shifts
<1>2. ASSUME NEW i \in DOMAIN later, later[i].task = r
      PROVE  i \in Nat /\ i + d \in DOMAIN queue /\ later[i] = queue[i + d]
  <2>1. i \in Nat
    BY <1>1
  <2>2. \/ i + d \in DOMAIN queue /\ i + d > d /\ later[i] = queue[i + d]
        \/ \E l \in 1..Len(more) : i = Len(queue) - d + l /\ later[i] = more[l]
    BY ShiftedFrom, SMTT(60)
  <2>3. ~ \E l \in 1..Len(more) : i = Len(queue) - d + l /\ later[i] = more[l]
    BY <1>2
  <2>. QED  BY ONLY <2>1, <2>2, <2>3
<1>3. ASSUME NEW i \in DOMAIN queue, queue[i].task = r
      PROVE  \E j \in DOMAIN later : i = j + d /\ later[j] = queue[i]
  <2>1. i \in 1..(n + d) /\ i # d
    BY <1>1, <1>3
  <2>2. i - d \in 1..n
    BY <1>1, <2>1
  <2>3. i = (i - d) + d /\ i - d \in 1..(n + m)
    BY <1>1, <2>1, <2>2
  <2>. QED  BY <1>1, <2>2, <2>3
<1>4. CASE Saving(k) /\ k.pc = "saving"
  <2>1. PICK i \in DOMAIN queue :
             /\ TurnAt(queue, r, i, "user") /\ TurnAt(queue, r, i + 1, "assistant")
             /\ \A j \in DOMAIN queue : queue[j].task = r => j \in {i, i + 1}
    BY <1>4 DEF SavesOK
  <2>2. PICK l \in DOMAIN later : i = l + d /\ later[l] = queue[i]
    BY <1>3, <2>1 DEF TurnAt
  <2>3. PICK o \in DOMAIN later : i + 1 = o + d /\ later[o] = queue[i + 1]
    BY <1>3, <2>1 DEF TurnAt
  <2>4. o = l + 1
    BY <1>1, <2>2, <2>3
  <2>5. TurnAt(later, r, l, "user") /\ TurnAt(later, r, l + 1, "assistant")
    BY <2>1, <2>2, <2>3, <2>4 DEF TurnAt
  <2>6. ASSUME NEW j \in DOMAIN later, later[j].task = r
        PROVE  j \in {l, l + 1}
    <3>1. j \in Nat /\ j + d \in {i, i + 1}
      BY <1>2, <2>1, <2>6
    <3>. QED  BY <1>1, <2>2, <3>1
  <2>. QED  BY <1>4, <2>5, <2>6 DEF SavesOK, Saving
<1>5. CASE Saving(k) /\ k.pc = "saved one"
  <2>1. TurnAt(queue, r, 1, "assistant") /\ \A j \in DOMAIN queue : queue[j].task = r => j = 1
    BY <1>5 DEF SavesOK
  <2>2. PICK l \in DOMAIN later : 1 = l + d /\ later[l] = queue[1]
    BY <1>3, <2>1 DEF TurnAt
  <2>3. d = 0 /\ l = 1
    BY <1>1, <2>1, <2>2 DEF TurnAt
  <2>4. TurnAt(later, r, 1, "assistant")
    BY <2>1, <2>2, <2>3 DEF TurnAt
  <2>5. ASSUME NEW j \in DOMAIN later, later[j].task = r
        PROVE  j = 1
    <3>1. j \in Nat /\ j + d = 1
      BY <1>2, <2>1, <2>5
    <3>. QED  BY <2>3, <3>1
  <2>. QED  BY <1>5, <2>4, <2>5 DEF SavesOK, Saving
<1>6. CASE ~Saving(k)
  <2>1. ASSUME NEW i \in DOMAIN later, NEW j \in DOMAIN later,
               later[i].task = r, later[j].task = r
        PROVE  i = j
    <3>1. /\ i \in Nat /\ i + d \in DOMAIN queue /\ later[i] = queue[i + d]
          /\ j \in Nat /\ j + d \in DOMAIN queue /\ later[j] = queue[j + d]
      BY <1>2, <2>1
    <3>2. i + d = j + d
      BY <1>6, <2>1, <3>1 DEF SavesOK
    <3>. QED  BY <3>1, <3>2
  <2>2. ASSUME k.kind = "delete", k.pc = "creating"
        PROVE  1 \in DOMAIN later /\ later[1].task = r
    <3>1. 1 \in DOMAIN queue /\ queue[1].task = r
      BY <2>2 DEF SavesOK
    <3>2. PICK l \in DOMAIN later : 1 = l + d /\ later[l] = queue[1]
      BY <1>3, <3>1
    <3>3. l = 1
      BY <1>1, <3>1, <3>2
    <3>. QED  BY <3>1, <3>2, <3>3
  <2>. QED  BY <1>6, <2>1, <2>2 DEF SavesOK
<1>. QED  BY <1>4, <1>5, <1>6 DEF Saving

\* A handler that has no call left, or one;
LEMMA NoneSaves ==
  ASSUME NEW queue, NEW s, NEW k, \A i \in DOMAIN queue : queue[i].task # s, ~Saving(k),
         ~(k.kind = "delete" /\ k.pc = "creating")
  PROVE  SavesOK(queue, k, s)
BY DEF SavesOK

\* One that awaits one call has no turn to save.
LEMMA OneSaves ==
  ASSUME NEW queue \in Seq(Calls), NEW later, NEW d \in {0, 1}, d <= Len(queue),
         NEW c \in Calls, Shifts(later, queue, d, <<c>>), NEW s, c.task = s,
         \A i \in DOMAIN queue : i > d => queue[i].task # s,
         NEW k, ~Saving(k), k.kind = "delete" /\ k.pc = "creating" => Len(queue) = d
  PROVE  SavesOK(later, k, s)
<1>. PICK n : n = Len(queue) - d
  OBVIOUS
<1>. PICK more : more = <<c>>
  OBVIOUS
<1>1. more \in Seq(Calls) /\ Len(more) = 1 /\ more[1] = c /\ Shifts(later, queue, d, more)
  OBVIOUS
<1>2. n \in Nat /\ DOMAIN later = 1..(n + 1) /\ later[n + 1] = c
  BY <1>1 DEF Shifts
<1>3. ASSUME NEW i \in DOMAIN later, later[i].task = s
      PROVE  i = n + 1
  <2>1. \/ i + d \in DOMAIN queue /\ i + d > d /\ later[i] = queue[i + d]
        \/ \E l \in 1..Len(more) : i = Len(queue) - d + l /\ later[i] = more[l]
    <3>1. queue \in Seq(Calls) /\ d \in {0, 1} /\ d <= Len(queue) /\ i \in DOMAIN later
      OBVIOUS
    <3>. QED  BY ONLY <1>1, <3>1, ShiftedFrom
  <2>2. ~(i + d \in DOMAIN queue /\ i + d > d /\ later[i] = queue[i + d])
    BY <1>3
  <2>3. \E l \in 1..1 : i = n + l
    BY ONLY <1>1, <2>1, <2>2, n = Len(queue) - d
  <2>. QED  BY ONLY <1>2, <2>3
<1>4. k.kind = "delete" /\ k.pc = "creating" => 1 \in DOMAIN later /\ later[1].task = s
  BY <1>2
<1>. QED  BY <1>3, <1>4 DEF SavesOK

\* handleAsk that saves both messages;
LEMMA BothSave ==
  ASSUME NEW queue \in Seq(Calls), NEW later, NEW more \in Seq(Calls), Len(more) = 2,
         Shifts(later, queue, 0, more), NEW s, NEW k, Saving(k), k.pc = "saving",
         \A i \in DOMAIN queue : queue[i].task # s,
         more[1].task = s, more[1].msg.role = "user",
         more[2].task = s, more[2].msg.role = "assistant"
  PROVE  SavesOK(later, k, s)
<1>. PICK n : n = Len(queue)
  OBVIOUS
<1>1. n \in Nat /\ DOMAIN later = 1..(n + 2) /\ later[n + 1] = more[1] /\ later[n + 2] = more[2]
  BY DEF Shifts
<1>2. ASSUME NEW i \in DOMAIN later, later[i].task = s
      PROVE  i \in {n + 1, n + 2}
  <2>1. \E l \in 1..2 : i = n + l
    BY <1>2, ShiftedFrom, SMTT(60)
  <2>. QED  BY <1>1, <2>1
<1>3. n + 1 \in DOMAIN later /\ n + 2 \in DOMAIN later /\ n + 2 = (n + 1) + 1
  BY <1>1
<1>4. TurnAt(later, s, n + 1, "user") /\ TurnAt(later, s, (n + 1) + 1, "assistant")
  BY <1>1, <1>3 DEF TurnAt
<1>5. \A j \in DOMAIN later : later[j].task = s => j \in {n + 1, (n + 1) + 1}
  BY <1>2, <1>3
<1>. QED  BY <1>3, <1>4, <1>5 DEF SavesOK, Saving

\* and handleAsk once the first is saved: its answer is next.
LEMMA FirstSaved ==
  ASSUME NEW queue \in Seq(Calls), queue # <<>>, NEW later, Shifts(later, queue, 1, <<>>),
         NEW s, queue[1].task = s, NEW k, Saving(k), k.pc = "saving", SavesOK(queue, k, s),
         NEW next, Saving(next), next.pc = "saved one"
  PROVE  /\ queue[1].msg.role = "user" /\ 2 \in DOMAIN queue /\ queue[2].task = s
         /\ SavesOK(later, next, s)
<1>. PICK n : n = Len(queue) - 1
  OBVIOUS
<1>1. /\ n \in Nat /\ DOMAIN queue = 1..(n + 1) /\ DOMAIN later = 1..n
      /\ \A i \in 1..n : later[i] = queue[i + 1]
  <2>1. queue \in Seq(Calls) /\ queue # <<>> /\ Shifts(later, queue, 1, <<>>) /\ n = Len(queue) - 1
    OBVIOUS
  <2>2. Len(queue) \in Nat \ {0} /\ DOMAIN queue = 1..Len(queue) /\ Len(<<>>) = 0
    BY ONLY <2>1
  <2>3. n \in Nat /\ Len(queue) = n + 1 /\ Len(queue) - 1 + Len(<<>>) = n
    BY ONLY <2>1, <2>2
  <2>. QED  BY ONLY <2>1, <2>2, <2>3 DEF Shifts
<1>2. PICK i \in DOMAIN queue :
           /\ TurnAt(queue, s, i, "user") /\ TurnAt(queue, s, i + 1, "assistant")
           /\ \A j \in DOMAIN queue : queue[j].task = s => j \in {i, i + 1}
  BY DEF SavesOK
<1>3. i = 1
  <2>1. 1 \in DOMAIN queue /\ i \in 1..(n + 1)
    <3>1. i \in DOMAIN queue
      OBVIOUS
    <3>. QED  BY ONLY <1>1, <3>1
  <2>2. 1 \in {i, i + 1}
    BY <1>2, <2>1
  <2>. QED  BY ONLY <1>1, <2>1, <2>2
<1>4. /\ 2 \in DOMAIN queue /\ queue[2].task = s /\ queue[2].msg.role = "assistant"
      /\ queue[1].msg.role = "user" /\ \A j \in DOMAIN queue : queue[j].task = s => j \in {1, 2}
  <2>1. i + 1 = 2
    BY ONLY <1>3
  <2>. QED  BY <1>2, <1>3, <2>1 DEF TurnAt
<1>5. 1 \in DOMAIN later /\ later[1] = queue[2]
  <2>1. 1 \in 1..n /\ 1 + 1 = 2
    BY ONLY <1>1, <1>4
  <2>. QED  BY ONLY <1>1, <2>1
<1>6. ASSUME NEW j \in DOMAIN later, later[j].task = s
      PROVE  j = 1
  <2>1. j \in 1..n /\ j + 1 \in DOMAIN queue /\ later[j] = queue[j + 1]
    <3>1. j \in DOMAIN later
      OBVIOUS
    <3>. QED  BY ONLY <1>1, <3>1
  <2>2. j + 1 \in {1, 2}
    BY <1>4, <1>6, <2>1
  <2>. QED  BY ONLY <1>1, <2>1, <2>2
<1>7. TurnAt(later, s, 1, "assistant")
  BY <1>4, <1>5 DEF TurnAt
<1>. QED  BY <1>4, <1>6, <1>7 DEF SavesOK, Saving

-----------------------------------------------------------------------------
(***************************************************************************)
(* Who runs beside whom.                                                   *)
(***************************************************************************)

\* A handler begins where it may,
LEMMA SoleBegins ==
  ASSUME NEW hs, NEW after, NEW s \in Slots, NEW k, Moves(hs, after, s, k), hs[s] = NoTask,
         NEW page, NEW next, AllSole(hs, page), \A r \in Slots : hs[r].kind # "delete",
         Busied(page) => Busied(next), next.active = page.active,
         Exclusive(k) => ~Busied(page) /\ Busied(next),
         k.kind = "ask" => k.conv = page.active,
         k.kind = "delete" => /\ \A r \in Slots : hs[r] = NoTask
                              /\ k.list = next.list /\ k.active = next.active
                              /\ k.conv \in ToSet(next.list)
  PROVE  AllSole(after, next)
<1>. SUFFICES ASSUME NEW r \in Slots
              PROVE  SoleOK(after, next, r)
  BY DEF AllSole
<1>1. after[s] = k /\ \A o \in Slots \ {s} : after[o] = hs[o]
  BY DEF Moves
<1>2. \A o \in Slots : Exclusive(hs[o]) => Busied(page)
  BY DEF AllSole, SoleOK
<1>3. CASE r = s
  <2>1. Exclusive(k) => \A o \in Slots \ {s} : ~Exclusive(after[o])
    BY <1>1, <1>2
  <2>2. k.kind = "delete" => \A o \in Slots \ {s} : after[o] = NoTask
    BY <1>1
  <2>. QED  BY <1>1, <1>3, <2>1, <2>2 DEF SoleOK
<1>4. CASE r # s
  <2>1. after[r] = hs[r] /\ SoleOK(hs, page, r) /\ hs[r].kind # "delete"
    BY <1>1, <1>4 DEF AllSole
  <2>2. Exclusive(hs[r]) => Busied(next) /\ ~Exclusive(k)
    BY <1>2
  <2>3. Exclusive(hs[r]) => \A o \in Slots \ {r} : ~Exclusive(after[o])
    BY <1>1, <2>1, <2>2 DEF SoleOK
  <2>4. hs[r].kind = "ask" => next.active = hs[r].conv
    BY <2>1 DEF SoleOK
  <2>. QED  BY <2>1, <2>2, <2>3, <2>4 DEF SoleOK
<1>. QED  BY <1>3, <1>4

\* Beside a handler in flight there is no deletion.
LEMMA NoneDeletes ==
  ASSUME NEW hs, NEW page, AllSole(hs, page), NEW s \in Slots, hs[s] # NoTask, NEW r \in Slots \ {s}
  PROVE  hs[r].kind # "delete"
BY DEF AllSole, SoleOK

\* ends where nothing rests on it,
LEMMA SoleEnds ==
  ASSUME NEW hs, NEW after, NEW s \in Slots, Moves(hs, after, s, NoTask), hs[s] # NoTask,
         NEW page, NEW next, AllSole(hs, page),
         \/ Exclusive(hs[s]) \/ hs[s].kind = "delete"
         \/ next.active = page.active /\ (Busied(page) => Busied(next))
  PROVE  AllSole(after, next)
<1>. SUFFICES ASSUME NEW r \in Slots
              PROVE  SoleOK(after, next, r)
  BY DEF AllSole
<1>1. after[s] = NoTask /\ \A o \in Slots \ {s} : after[o] = hs[o]
  BY DEF Moves
<1>2. CASE r = s
  BY <1>1, <1>2 DEF SoleOK, NoTask, Exclusive
<1>3. CASE r # s
  <2>1. after[r] = hs[r] /\ SoleOK(hs, page, r) /\ hs[r].kind # "delete"
    BY <1>1, <1>3, NoneDeletes DEF AllSole
  <2>2. CASE Exclusive(hs[s])
    <3>1. ~Exclusive(hs[r])
      BY <1>3, <2>2 DEF AllSole, SoleOK
    <3>. QED  BY <2>1, <3>1 DEF SoleOK, Exclusive
  <2>3. CASE hs[s].kind = "delete"
    <3>1. hs[r] = NoTask
      BY <1>3, <2>3 DEF AllSole, SoleOK
    <3>. QED  BY <2>1, <3>1 DEF SoleOK, Exclusive, NoTask
  <2>4. CASE next.active = page.active /\ (Busied(page) => Busied(next))
    <3>1. ~Exclusive(NoTask)
      BY DEF NoTask, Exclusive
    <3>2. Exclusive(hs[r]) => \A o \in Slots \ {r} : ~Exclusive(after[o])
      BY <1>1, <2>1, <3>1 DEF SoleOK
    <3>. QED  BY <2>1, <2>4, <3>2 DEF SoleOK
  <2>. QED  BY <2>2, <2>3, <2>4
<1>. QED  BY <1>2, <1>3

\* or goes on as it was.
LEMMA SoleGoesOn ==
  ASSUME NEW hs, NEW after, NEW s \in Slots, NEW k, Moves(hs, after, s, k), hs[s] # NoTask,
         NEW page, NEW next, AllSole(hs, page), k.kind = hs[s].kind, k.kind \in {"ask", "delete"},
         k.kind = "ask" => k.conv = hs[s].conv, k.kind = "delete" => k.pc # "deleting",
         next.active = page.active, Busied(page) => Busied(next)
  PROVE  AllSole(after, next)
<1>. SUFFICES ASSUME NEW r \in Slots
              PROVE  SoleOK(after, next, r)
  BY DEF AllSole
<1>1. after[s] = k /\ \A o \in Slots \ {s} : after[o] = hs[o]
  BY DEF Moves
<1>2. SoleOK(hs, page, s) /\ SoleOK(hs, page, r)
  BY DEF AllSole
<1>3. Exclusive(k) <=> Exclusive(hs[s])
  BY DEF Exclusive
<1>4. CASE r = s
  <2>1. Exclusive(k) => Busied(next) /\ \A o \in Slots \ {s} : ~Exclusive(after[o])
    BY <1>1, <1>2, <1>3 DEF SoleOK
  <2>2. k.kind = "ask" => next.active = k.conv
    BY <1>2 DEF SoleOK
  <2>3. k.kind = "delete" => \A o \in Slots \ {s} : after[o] = NoTask
    BY <1>1, <1>2 DEF SoleOK
  <2>. QED  BY <1>1, <1>4, <2>1, <2>2, <2>3 DEF SoleOK
<1>5. CASE r # s
  <2>1. after[r] = hs[r] /\ hs[r].kind # "delete"
    BY <1>1, <1>5, NoneDeletes
  <2>2. Exclusive(hs[r]) => Busied(next) /\ \A o \in Slots \ {r} : ~Exclusive(after[o])
    BY <1>1, <1>2, <1>3 DEF SoleOK
  <2>3. hs[r].kind = "ask" => next.active = hs[r].conv
    BY <1>2 DEF SoleOK
  <2>. QED  BY <2>1, <2>2, <2>3 DEF SoleOK
<1>. QED  BY <1>4, <1>5

\* The active conversation is listed while nothing is loaded for it.
LEMMA ActiveHere ==
  ASSUME NEW hs, NEW page, AllSole(hs, page), ActiveListed(hs, page), NEW s \in Slots,
         hs[s] # NoTask, ~(hs[s].kind = "delete" /\ hs[s].pc = "loading")
  PROVE  page.active \in ToSet(page.list)
BY NoneDeletes DEF ActiveListed

-----------------------------------------------------------------------------
(***************************************************************************)
(* What is due.                                                            *)
(***************************************************************************)

\* The handlers whose list is ahead of the call they await.
Ahead(k) == (Saving(k) /\ k.pc = "saved one") \/ (k.kind = "delete" /\ k.pc = "creating")

\* A call that is not served yet owes the list nothing, but for these.
LEMMA OwesNothing ==
  ASSUME NEW queue, NEW hs, NEW list, CallFits(queue, hs, list, 1),
         queue[1].stage \in {"sent", "checked"},
         queue[1].task # None => ~Ahead(hs[queue[1].task])
  PROVE  DueList(queue[1], hs[queue[1].task], list) = list
<1>. PICK c, k : c = queue[1] /\ k = hs[queue[1].task]
  OBVIOUS
<1>1. CASE c.task = None
  <2>1. c.op = "token"
    BY <1>1 DEF CallFits
  <2>. QED  BY <2>1 DEF DueList
<1>2. CASE c.task # None
  <2>1. Fits(c, k) /\ ~Ahead(k)
    BY <1>2 DEF CallFits
  <2>2. c.op = "append" => k.pc # "saved one"
    BY <2>1 DEF Fits, Ahead, Saving
  <2>3. c.op = "create" => k.kind = "new"
    BY <2>1 DEF Fits, Ahead, Saving
  <2>. QED  BY <2>2, <2>3 DEF DueList
<1>. QED  BY <1>1, <1>2

\* The second call is not served yet, and its handler is not ahead.
LEMMA SecondIs ==
  ASSUME NEW queue, NEW hs, NEW list, AllFit(queue, hs, list), AllSave(queue, hs),
         1 \in DOMAIN queue, 2 \in DOMAIN queue
  PROVE  /\ queue[2].stage = "sent"
         /\ \A r \in Slots : queue[2].task = r => ~Ahead(hs[r])
<1>1. queue[2].stage = "sent"
  BY DEF AllFit, CallFits
<1>2. ASSUME NEW r \in Slots, queue[2].task = r, Ahead(hs[r])
      PROVE  FALSE
  <2>1. SavesOK(queue, hs[r], r)
    BY DEF AllSave
  <2>2. CASE Saving(hs[r]) /\ hs[r].pc = "saved one"
    <3>1. 2 = 1
      BY <1>2, <2>1, <2>2 DEF SavesOK
    <3>. QED  BY <3>1
  <2>3. CASE hs[r].kind = "delete" /\ hs[r].pc = "creating"
    <3>1. ~Saving(hs[r])
      BY <2>3 DEF Saving
    <3>2. queue[1].task = r
      BY <2>1, <2>3 DEF SavesOK
    <3>3. 1 = 2
      BY <1>2, <2>1, <3>1, <3>2 DEF SavesOK
    <3>. QED  BY <3>3
  <2>. QED  BY <1>2, <2>2, <2>3 DEF Ahead
<1>. QED  BY <1>1, <1>2

\* Once the oldest call is gone the list is what it is.
LEMMA DueAfter ==
  ASSUME NEW queue \in Seq(Calls), queue # <<>>, NEW later, Shifts(later, queue, 1, <<>>),
         NEW hs, NEW after, NEW list, NEW listed, AllFit(queue, hs, list), AllSave(queue, hs),
         AllFit(later, after, listed),
         \A i \in DOMAIN later : \A r \in Slots : later[i].task = r => after[r] = hs[r]
  PROVE  Due(later, after, listed) = listed
<1>. SUFFICES ASSUME later # <<>>
              PROVE  DueList(later[1], after[later[1].task], listed) = listed
  BY DEF Due
<1>1. 1 \in DOMAIN later /\ later[1] \in Calls
  BY DEF Shifts
<1>2. 1 \in DOMAIN queue /\ 2 \in DOMAIN queue /\ later[1] = queue[2]
  <2>. PICK n : n = Len(queue) - 1
    OBVIOUS
  <2>1. queue \in Seq(Calls) /\ queue # <<>> /\ n = Len(queue) - 1 /\ Shifts(later, queue, 1, <<>>)
    OBVIOUS
  <2>2. Len(queue) = n + 1 /\ n \in Nat /\ DOMAIN queue = 1..(n + 1) /\ Len(<<>>) = 0
    BY ONLY <2>1
  <2>3. DOMAIN later = 1..n /\ \A i \in 1..n : later[i] = queue[i + 1]
    BY ONLY <2>1, <2>2 DEF Shifts
  <2>4. 1 \in 1..n /\ 1 + 1 = 2
    BY ONLY <1>1, <2>2, <2>3
  <2>. QED  BY ONLY <2>2, <2>3, <2>4
<1>3. later[1].stage = "sent" /\ \A r \in Slots : later[1].task = r => ~Ahead(hs[r])
  BY <1>2, SecondIs
<1>4. later[1].task # None => ~Ahead(after[later[1].task])
  <2>1. later[1].task \in Slots \cup {None}
    BY <1>1 DEF Calls
  <2>. QED  BY <1>1, <1>3, <2>1
<1>5. CallFits(later, after, listed, 1)
  BY <1>1 DEF AllFit
<1>. QED  BY <1>3, <1>4, <1>5, OwesNothing

\* Calls that join the queue change nothing of what is due.
LEMMA DueBefore ==
  ASSUME NEW queue \in Seq(Calls), NEW later, NEW more \in Seq(Calls), more # <<>>,
         Shifts(later, queue, 0, more), NEW hs, NEW after, NEW s \in Slots, NEW k,
         Moves(hs, after, s, k), None \notin Slots, NEW list, AllFit(later, after, list),
         \A i \in DOMAIN queue : queue[i].task # s, ~Ahead(k),
         more[1].stage = "sent", more[1].task = s
  PROVE  Due(later, after, list) = Due(queue, hs, list)
<1>. PICK n, m : n = Len(queue) /\ m = Len(more)
  OBVIOUS
<1>1. /\ n \in Nat /\ m \in Nat \ {0} /\ DOMAIN queue = 1..n /\ DOMAIN later = 1..(n + m)
      /\ \A i \in 1..n : later[i] = queue[i]
      /\ \A i \in 1..m : later[n + i] = more[i]
  BY DEF Shifts
<1>2. later # <<>>
  BY <1>1
<1>3. CASE queue = <<>>
  <2>1. later[1] = more[1] /\ 1 \in DOMAIN later
    <3>1. n = 0 /\ 1 \in 1..m /\ n + 1 = 1
      BY <1>1, <1>3
    <3>. QED  BY <1>1, <3>1
  <2>2. after[s] = k
    BY DEF Moves
  <2>3. CallFits(later, after, list, 1)
    BY <2>1 DEF AllFit
  <2>4. DueList(later[1], after[later[1].task], list) = list
    BY <2>1, <2>2, <2>3, OwesNothing
  <2>. QED  BY <1>2, <1>3, <2>4 DEF Due
<1>4. CASE queue # <<>>
  <2>1. 1 \in DOMAIN queue /\ 1 \in DOMAIN later /\ later[1] = queue[1] /\ queue[1] \in Calls
    BY <1>1, <1>4
  <2>2. CASE queue[1].task = None
    <3>1. queue[1].op = "token"
      BY <2>1, <2>2 DEF AllFit, CallFits
    <3>. QED  BY <1>2, <1>4, <2>1, <3>1 DEF Due, DueList
  <2>3. CASE queue[1].task # None
    <3>1. queue[1].task \in Slots /\ queue[1].task # s
      BY <2>1, <2>3 DEF Calls
    <3>2. after[queue[1].task] = hs[queue[1].task]
      BY <3>1 DEF Moves
    <3>. QED  BY <1>2, <1>4, <2>1, <3>2 DEF Due
  <2>. QED  BY <2>2, <2>3
<1>. QED  BY <1>3, <1>4

-----------------------------------------------------------------------------
(***************************************************************************)
(* The client's steps, so described.                                       *)
(***************************************************************************)

\* The oldest call has returned, and its handler calls more.
LEMMA TailShifts ==
  ASSUME NEW queue \in Seq(Calls), queue # <<>>, NEW more \in Seq(Calls)
  PROVE  Shifts(Tail(queue) \o more, queue, 1, more)
<1>. PICK n, m : n = Len(queue) /\ m = Len(more)
  OBVIOUS
<1>1. n \in Nat \ {0} /\ m \in Nat
  OBVIOUS
<1>2. PICK rest : rest = Tail(queue)
  OBVIOUS
<1>3. /\ rest \in Seq(Calls) /\ Len(rest) = n - 1
      /\ \A i \in 1..(n - 1) : rest[i] = queue[i + 1]
  BY <1>1, <1>2
<1>4. PICK later : later = rest \o more
  OBVIOUS
<1>5. /\ later \in Seq(Calls) /\ Len(later) = n - 1 + m
      /\ \A i \in 1..(n - 1) : later[i] = rest[i]
      /\ \A i \in 1..m : later[n - 1 + i] = more[i]
  <2>. PICK l \in Nat : l = n - 1
    BY <1>1
  <2>1. /\ later \in Seq(Calls) /\ Len(later) = l + m
        /\ \A i \in 1..l : later[i] = rest[i]
        /\ \A i \in 1..m : later[l + i] = more[i]
    BY <1>1, <1>3, <1>4
  <2>. QED  BY <2>1
<1>6. DOMAIN later = 1..(n - 1 + m)
  BY <1>5
<1>7. \A i \in 1..(n - 1) : later[i] = queue[i + 1]
  BY <1>3, <1>5
<1>8. Shifts(later, queue, 1, more)
  BY <1>5, <1>6, <1>7 DEF Shifts
<1>. QED  BY <1>2, <1>4, <1>8

\* A step on one handler of the tab leaves the others alone.
LEMMA TaskMoves ==
  ASSUME TasksInv, NEW t \in Tabs, NEW s \in Slots, NEW k, task' = [task EXCEPT ![t][s] = k]
  PROVE  Moves(task[t], task'[t], s, k)
BY DEF TasksInv, Moves

\* A handler begins and calls.
LEMMA AwaitShifts ==
  ASSUME CallsInv, TasksInv, NEW t \in Tabs, NEW s \in Slots, NEW k, NEW more \in Seq(Calls),
         Await(t, s, k, more)
  PROVE  Shifts(calls'[t], calls[t], 0, more) /\ Moves(task[t], task'[t], s, k)
<1>. PICK queue, later : queue = calls[t] /\ later = queue \o more
  OBVIOUS
<1>1. queue \in Seq(Calls) /\ calls \in [Tabs -> Seq(Calls)]
  BY DEF CallsInv
<1>2. /\ later \in Seq(Calls) /\ DOMAIN later = 1..(Len(queue) + Len(more))
      /\ \A i \in 1..Len(queue) : later[i] = queue[i]
      /\ \A i \in 1..Len(more) : later[Len(queue) + i] = more[i]
  BY <1>1
<1>3. Shifts(later, queue, 0, more)
  BY <1>1, <1>2 DEF Shifts
<1>4. calls' = [calls EXCEPT ![t] = later] /\ task' = [task EXCEPT ![t][s] = k]
  BY DEF Await
<1>5. calls'[t] = later
  BY <1>1, <1>4
<1>. QED  BY <1>3, <1>4, <1>5, TaskMoves

\* A handler goes on and calls.
LEMMA ResumeShifts ==
  ASSUME CallsInv, TasksInv, NEW t \in Tabs, calls[t] # <<>>, Oldest(t).task # None,
         NEW k, NEW more \in Seq(Calls), Resume(t, k, more)
  PROVE  Shifts(calls'[t], calls[t], 1, more) /\ Moves(task[t], task'[t], Oldest(t).task, k)
<1>. PICK queue, later : queue = calls[t] /\ later = Tail(queue) \o more
  OBVIOUS
<1>1. queue \in Seq(Calls) /\ calls \in [Tabs -> Seq(Calls)]
  BY DEF CallsInv
<1>2. Shifts(later, queue, 1, more)
  BY <1>1, TailShifts
<1>3. calls' = [calls EXCEPT ![t] = later] /\ task' = [task EXCEPT ![t][Oldest(t).task] = k]
  BY DEF Resume
<1>4. Oldest(t).task \in Slots
  BY OldestIs DEF Calls
<1>5. calls'[t] = later
  BY <1>1, <1>3
<1>. QED  BY <1>2, <1>3, <1>4, <1>5, TaskMoves

\* A call that nobody waits for returns.
LEMMA OrphanShifts ==
  ASSUME CallsInv, NEW t \in Tabs, calls[t] # <<>>, calls' = [calls EXCEPT ![t] = Tail(@)]
  PROVE  Shifts(calls'[t], calls[t], 1, <<>>)
<1>. PICK queue, later : queue = calls[t] /\ later = Tail(queue) \o <<>>
  OBVIOUS
<1>1. queue \in Seq(Calls) /\ calls \in [Tabs -> Seq(Calls)] /\ <<>> \in Seq(Calls)
  BY DEF CallsInv
<1>2. Shifts(later, queue, 1, <<>>)
  BY <1>1, TailShifts
<1>3. later = Tail(queue)
  BY <1>1
<1>4. calls' = [calls EXCEPT ![t] = later]
  BY <1>3
<1>5. calls'[t] = later
  BY <1>1, <1>4
<1>. QED  BY <1>2, <1>5

\* A handler that has no further call leaves none behind.
LEMMA FinishShifts ==
  ASSUME CallsInv, TasksInv, NEW t \in Tabs, calls[t] # <<>>, Oldest(t).task # None, Finish(t),
         \A i \in DOMAIN calls[t] : i > 1 => calls[t][i].task # Oldest(t).task
  PROVE  Shifts(calls'[t], calls[t], 1, <<>>) /\ Moves(task[t], task'[t], Oldest(t).task, NoTask)
<1>. PICK queue, s, n : queue = calls[t] /\ s = Oldest(t).task /\ n = Len(queue)
  OBVIOUS
<1>1. PICK later : later = [i \in 1..(n - 1) |-> Orphaned(queue[i + 1], s)]
  OBVIOUS
<1>2. /\ queue \in Seq(Calls) /\ calls \in [Tabs -> Seq(Calls)] /\ n \in Nat \ {0}
      /\ s \in Slots
  BY OldestIs DEF CallsInv, Calls
<1>3. ASSUME NEW i \in 1..(n - 1)
      PROVE  later[i] = queue[i + 1] /\ later[i] \in Calls
  <2>1. i + 1 \in DOMAIN queue /\ i + 1 > 1 /\ queue[i + 1] \in Calls
    BY <1>2
  <2>2. queue[i + 1].task # s
    BY <2>1
  <2>3. later[i] = Orphaned(queue[i + 1], s)
    BY <1>1
  <2>. QED  BY <2>1, <2>2, <2>3 DEF Orphaned
<1>4. DOMAIN later = 1..(n - 1) /\ n - 1 \in Nat /\ Len(<<>>) = 0
  BY <1>1, <1>2
<1>5. later \in Seq(Calls)
  <2>1. later \in [1..(n - 1) -> Calls]
    BY <1>1, <1>3
  <2>. QED  BY <1>4, <2>1
<1>6. Shifts(later, queue, 1, <<>>)
  BY <1>3, <1>4, <1>5 DEF Shifts
<1>7. calls' = [calls EXCEPT ![t] = later] /\ task' = [task EXCEPT ![t][s] = NoTask]
  BY <1>1 DEF Finish
<1>8. calls'[t] = later
  BY <1>2, <1>7
<1>. QED  BY <1>2, <1>6, <1>7, <1>8, TaskMoves

-----------------------------------------------------------------------------
(***************************************************************************)
(* The open tab under the client's steps.                                  *)
(***************************************************************************)

\* A slot that is free has no call,
LEMMA FreeSlot ==
  ASSUME NEW queue, NEW hs, NEW list, AllFit(queue, hs, list), NEW s \in Slots, None \notin Slots,
         hs[s] = NoTask
  PROVE  \A i \in DOMAIN queue : queue[i].task # s
<1>1. \A c : ~Fits(c, NoTask)
  BY DEF Fits, Saving, NoTask
<1>. QED  BY <1>1 DEF AllFit, CallFits

\* a handler that is not about to save another message has no further call,
LEMMA NoFurther ==
  ASSUME NEW queue, NEW hs, AllSave(queue, hs), NEW s \in Slots, 1 \in DOMAIN queue,
         queue[1].task = s, Saving(hs[s]) => hs[s].pc = "saved one"
  PROVE  \A i \in DOMAIN queue : queue[i].task = s => i = 1
<1>1. SavesOK(queue, hs[s], s)
  BY DEF AllSave
<1>. QED  BY <1>1 DEF SavesOK

\* and beside a deletion there is no call.
LEMMA SoleCall ==
  ASSUME NEW queue \in Seq(Calls), NEW hs, NEW page, None \notin Slots,
         AllFit(queue, hs, page.list), AllSave(queue, hs), AllSole(hs, page),
         NEW s \in Slots, queue # <<>>, queue[1].task = s, hs[s].kind = "delete"
  PROVE  Len(queue) = 1
<1>1. 1 \in DOMAIN queue /\ DOMAIN queue = 1..Len(queue) /\ Len(queue) \in Nat
  OBVIOUS
<1>0. \A i \in DOMAIN queue : queue[i].task = s => i = 1
  <2>1. ~Saving(hs[s])
    BY DEF Saving
  <2>. QED  BY <1>1, <2>1, NoFurther
<1>2. ASSUME NEW i \in DOMAIN queue
      PROVE  i = 1
  <2>0. queue[i] \in Calls
    OBVIOUS
  <2>1. queue[i].task \in Slots \cup {None} /\ CallFits(queue, hs, page.list, i)
    BY <2>0 DEF Calls, AllFit
  <2>2. CASE queue[i].task = None
    BY <2>1, <2>2 DEF CallFits
  <2>3. CASE queue[i].task = s
    BY <1>0, <2>3
  <2>4. CASE queue[i].task \in Slots \ {s}
    <3>1. hs[queue[i].task] = NoTask
      BY <2>4 DEF AllSole, SoleOK
    <3>. QED  BY <2>4, <3>1, FreeSlot
  <2>. QED  BY <2>1, <2>2, <2>3, <2>4
<1>3. Len(queue) \in DOMAIN queue
  BY <1>1
<1>. QED  BY <1>2, <1>3

\* What a handler that begins may be.
Begins(k, page, next) ==
    /\ ~Ahead(k) /\ ~Saving(k)
    /\ k.kind = "ask" => k.conv = page.active
    /\ Exclusive(k) => ~Busied(page) /\ Busied(next)
    /\ k.kind = "delete" => /\ k.list = next.list /\ k.active = next.active
                            /\ k.conv \in ToSet(next.list)

\* The open tab when a handler begins,
LEMMA OpenBegins ==
  ASSUME NEW queue \in Seq(Calls), NEW later, NEW c \in Calls, Shifts(later, queue, 0, <<c>>),
         NEW hs, NEW after, NEW s \in Slots, NEW k, Moves(hs, after, s, k), None \notin Slots,
         NEW page, NEW rows, OpenOK(page, queue, hs, rows), hs[s] = NoTask,
         \A r \in Slots : hs[r].kind # "delete",
         NEW next, OpenPage(next), next.list = page.list, next.active = page.active,
         Busied(page) => Busied(next), NewFits(c, s, k, page.list), Begins(k, page, next),
         k.kind = "delete" => \A r \in Slots : hs[r] = NoTask
  PROVE  OpenOK(next, later, after, rows)
<1>. PICK more : more = <<c>>
  OBVIOUS
<1>0. /\ more \in Seq(Calls) /\ more # <<>> /\ Len(more) = 1 /\ more[1] = c
      /\ Shifts(later, queue, 0, more)
  OBVIOUS
<1>1. \A i \in DOMAIN queue : queue[i].task # s
  BY FreeSlot DEF OpenOK
<1>2. c.task = s /\ c.stage = "sent"
  BY DEF NewFits
<1>3. AllFit(later, after, page.list)
  <2>1. AllFit(queue, hs, page.list)
    BY DEF OpenOK
  <2>2. AllNew(more, s, k, page.list)
    BY <1>0 DEF AllNew
  <2>3. 0 \in {0, 1} /\ 0 <= Len(queue)
    OBVIOUS
  <2>4. /\ queue \in Seq(Calls) /\ s \in Slots /\ Moves(hs, after, s, k) /\ None \notin Slots
        /\ ToSet(page.list) \subseteq ToSet(page.list)
        /\ StillFit(queue, 0, s, k)
    BY <1>1 DEF StillFit
  <2>. QED  BY ONLY <1>0, <2>1, <2>2, <2>3, <2>4, ShiftFits
<1>4. AllSave(later, after)
  <2>1. SavesOK(later, k, s)
    <3>1. /\ queue \in Seq(Calls) /\ c \in Calls /\ Shifts(later, queue, 0, <<c>>)
          /\ \A i \in DOMAIN queue : i > 0 => queue[i].task # s
          /\ 0 \in {0, 1} /\ 0 <= Len(queue)
      BY <1>1
    <3>2. ~Saving(k) /\ ~(k.kind = "delete" /\ k.pc = "creating")
      BY DEF Begins, Ahead
    <3>. QED  BY ONLY <1>2, <3>1, <3>2, OneSaves
  <2>2. ASSUME NEW r \in Slots \ {s}
        PROVE  SavesOK(later, after[r], r)
    <3>1. after[r] = hs[r] /\ SavesOK(queue, hs[r], r)
      BY DEF Moves, OpenOK, AllSave
    <3>2. \A l \in 1..Len(more) : more[l].task # r
      BY <1>0, <1>2
    <3>3. 0 \in {0, 1} /\ 0 <= Len(queue) /\ 0 # 1
      OBVIOUS
    <3>. QED  BY <1>0, <3>1, <3>2, <3>3, ShiftSaves
  <2>. QED  BY <2>1, <2>2 DEF AllSave, Moves
<1>5. AllSole(after, next)
  BY SoleBegins DEF OpenOK, Begins
<1>6. next.active \in ToSet(next.list)
  BY DEF OpenOK, ActiveListed
<1>7. Due(later, after, page.list) = Due(queue, hs, page.list)
  <2>1. /\ queue \in Seq(Calls) /\ s \in Slots /\ Moves(hs, after, s, k) /\ None \notin Slots
        /\ ~Ahead(k) /\ more[1].stage = "sent" /\ more[1].task = s
    BY <1>0, <1>2 DEF Begins
  <2>. QED  BY ONLY <1>0, <1>1, <1>3, <2>1, DueBefore
<1>. QED  BY <1>3, <1>4, <1>5, <1>6, <1>7 DEF OpenOK, ActiveListed

\* Once the oldest call is gone,
LEMMA LaterTail ==
  ASSUME NEW queue \in Seq(Calls), queue # <<>>, NEW later, Shifts(later, queue, 1, <<>>)
  PROVE  /\ later \in Seq(Calls) /\ 1 \in DOMAIN queue
         /\ \A i \in DOMAIN later : i + 1 \in DOMAIN queue /\ i + 1 > 1 /\ later[i] = queue[i + 1]
<1>. PICK n : n = Len(queue) - 1
  OBVIOUS
<1>1. Len(queue) = n + 1 /\ n \in Nat /\ DOMAIN queue = 1..(n + 1) /\ Len(<<>>) = 0
  OBVIOUS
<1>2. DOMAIN later = 1..n /\ (\A i \in 1..n : later[i] = queue[i + 1]) /\ later \in Seq(Calls)
  BY <1>1 DEF Shifts
<1>. QED  BY ONLY <1>1, <1>2

\* those that remain are awaited as before,
LEMMA TailFits ==
  ASSUME NEW queue \in Seq(Calls), queue # <<>>, NEW later, Shifts(later, queue, 1, <<>>),
         NEW hs, NEW after, NEW s \in Slots, NEW k, Moves(hs, after, s, k), None \notin Slots,
         NEW list, NEW listed, AllFit(queue, hs, list),
         StillFit(queue, 1, s, k),
         Len(queue) = 1 \/ ToSet(list) \subseteq ToSet(listed)
  PROVE  AllFit(later, after, listed)
<1>. PICK more : more = <<>>
  OBVIOUS
<1>1. more \in Seq(Calls) /\ Len(more) = 0 /\ Shifts(later, queue, 1, more)
  OBVIOUS
<1>2. 1 \in {0, 1} /\ 1 <= Len(queue)
  OBVIOUS
<1>3. Len(queue) = 1 \/ ToSet(list) \subseteq ToSet(listed)
  OBVIOUS
<1>4. AllNew(more, s, k, listed)
  BY <1>1 DEF AllNew
<1>5. /\ queue \in Seq(Calls) /\ s \in Slots /\ Moves(hs, after, s, k) /\ None \notin Slots
      /\ AllFit(queue, hs, list) /\ StillFit(queue, 1, s, k)
  OBVIOUS
<1>. QED  BY ONLY <1>1, <1>2, <1>3, <1>4, <1>5, ShiftFits

\* and saved as before.
LEMMA TailSaves ==
  ASSUME NEW queue \in Seq(Calls), queue # <<>>, NEW later, Shifts(later, queue, 1, <<>>),
         NEW r, queue[1].task # r, NEW k, SavesOK(queue, k, r)
  PROVE  SavesOK(later, k, r)
<1>. PICK more : more = <<>>
  OBVIOUS
<1>1. more \in Seq(Calls) /\ Len(more) = 0 /\ Shifts(later, queue, 1, more)
  OBVIOUS
<1>2. 1 \in {0, 1} /\ 1 <= Len(queue)
  OBVIOUS
<1>3. \A l \in 1..Len(more) : more[l].task # r
  BY <1>1
<1>. QED  BY <1>1, <1>2, <1>3, ShiftSaves

\* and when one ends.
LEMMA OpenEnds ==
  ASSUME NEW queue \in Seq(Calls), queue # <<>>, NEW later, Shifts(later, queue, 1, <<>>),
         NEW hs, NEW after, NEW s \in Slots, Moves(hs, after, s, NoTask), None \notin Slots,
         NEW page, NEW rows, OpenOK(page, queue, hs, rows), queue[1].task = s,
         Saving(hs[s]) => hs[s].pc = "saved one",
         NEW next, OpenPage(next), next.list = Due(queue, hs, page.list),
         next.active \in ToSet(next.list),
         \/ Exclusive(hs[s]) \/ hs[s].kind = "delete"
         \/ next.active = page.active /\ (Busied(page) => Busied(next)),
         hs[s].kind = "delete" \/ ToSet(page.list) \subseteq ToSet(next.list)
  PROVE  OpenOK(next, later, after, rows)
<1>0. /\ later \in Seq(Calls) /\ 1 \in DOMAIN queue
      /\ \A i \in DOMAIN later : i + 1 \in DOMAIN queue /\ i + 1 > 1 /\ later[i] = queue[i + 1]
  BY LaterTail
<1>1. \A i \in DOMAIN queue : queue[i].task = s => i = 1
  BY <1>0, NoFurther DEF OpenOK
<1>2. hs[s] # NoTask
  BY <1>0, FreeSlot DEF OpenOK
<1>3. AllFit(later, after, next.list)
  <2>1. AllFit(queue, hs, page.list)
    BY DEF OpenOK
  <2>2. StillFit(queue, 1, s, NoTask)
    BY ONLY <1>1 DEF StillFit
  <2>3. hs[s].kind = "delete" => Len(queue) = 1
    BY SoleCall DEF OpenOK
  <2>4. Len(queue) = 1 \/ ToSet(page.list) \subseteq ToSet(next.list)
    BY <2>3
  <2>5. /\ queue \in Seq(Calls) /\ queue # <<>> /\ Shifts(later, queue, 1, <<>>)
        /\ s \in Slots /\ Moves(hs, after, s, NoTask) /\ None \notin Slots
    OBVIOUS
  <2>. QED  BY ONLY <2>1, <2>2, <2>4, <2>5, TailFits
<1>4. \A i \in DOMAIN later : later[i].task # s
  BY ONLY <1>0, <1>1
<1>5. AllSave(later, after)
  <2>2. SavesOK(later, NoTask, s)
    BY <1>4, NoneSaves DEF NoTask, Saving
  <2>3. ASSUME NEW r \in Slots \ {s}
        PROVE  SavesOK(later, after[r], r)
    <3>1. after[r] = hs[r] /\ SavesOK(queue, hs[r], r)
      BY DEF Moves, OpenOK, AllSave
    <3>2. queue[1].task # r
      OBVIOUS
    <3>. QED  BY <3>1, <3>2, TailSaves
  <2>. QED  BY <2>2, <2>3 DEF AllSave, Moves
<1>6. AllSole(after, next)
  BY <1>2, SoleEnds DEF OpenOK
<1>7. Due(later, after, next.list) = next.list
  <2>1. \A i \in DOMAIN later : \A r \in Slots : later[i].task = r => after[r] = hs[r]
    BY <1>4 DEF Moves
  <2>2. AllFit(queue, hs, page.list) /\ AllSave(queue, hs)
    BY DEF OpenOK
  <2>3. queue \in Seq(Calls) /\ queue # <<>> /\ Shifts(later, queue, 1, <<>>)
    OBVIOUS
  <2>. QED  BY ONLY <1>3, <2>1, <2>2, <2>3, DueAfter
<1>8. Due(queue, hs, page.list) = rows
  BY DEF OpenOK
<1>. QED  BY <1>3, <1>5, <1>6, <1>7, <1>8 DEF OpenOK, ActiveListed

\* The page's first token came.
LEMMA OpenOrphan ==
  ASSUME NEW queue \in Seq(Calls), queue # <<>>, NEW later, Shifts(later, queue, 1, <<>>),
         NEW hs, None \notin Slots,
         NEW page, NEW rows, OpenOK(page, queue, hs, rows), queue[1].task = None
  PROVE  OpenOK(page, later, hs, rows)
<1>1. /\ later \in Seq(Calls) /\ 1 \in DOMAIN queue
      /\ \A i \in DOMAIN later : i + 1 \in DOMAIN queue /\ i + 1 > 1 /\ later[i] = queue[i + 1]
  BY LaterTail
<1>2. queue[1].op = "token"
  BY <1>1 DEF OpenOK, AllFit, CallFits
<1>3. AllFit(later, hs, page.list)
  <2>. SUFFICES ASSUME NEW i \in DOMAIN later
                PROVE  CallFits(later, hs, page.list, i)
    BY DEF AllFit
  <2>1. i + 1 \in DOMAIN queue /\ i + 1 > 1 /\ later[i] = queue[i + 1] /\ i + 1 # 1
    BY <1>1
  <2>2. CallFits(queue, hs, page.list, i + 1)
    BY <2>1 DEF OpenOK, AllFit
  <2>. QED  BY <2>1, <2>2 DEF CallFits
<1>4. AllSave(later, hs)
  <2>. SUFFICES ASSUME NEW r \in Slots
                PROVE  SavesOK(later, hs[r], r)
    BY DEF AllSave
  <2>1. SavesOK(queue, hs[r], r) /\ queue[1].task # r
    BY DEF OpenOK, AllSave
  <2>. QED  BY <2>1, TailSaves
<1>5. Due(later, hs, page.list) = page.list
  <2>1. AllFit(queue, hs, page.list) /\ AllSave(queue, hs)
    BY DEF OpenOK
  <2>2. queue \in Seq(Calls) /\ queue # <<>> /\ Shifts(later, queue, 1, <<>>)
    OBVIOUS
  <2>3. \A i \in DOMAIN later : \A r \in Slots : later[i].task = r => hs[r] = hs[r]
    OBVIOUS
  <2>. QED  BY ONLY <1>3, <2>1, <2>2, <2>3, DueAfter
<1>6. Due(queue, hs, page.list) = page.list
  BY <1>2 DEF Due, DueList
<1>. QED  BY <1>3, <1>4, <1>5, <1>6 DEF OpenOK

\* handleAsk has its token, and asks the agent.
LEMMA OpenAsks ==
  ASSUME NEW queue \in Seq(Calls), queue # <<>>, NEW later, Shifts(later, queue, 1, <<>>),
         NEW hs, NEW after, NEW s \in Slots, NEW k, Moves(hs, after, s, k), None \notin Slots,
         NEW page, NEW rows, OpenOK(page, queue, hs, rows), queue[1].task = s,
         hs[s].kind = "ask", hs[s].pc = "token",
         k.kind = "ask", k.pc = "chat", k.conv = hs[s].conv
  PROVE  OpenOK(page, later, after, rows)
<1>0. /\ later \in Seq(Calls) /\ 1 \in DOMAIN queue
      /\ \A i \in DOMAIN later : i + 1 \in DOMAIN queue /\ i + 1 > 1 /\ later[i] = queue[i + 1]
  BY LaterTail
<1>1. \A i \in DOMAIN queue : queue[i].task = s => i = 1
  <2>1. AllSave(queue, hs) /\ ~Saving(hs[s])
    BY DEF Saving, OpenOK
  <2>. QED  BY <1>0, <2>1, NoFurther
<1>2. hs[s] # NoTask /\ queue[1].op = "token"
  <2>1. CallFits(queue, hs, page.list, 1) /\ queue[1].task # None
    BY <1>0 DEF OpenOK, AllFit
  <2>. QED  BY <2>1 DEF CallFits, Fits, Saving, NoTask
<1>3. AllFit(later, after, page.list)
  <2>1. AllFit(queue, hs, page.list) /\ ToSet(page.list) \subseteq ToSet(page.list)
    BY DEF OpenOK
  <2>2. StillFit(queue, 1, s, k)
    BY ONLY <1>1 DEF StillFit
  <2>3. /\ queue \in Seq(Calls) /\ queue # <<>> /\ Shifts(later, queue, 1, <<>>)
        /\ s \in Slots /\ Moves(hs, after, s, k) /\ None \notin Slots
    OBVIOUS
  <2>. QED  BY ONLY <2>1, <2>2, <2>3, TailFits
<1>4. \A i \in DOMAIN later : later[i].task # s
  BY ONLY <1>0, <1>1
<1>5. AllSave(later, after)
  <2>2. SavesOK(later, k, s)
    BY <1>4, NoneSaves DEF Saving
  <2>3. ASSUME NEW r \in Slots \ {s}
        PROVE  SavesOK(later, after[r], r)
    <3>1. after[r] = hs[r] /\ SavesOK(queue, hs[r], r)
      BY DEF Moves, OpenOK, AllSave
    <3>2. queue[1].task # r
      OBVIOUS
    <3>. QED  BY <3>1, <3>2, TailSaves
  <2>. QED  BY <2>2, <2>3 DEF AllSave, Moves
<1>6. AllSole(after, page)
  <2>1. AllSole(hs, page)
    BY DEF OpenOK
  <2>. QED  BY <1>2, <2>1, SoleGoesOn
<1>7. Due(later, after, page.list) = page.list
  <2>1. \A i \in DOMAIN later : \A r \in Slots : later[i].task = r => after[r] = hs[r]
    BY <1>4 DEF Moves
  <2>2. AllFit(queue, hs, page.list) /\ AllSave(queue, hs)
    BY DEF OpenOK
  <2>3. queue \in Seq(Calls) /\ queue # <<>> /\ Shifts(later, queue, 1, <<>>)
    OBVIOUS
  <2>. QED  BY ONLY <1>3, <2>1, <2>2, <2>3, DueAfter
<1>8. Due(queue, hs, page.list) = page.list
  BY <1>2 DEF Due, DueList
<1>9. page.active \in ToSet(page.list)
  BY <1>2, ActiveHere DEF OpenOK
<1>. QED  BY <1>3, <1>5, <1>6, <1>7, <1>8, <1>9 DEF OpenOK, ActiveListed

\* The agent has answered handleAsk, which saves the two messages.
LEMMA OpenAnswered ==
  ASSUME NEW queue \in Seq(Calls), NEW later, NEW more \in Seq(Calls), Len(more) = 2,
         Shifts(later, queue, 0, more),
         NEW hs, NEW after, NEW s \in Slots, NEW k, Moves(hs, after, s, k), None \notin Slots,
         NEW page, NEW rows, OpenOK(page, queue, hs, rows),
         hs[s].kind = "ask", hs[s].pc = "chat", k.kind = "ask", k.pc = "saving", k.conv = hs[s].conv,
         AllNew(more, s, k, page.list),
         more[1].msg.role = "user", more[2].msg.role = "assistant",
         NEW next, OpenPage(next), next.list = page.list, next.active = page.active,
         Busied(page) => Busied(next)
  PROVE  OpenOK(next, later, after, rows)
<1>0. more # <<>> /\ 1 \in 1..Len(more) /\ 2 \in 1..Len(more)
  <2>1. Len(more) = 2 /\ Len(<<>>) = 0
    OBVIOUS
  <2>2. 1 \in 1..2 /\ 2 \in 1..2 /\ 0 # 2
    OBVIOUS
  <2>. QED  BY ONLY <2>1, <2>2
<1>1. \A i \in DOMAIN queue : queue[i].task # s
  <2>1. \A c : ~Fits(c, hs[s])
    BY DEF Fits, Saving
  <2>. QED  BY <2>1 DEF OpenOK, AllFit, CallFits
<1>2. Saving(k) /\ hs[s] # NoTask /\ ~Ahead(k)
  BY DEF Saving, NoTask, Ahead
<1>3. AllFit(later, after, page.list)
  <2>1. AllFit(queue, hs, page.list) /\ ToSet(page.list) \subseteq ToSet(page.list)
    BY DEF OpenOK
  <2>2. StillFit(queue, 0, s, k)
    BY <1>1 DEF StillFit
  <2>3. /\ queue \in Seq(Calls) /\ Shifts(later, queue, 0, more) /\ more \in Seq(Calls)
        /\ s \in Slots /\ Moves(hs, after, s, k) /\ None \notin Slots
        /\ AllNew(more, s, k, page.list) /\ 0 \in {0, 1} /\ 0 <= Len(queue)
    OBVIOUS
  <2>. QED  BY ONLY <2>1, <2>2, <2>3, ShiftFits
<1>4. more[1].task = s /\ more[2].task = s /\ more[1].stage = "sent" /\ \A l \in 1..Len(more) : more[l].task = s
  BY <1>0 DEF AllNew, NewFits
<1>5. AllSave(later, after)
  <2>2. SavesOK(later, k, s)
    BY <1>1, <1>2, <1>4, BothSave
  <2>3. ASSUME NEW r \in Slots \ {s}
        PROVE  SavesOK(later, after[r], r)
    <3>1. after[r] = hs[r] /\ SavesOK(queue, hs[r], r)
      BY DEF Moves, OpenOK, AllSave
    <3>2. \A l \in 1..Len(more) : more[l].task # r
      BY <1>4
    <3>3. /\ queue \in Seq(Calls) /\ Shifts(later, queue, 0, more) /\ more \in Seq(Calls)
          /\ 0 \in {0, 1} /\ 0 <= Len(queue) /\ (0 = 1 => queue[1].task # r)
      OBVIOUS
    <3>. QED  BY ONLY <3>1, <3>2, <3>3, ShiftSaves
  <2>. QED  BY <2>2, <2>3 DEF AllSave, Moves
<1>6. AllSole(after, next)
  <2>1. AllSole(hs, page)
    BY DEF OpenOK
  <2>. QED  BY <1>2, <2>1, SoleGoesOn
<1>7. Due(later, after, page.list) = Due(queue, hs, page.list)
  <2>1. /\ queue \in Seq(Calls) /\ s \in Slots /\ Moves(hs, after, s, k) /\ None \notin Slots
        /\ more \in Seq(Calls) /\ Shifts(later, queue, 0, more)
    OBVIOUS
  <2>. QED  BY ONLY <1>0, <1>1, <1>2, <1>3, <1>4, <2>1, DueBefore
<1>9. page.active \in ToSet(page.list)
  BY <1>2, ActiveHere DEF OpenOK
<1>. QED  BY <1>3, <1>5, <1>6, <1>7, <1>9 DEF OpenOK, ActiveListed

\* The agent has not answered handleAsk, which ends.
LEMMA OpenGivesUp ==
  ASSUME NEW queue \in Seq(Calls), NEW hs, NEW after, NEW s \in Slots, Moves(hs, after, s, NoTask),
         None \notin Slots, NEW page, NEW rows, OpenOK(page, queue, hs, rows),
         hs[s].kind = "ask", hs[s].pc = "chat",
         NEW next, OpenPage(next), next.list = page.list, next.active = page.active
  PROVE  OpenOK(next, queue, after, rows)
<1>1. hs[s] # NoTask /\ AllFit(queue, hs, page.list)
  BY DEF NoTask, OpenOK
<1>2. \A i \in DOMAIN queue : queue[i].task # s
  <2>1. \A c : ~Fits(c, hs[s])
    BY DEF Fits, Saving
  <2>. QED  BY <1>1, <2>1 DEF AllFit, CallFits
<1>3. ASSUME NEW i \in DOMAIN queue, queue[i].task # None
      PROVE  after[queue[i].task] = hs[queue[i].task]
  <2>1. queue[i] \in Calls
    OBVIOUS
  <2>2. queue[i].task \in Slots \ {s}
    BY <1>2, <1>3, <2>1 DEF Calls
  <2>. QED  BY <2>2 DEF Moves
<1>4. AllFit(queue, after, page.list)
  BY <1>1, <1>3 DEF AllFit, CallFits
<1>5. AllSave(queue, after)
  <2>1. SavesOK(queue, NoTask, s)
    BY <1>2, NoneSaves DEF NoTask, Saving
  <2>. QED  BY <2>1 DEF AllSave, Moves, OpenOK
<1>6. AllSole(after, next)
  BY <1>1, SoleEnds DEF OpenOK, Exclusive
<1>7. Due(queue, after, page.list) = Due(queue, hs, page.list)
  <2>. SUFFICES ASSUME queue # <<>>
                PROVE  DueList(queue[1], after[queue[1].task], page.list) =
                         DueList(queue[1], hs[queue[1].task], page.list)
    BY DEF Due
  <2>1. 1 \in DOMAIN queue
    OBVIOUS
  <2>2. CASE queue[1].task = None
    <3>1. queue[1].op = "token"
      BY <1>1, <2>1, <2>2 DEF AllFit, CallFits
    <3>. QED  BY <3>1 DEF DueList
  <2>3. CASE queue[1].task # None
    BY <1>3, <2>1, <2>3
  <2>. QED  BY <2>2, <2>3
<1>8. page.active \in ToSet(page.list)
  BY <1>1, ActiveHere DEF OpenOK
<1>. QED  BY <1>4, <1>5, <1>6, <1>7, <1>8 DEF OpenOK, ActiveListed

\* The first message is saved: the list is due as it was.
LEMMA OpenSaved ==
  ASSUME NEW queue \in Seq(Calls), queue # <<>>, NEW later, Shifts(later, queue, 1, <<>>),
         NEW hs, NEW after, NEW s \in Slots, NEW k, Moves(hs, after, s, k), None \notin Slots,
         NEW page, NEW rows, OpenOK(page, queue, hs, rows),
         queue[1].task = s, queue[1].stage = "done",
         hs[s].kind = "ask", hs[s].pc = "saving",
         k.kind = "ask", k.pc = "saved one", k.conv = hs[s].conv, k.question = hs[s].question
  PROVE  OpenOK(page, later, after, rows)
<1>0. /\ later \in Seq(Calls) /\ 1 \in DOMAIN queue
      /\ \A i \in DOMAIN later : i + 1 \in DOMAIN queue /\ i + 1 > 1 /\ later[i] = queue[i + 1]
  BY LaterTail
<1>1. Saving(k) /\ Saving(hs[s]) /\ hs[s] # NoTask
  <2>1. NoTask.kind # "ask"
    BY DEF NoTask
  <2>2. hs[s].kind = "ask" /\ hs[s].pc = "saving" /\ k.kind = "ask" /\ k.pc = "saved one"
    OBVIOUS
  <2>. QED  BY ONLY <2>1, <2>2 DEF Saving
<1>2. SavesOK(queue, hs[s], s) /\ AllFit(queue, hs, page.list)
  BY DEF OpenOK, AllSave
<1>3. 2 \in DOMAIN queue /\ queue[2].task = s /\ SavesOK(later, k, s)
  BY <1>1, <1>2, FirstSaved
<1>4. 1 \in DOMAIN later /\ later[1] = queue[2]
  <2>1. TurnAt(later, s, 1, "assistant")
    BY <1>1, <1>3 DEF SavesOK
  <2>2. 1 \in DOMAIN later
    BY <2>1 DEF TurnAt
  <2>. QED  BY ONLY <1>0, <2>2
<1>5. AllFit(later, after, page.list)
  <2>1. ToSet(page.list) \subseteq ToSet(page.list)
    OBVIOUS
  <2>2. StillFit(queue, 1, s, k)
    <3>. SUFFICES ASSUME NEW i \in DOMAIN queue, queue[i].task = s
                  PROVE  Fits(queue[i], k)
      BY DEF StillFit
    <3>1. Fits(queue[i], hs[s])
      BY <1>2 DEF AllFit, CallFits
    <3>. QED  BY <1>1, <3>1 DEF Fits, Saving
  <2>3. /\ queue \in Seq(Calls) /\ queue # <<>> /\ Shifts(later, queue, 1, <<>>)
        /\ s \in Slots /\ Moves(hs, after, s, k) /\ None \notin Slots
    OBVIOUS
  <2>. QED  BY ONLY <1>2, <2>1, <2>2, <2>3, TailFits
<1>6. AllSave(later, after)
  <2>3. ASSUME NEW r \in Slots \ {s}
        PROVE  SavesOK(later, after[r], r)
    <3>1. after[r] = hs[r] /\ SavesOK(queue, hs[r], r)
      BY DEF Moves, OpenOK, AllSave
    <3>2. queue[1].task # r
      OBVIOUS
    <3>. QED  BY <3>1, <3>2, TailSaves
  <2>. QED  BY <1>3, <2>3 DEF AllSave, Moves
<1>7. AllSole(after, page)
  <2>1. AllSole(hs, page)
    BY DEF OpenOK
  <2>. QED  BY <1>1, <2>1, SoleGoesOn
<1>8. Due(later, after, page.list) = ToFront(page.list, k.conv)
  <2>0. later # <<>>
    BY ONLY <1>0, <1>4
  <2>1. after[s] = k /\ CallFits(later, after, page.list, 1) /\ later # <<>> /\ s # None
    BY <1>4, <1>5, <2>0 DEF AllFit, Moves
  <2>2. Fits(later[1], k) /\ later[1].task = s
    BY <1>3, <1>4, <2>1 DEF CallFits
  <2>3. later[1].op = "append" /\ later[1].conv = k.conv
    BY <2>2 DEF Fits, Saving
  <2>. QED  BY <2>1, <2>2, <2>3 DEF Due, DueList
<1>9. Due(queue, hs, page.list) = ToFront(page.list, k.conv)
  <2>1. Fits(queue[1], hs[s])
    BY <1>0, <1>2 DEF AllFit, CallFits
  <2>2. queue[1].op = "append" /\ queue[1].conv = k.conv
    BY <2>1 DEF Fits, Saving
  <2>. QED  BY <2>2 DEF Due, DueList
<1>10. page.active \in ToSet(page.list)
  BY <1>1, ActiveHere DEF OpenOK
<1>. QED  BY <1>5, <1>6, <1>7, <1>8, <1>9, <1>10 DEF OpenOK, ActiveListed

\* handleDelete goes on with its next call.
LEMMA OpenDeletes ==
  ASSUME NEW queue \in Seq(Calls), queue # <<>>, NEW c \in Calls,
         NEW later, Shifts(later, queue, 1, <<c>>),
         NEW hs, NEW after, NEW s \in Slots, NEW k, Moves(hs, after, s, k), None \notin Slots,
         NEW page, NEW rows, OpenOK(page, queue, hs, rows), queue[1].task = s,
         hs[s].kind = "delete", k.kind = "delete", k.pc \in {"creating", "loading"},
         NEW next, OpenPage(next), next.active = page.active, Busied(page) => Busied(next),
         NewFits(c, s, k, next.list), DueList(c, k, next.list) = Due(queue, hs, page.list),
         k.pc = "loading" \/ next.active \in ToSet(next.list)
  PROVE  OpenOK(next, later, after, rows)
<1>1. Len(queue) = 1
  BY SoleCall DEF OpenOK
<1>. PICK more : more = <<c>>
  OBVIOUS
<1>2. more \in Seq(Calls) /\ Len(more) = 1 /\ more[1] = c /\ Shifts(later, queue, 1, more)
  OBVIOUS
<1>3. /\ DOMAIN later = {1} /\ later[1] = c /\ 1 \in DOMAIN later /\ later # <<>>
      /\ later \in Seq(Calls) /\ DOMAIN queue = {1}
  <2>1. 1 - 1 + 1 = 1 /\ 1..1 = {1}
    OBVIOUS
  <2>2. queue \in Seq(Calls)
    OBVIOUS
  <2>. QED  BY ONLY <1>1, <1>2, <2>1, <2>2 DEF Shifts
<1>4. after[s] = k /\ c.task = s /\ s # None /\ Fits(c, k) /\ hs[s] # NoTask
  BY DEF Moves, NewFits, NoTask
<1>5. AllFit(later, after, next.list)
  <2>. SUFFICES CallFits(later, after, next.list, 1)
    BY <1>3 DEF AllFit
  <2>. QED  BY <1>3, <1>4 DEF CallFits, NewFits, Reaches
<1>6. AllSave(later, after)
  <2>1. SavesOK(later, k, s)
    BY <1>3, <1>4 DEF SavesOK, Saving
  <2>2. ASSUME NEW r \in Slots \ {s}
        PROVE  SavesOK(later, after[r], r)
    <3>1. after[r] = NoTask
      BY DEF Moves, OpenOK, AllSole, SoleOK
    <3>2. \A i \in DOMAIN later : later[i].task # r
      BY <1>3, <1>4
    <3>. QED  BY <3>1, <3>2, NoneSaves DEF NoTask, Saving
  <2>. QED  BY <2>1, <2>2 DEF AllSave, Moves
<1>7. AllSole(after, next)
  <2>1. AllSole(hs, page)
    BY DEF OpenOK
  <2>. QED  BY <1>4, <2>1, SoleGoesOn
<1>8. Due(later, after, next.list) = Due(queue, hs, page.list)
  BY <1>3, <1>4 DEF Due
<1>9. ActiveListed(after, next)
  BY <1>4 DEF ActiveListed
<1>. QED  BY <1>5, <1>6, <1>7, <1>8, <1>9 DEF OpenOK

-----------------------------------------------------------------------------
(***************************************************************************)
(* The open tab under the steps of the server.                             *)
(***************************************************************************)

\* The oldest call has a new stage and result.
Staged(later, queue, stage, result) ==
    /\ later \in Seq(Calls) /\ DOMAIN later = DOMAIN queue /\ 1 \in DOMAIN queue
    /\ \A i \in DOMAIN queue : i # 1 => later[i] = queue[i]
    /\ later[1].task = queue[1].task /\ later[1].op = queue[1].op
    /\ later[1].conv = queue[1].conv /\ later[1].msg = queue[1].msg
    /\ later[1].stage = stage /\ later[1].result = result

\* Serving the oldest call stages it.
LEMMA StageStages ==
  ASSUME CallsInv, NEW t \in Tabs, calls[t] # <<>>,
         NEW stage \in Served, NEW result \in Results, Stage(t, stage, result)
  PROVE  Staged(calls'[t], calls[t], stage, result)
<1>1. /\ calls' \in [Tabs -> Seq(Calls)]
      /\ calls'[t][1].stage = stage /\ calls'[t][1].result = result
      /\ DOMAIN calls'[t] = DOMAIN calls[t]
      /\ \A i \in DOMAIN calls[t] :
            /\ calls'[t][i].task = calls[t][i].task
            /\ calls'[t][i].op = calls[t][i].op
            /\ calls'[t][i].conv = calls[t][i].conv
            /\ calls'[t][i].msg = calls[t][i].msg
            /\ i # 1 => calls'[t][i] = calls[t][i]
  BY StageIs
<1>2. 1 \in DOMAIN calls[t]
  BY OldestIs
<1>. PICK later : later = calls'[t]
  OBVIOUS
<1>3. later \in Seq(Calls)
  BY <1>1
<1>. QED  BY <1>1, <1>2, <1>3 DEF Staged

\* A staged call is still the one its handler awaits.
LEMMA StagedFits ==
  ASSUME NEW queue, NEW later, NEW stage, NEW result, Staged(later, queue, stage, result),
         NEW hs, NEW list, AllFit(queue, hs, list), AllSave(queue, hs),
         Reaches(stage, queue[1].op, result)
  PROVE  AllFit(later, hs, list) /\ AllSave(later, hs)
<1>1. \A i \in DOMAIN queue : /\ later[i].task = queue[i].task /\ later[i].op = queue[i].op
                              /\ later[i].conv = queue[i].conv /\ later[i].msg = queue[i].msg
  BY DEF Staged
<1>2. AllFit(later, hs, list)
  <2>. SUFFICES ASSUME NEW i \in DOMAIN queue
                PROVE  CallFits(later, hs, list, i)
    BY DEF AllFit, Staged
  <2>1. CallFits(queue, hs, list, i)
    BY DEF AllFit
  <2>2. NamesListed(later[i], list)
    BY <1>1, <2>1 DEF CallFits, NamesListed
  <2>3. later[i].task # None => Fits(later[i], hs[later[i].task])
    BY <1>1, <2>1 DEF CallFits, Fits
  <2>4. Reaches(later[i].stage, later[i].op, later[i].result) /\ (i > 1 => later[i].stage = "sent")
    <3>1. CASE i = 1
      BY <1>1, <3>1 DEF Staged
    <3>2. CASE i # 1
      BY <2>1, <3>2 DEF Staged, CallFits
    <3>. QED  BY <3>1, <3>2
  <2>5. later[i].task = None => later[i].op = "token" /\ i = 1
    BY <1>1, <2>1 DEF CallFits
  <2>. QED  BY <2>2, <2>3, <2>4, <2>5 DEF CallFits
<1>3. AllSave(later, hs)
  <2>. SUFFICES ASSUME NEW s \in Slots
                PROVE  SavesOK(later, hs[s], s)
    BY DEF AllSave
  <2>1. SavesOK(queue, hs[s], s) /\ DOMAIN later = DOMAIN queue
    BY DEF AllSave, Staged
  <2>2. \A i, role : TurnAt(queue, s, i, role) => TurnAt(later, s, i, role)
    BY <1>1, <2>1 DEF TurnAt
  <2>. QED  BY <1>1, <2>1, <2>2 DEF SavesOK
<1>. QED  BY <1>2, <1>3

\* The open tab when its oldest call is served and the rows are as due.
LEMMA OpenServed ==
  ASSUME NEW queue, NEW later, NEW stage, NEW result, Staged(later, queue, stage, result),
         NEW hs, NEW page, NEW rows, OpenOK(page, queue, hs, rows),
         Reaches(stage, queue[1].op, result),
         NEW after, DueList(later[1], hs[later[1].task], page.list) = after
  PROVE  OpenOK(page, later, hs, after)
<1>1. AllFit(later, hs, page.list) /\ AllSave(later, hs)
  BY StagedFits DEF OpenOK
<1>2. later # <<>>
  BY DEF Staged
<1>3. Due(later, hs, page.list) = after
  BY <1>2 DEF Due
<1>. QED  BY <1>1, <1>3 DEF OpenOK

\* What the oldest call names exists, until it is deleted.
LEMMA HeadExists ==
  ASSUME NEW queue, NEW hs, NEW page, NEW rows \in Seq(Ids), OpenOK(page, queue, hs, rows),
         1 \in DOMAIN queue, queue[1].op \in {"rename", "delete", "append"},
         queue[1].stage \in {"sent", "checked"}
  PROVE  queue[1].conv \in ToSet(rows) /\ queue[1].conv \in ToSet(page.list)
<1>1. queue[1].conv \in ToSet(page.list) /\ page.list \in Seq(Ids)
  BY DEF OpenOK, AllFit, CallFits, NamesListed, OpenPage
<1>2. queue # <<>>
  OBVIOUS
<1>3. PICK list : list = DueList(queue[1], hs[queue[1].task], page.list)
  OBVIOUS
<1>4. list = rows
  BY <1>2, <1>3 DEF OpenOK, Due
<1>5. list = page.list \/ list = ToFront(page.list, queue[1].conv)
  BY <1>3 DEF DueList
<1>6. ToSet(list) = ToSet(page.list)
  BY <1>1, <1>5, FrontHolds
<1>. QED  BY <1>1, <1>4, <1>6

\* A read changes no row,
LEMMA ReadServed ==
  ASSUME NEW queue, NEW later, NEW result, Staged(later, queue, "done", result),
         NEW hs, NEW page, NEW rows, OpenOK(page, queue, hs, rows),
         queue[1].op \in {"token", "load"}, result \in Seq(Saved) \cup {None}
  PROVE  OpenOK(page, later, hs, rows)
<1>. PICK k : k = hs[queue[1].task]
  OBVIOUS
<1>1. queue # <<>> /\ later[1].op = queue[1].op /\ hs[later[1].task] = k
  BY DEF Staged
<1>2. DueList(later[1], k, page.list) = page.list /\ DueList(queue[1], k, page.list) = page.list
  BY <1>1 DEF DueList
<1>3. page.list = rows
  BY <1>1, <1>2 DEF OpenOK, Due
<1>. QED  BY <1>1, <1>2, <1>3, OpenServed DEF Reaches

\* nor does a check;
LEMMA CheckServed ==
  ASSUME NEW queue, NEW later, NEW result, Staged(later, queue, "checked", result),
         NEW hs, NEW page, NEW rows, OpenOK(page, queue, hs, rows),
         queue[1].op \in {"rename", "delete", "append"}, queue[1].stage = "sent"
  PROVE  OpenOK(page, later, hs, rows)
<1>. PICK k : k = hs[queue[1].task]
  OBVIOUS
<1>1. /\ queue # <<>> /\ later[1].op = queue[1].op /\ later[1].conv = queue[1].conv
      /\ later[1].stage = "checked" /\ hs[later[1].task] = k
  BY DEF Staged
<1>2. DueList(later[1], k, page.list) = DueList(queue[1], k, page.list)
  BY <1>1 DEF DueList
<1>3. DueList(queue[1], k, page.list) = rows
  BY <1>1 DEF OpenOK, Due
<1>. QED  BY <1>1, <1>2, <1>3, OpenServed DEF Reaches

\* a creation adds the row that is due,
LEMMA CreationServed ==
  ASSUME NEW queue, NEW later, NEW c \in Ids, Staged(later, queue, "written", c),
         NEW hs, NEW page, NEW rows \in Seq(Ids), OpenOK(page, queue, hs, rows),
         queue[1].op = "create", queue[1].stage = "sent"
  PROVE  OpenOK(page, later, hs, <<c>> \o rows)
<1>. PICK k, list : k = hs[queue[1].task] /\ list = DueList(queue[1], k, page.list)
  OBVIOUS
<1>1. /\ queue # <<>> /\ later[1].op = "create" /\ hs[later[1].task] = k
      /\ later[1].stage = "written" /\ later[1].result = c
  BY DEF Staged
<1>2. list = rows
  BY <1>1 DEF OpenOK, Due
<1>3. list = IF k.kind = "new" THEN page.list ELSE <<>>
  BY DEF DueList
<1>4. DueList(later[1], k, page.list) = IF k.kind = "new" THEN <<c>> \o page.list ELSE <<c>>
  BY <1>1 DEF DueList
<1>5. <<c>> \o <<>> = <<c>>
  OBVIOUS
<1>6. DueList(later[1], k, page.list) = <<c>> \o list
  BY ONLY <1>3, <1>4, <1>5
<1>7. PICK after : after = <<c>> \o rows
  OBVIOUS
<1>8. <<c>> \o list = after
  BY <1>2, <1>7
<1>9. OpenOK(page, later, hs, after)
  <2>1. DueList(later[1], hs[later[1].task], page.list) = after
    BY <1>1, <1>6, <1>8
  <2>2. Staged(later, queue, "written", c) /\ OpenOK(page, queue, hs, rows)
    OBVIOUS
  <2>3. Reaches("written", queue[1].op, c)
    BY DEF Reaches
  <2>. QED  BY ONLY <2>1, <2>2, <2>3, OpenServed
<1>. QED  BY <1>7, <1>9

\* a rename moves one to the front,
LEMMA RetitleServed ==
  ASSUME NEW queue, NEW later, NEW result, Staged(later, queue, "written", result),
         NEW hs, NEW page, NEW rows \in Seq(Ids), OpenOK(page, queue, hs, rows),
         queue[1].op = "rename", queue[1].stage = "checked"
  PROVE  OpenOK(page, later, hs, ToFront(rows, queue[1].conv))
<1>. PICK k, c, after : k = hs[queue[1].task] /\ c = queue[1].conv /\ after = ToFront(rows, c)
  OBVIOUS
<1>1. /\ queue # <<>> /\ later[1].op = "rename" /\ hs[later[1].task] = k /\ later[1].conv = c
      /\ later[1].stage = "written" /\ 1 \in DOMAIN queue
  BY DEF Staged
<1>2. c \in ToSet(page.list)
  BY <1>1, HeadExists
<1>3. DueList(queue[1], k, page.list) = page.list /\ DueList(later[1], k, page.list) = ToFront(page.list, c)
  BY <1>1 DEF DueList
<1>4. page.list = rows
  BY <1>1, <1>3 DEF OpenOK, Due
<1>5. ToFront(page.list, c) = after
  BY <1>4
<1>6. OpenOK(page, later, hs, after)
  BY <1>1, <1>3, <1>5, OpenServed DEF Reaches
<1>. QED  BY <1>6

\* so does a message,
LEMMA SaveServed ==
  ASSUME NEW queue, NEW later, NEW result, Staged(later, queue, "done", result),
         NEW hs, NEW page, NEW rows \in Seq(Ids), OpenOK(page, queue, hs, rows),
         queue[1].op = "append", queue[1].stage = "checked"
  PROVE  OpenOK(page, later, hs, ToFront(rows, queue[1].conv))
<1>. PICK k, c, after : k = hs[queue[1].task] /\ c = queue[1].conv /\ after = ToFront(rows, c)
  OBVIOUS
<1>1. /\ queue # <<>> /\ later[1].op = "append" /\ hs[later[1].task] = k /\ later[1].conv = c
      /\ later[1].stage = "done" /\ 1 \in DOMAIN queue
  BY DEF Staged
<1>2. c \in ToSet(page.list) /\ page.list \in Seq(Ids)
  BY <1>1, HeadExists DEF OpenOK, OpenPage
<1>3. c \in Ids
  BY <1>2 DEF ToSet
<1>4. DueList(later[1], k, page.list) = ToFront(page.list, c)
  BY <1>1 DEF DueList
<1>5. PICK list : list = DueList(queue[1], k, page.list)
  OBVIOUS
<1>6. list = page.list \/ list = ToFront(page.list, c)
  BY <1>5 DEF DueList
<1>7. list = rows
  BY <1>1, <1>5 DEF OpenOK, Due
<1>8. ToFront(list, c) = ToFront(page.list, c)
  BY <1>2, <1>3, <1>6, FrontTwice
<1>9. ToFront(list, c) = after
  BY <1>7
<1>10. OpenOK(page, later, hs, after)
  BY <1>1, <1>4, <1>8, <1>9, OpenServed DEF Reaches
<1>. QED  BY <1>10

\* and a deletion takes one away.
LEMMA DropServed ==
  ASSUME NEW queue, NEW later, NEW result, Staged(later, queue, "written", result),
         NEW hs, NEW page, NEW rows \in Seq(Ids), OpenOK(page, queue, hs, rows),
         queue[1].op = "delete", queue[1].stage = "checked"
  PROVE  OpenOK(page, later, hs, Without(rows, {queue[1].conv}))
<1>. PICK k, c, after : k = hs[queue[1].task] /\ c = queue[1].conv /\ after = Without(rows, {c})
  OBVIOUS
<1>1. /\ queue # <<>> /\ later[1].op = "delete" /\ hs[later[1].task] = k /\ later[1].conv = c
      /\ later[1].stage = "written" /\ 1 \in DOMAIN queue
  BY DEF Staged
<1>2. c \in ToSet(page.list) /\ page.list \in Seq(Ids)
  BY <1>1, HeadExists DEF OpenOK, OpenPage
<1>3. c \in Ids
  BY <1>2 DEF ToSet
<1>4. DueList(queue[1], k, page.list) = page.list
      /\ DueList(later[1], k, page.list) = Without(page.list, {c})
  BY <1>1 DEF DueList
<1>5. page.list = rows
  BY <1>1, <1>4 DEF OpenOK, Due
<1>6. Without(page.list, {c}) = after
  BY <1>5
<1>7. OpenOK(page, later, hs, after)
  BY <1>1, <1>4, <1>6, OpenServed DEF Reaches
<1>. QED  BY <1>7

\* The page is revalidated, and perhaps rendered again.
LEMMA RefreshServed ==
  ASSUME NEW queue, NEW later, Staged(later, queue, "done", queue[1].result),
         NEW hs, NEW page, NEW rows \in Seq(Ids), OpenOK(page, queue, hs, rows),
         queue[1].stage = "written"
  PROVE  OpenOK(page, later, hs, rows)
<1>. PICK k, list : k = hs[queue[1].task] /\ list = DueList(queue[1], k, page.list)
  OBVIOUS
<1>1. /\ queue # <<>> /\ later[1].op = queue[1].op /\ hs[later[1].task] = k
      /\ later[1].conv = queue[1].conv /\ later[1].result = queue[1].result
      /\ later[1].stage = "done" /\ 1 \in DOMAIN queue
  BY DEF Staged
<1>2. queue[1].op \in {"create", "rename", "delete"}
  BY <1>1 DEF OpenOK, AllFit, CallFits, Reaches
<1>3. DueList(later[1], k, page.list) = list
  BY <1>1, <1>2 DEF DueList
<1>4. list = rows
  BY <1>1 DEF OpenOK, Due
<1>. QED  BY <1>1, <1>2, <1>3, <1>4, OpenServed DEF Reaches

\* What the invariant says of one tab.
LEMMA MirrorFacts ==
  ASSUME MirrorInv, NEW t \in Tabs
  PROVE  /\ calls[t] \in Seq(Calls) /\ recent \in Seq(Ids) /\ Visible \in Seq(Ids)
         /\ ToSet(recent) = DOMAIN messages /\ ToSet(recent) \subseteq used
         /\ ToSet(Visible) = ToSet(recent) \ rendered
         /\ PageOK(tab[t], calls[t], task[t], Visible, rendered)
         /\ calls[t] # <<>> => tab[t].pc = "open" /\ OpenOK(tab[t], calls[t], task[t], Visible)
<1>1. /\ calls[t] \in Seq(Calls) /\ PageOK(tab[t], calls[t], task[t], Visible, rendered)
      /\ ToSet(recent) = DOMAIN messages
  BY DEF MirrorInv, DashboardInv, CallsInv, RowsMatch
<1>2. recent \in Seq(used) /\ used \subseteq Ids /\ DOMAIN messages \subseteq used
  BY DEF MirrorInv, DashboardInv, StoreInv
<1>3. recent \in Seq(Ids)
  BY <1>2
<1>4. Visible \in Seq(Ids) /\ ToSet(Visible) = ToSet(recent) \ rendered
  BY <1>3, FilteredSet DEF Visible
<1>5. calls[t] # <<>> => tab[t].pc = "open" /\ OpenOK(tab[t], calls[t], task[t], Visible)
  BY <1>1 DEF PageOK
<1>. QED  BY <1>1, <1>2, <1>3, <1>4, <1>5

\* A step that leaves the tables alone.
LEMMA RowsStay ==
  ASSUME RowsMatch, UNCHANGED store
  PROVE  RowsMatch' /\ Visible' = Visible /\ rendered' = rendered /\ recent' = recent
BY DEF RowsMatch, store, Visible

\* A row is created in both tables, ahead of the others,
LEMMA CreateMatches ==
  ASSUME RowsMatch, StoreInv, NEW c \in Ids, Create(c), rendered' \subseteq rendered \cup {c}
  PROVE  RowsMatch' /\ recent' = <<c>> \o recent /\ recent \in Seq(Ids) /\ c \notin rendered
<1>1. /\ c \notin used /\ recent' = <<c>> \o recent /\ used' = used \cup {c}
      /\ messages' = [d \in DOMAIN messages \cup {c} |-> IF d = c THEN <<>> ELSE messages[d]]
  BY DEF Create
<1>2. recent \in Seq(Ids)
  <2>1. recent \in Seq(used) /\ used \subseteq Ids
    BY DEF StoreInv
  <2>. QED  BY <2>1
<1>3. ToSet(<<c>> \o recent) = {c} \cup ToSet(recent)
  BY <1>2, FrontSet
<1>4. DOMAIN messages' = DOMAIN messages \cup {c}
  BY <1>1
<1>5. ToSet(recent') = DOMAIN messages'
  BY <1>1, <1>3, <1>4 DEF RowsMatch
<1>6. c \notin rendered /\ rendered' \subseteq used'
  BY <1>1 DEF RowsMatch
<1>. QED  BY <1>1, <1>2, <1>5, <1>6 DEF RowsMatch

\* for a handler or the page
LEMMA CreateShows ==
  ASSUME RowsMatch, StoreInv, NEW c \in Ids, Create(c), UNCHANGED rendered
  PROVE  RowsMatch' /\ Visible' = <<c>> \o Visible
<1>. PICK rows, gone : rows = recent /\ gone = rendered
  OBVIOUS
<1>1. /\ RowsMatch' /\ recent' = <<c>> \o rows /\ rows \in Seq(Ids) /\ c \notin gone
      /\ rendered' = gone
  BY CreateMatches
<1>2. Without(<<c>> \o rows, gone) = <<c>> \o Without(rows, gone)
  BY <1>1, FrontFilter
<1>. QED  BY <1>1, <1>2 DEF Visible

\* or in a rendering that the client does not take up,
LEMMA RenderHides ==
  ASSUME RowsMatch, StoreInv, NEW c \in Ids, Create(c), rendered' = rendered \cup {c},
         recent = <<>>
  PROVE  RowsMatch' /\ Visible' = Visible
<1>. PICK rows, gone, more : rows = recent /\ gone = rendered /\ more = gone \cup {c}
  OBVIOUS
<1>1. /\ RowsMatch' /\ recent' = <<c>> \o rows /\ rows \in Seq(Ids) /\ rendered' = more
  BY CreateMatches
<1>2. Without(<<c>> \o rows, more) = Without(rows, more)
  BY <1>1, FrontFilter
<1>3. Without(rows, more) = Without(rows, gone)
  <2>1. \A d \in ToSet(rows) : d \in more <=> d \in gone
    BY DEF ToSet
  <2>. QED  BY <1>1, <2>1, SameFilter
<1>. QED  BY <1>1, <1>2, <1>3 DEF Visible

\* moved in one,
LEMMA FrontMatches ==
  ASSUME RowsMatch, StoreInv, NEW c \in DOMAIN messages, recent' = ToFront(recent, c),
         DOMAIN messages' = DOMAIN messages, UNCHANGED <<used, rendered>>, c \notin rendered
  PROVE  RowsMatch' /\ Visible' = ToFront(Visible, c)
<1>. PICK rows, gone : rows = recent /\ gone = rendered
  OBVIOUS
<1>1. rows \in Seq(Ids) /\ c \in ToSet(rows) /\ c \in Ids
  <2>1. recent \in Seq(used) /\ used \subseteq Ids /\ DOMAIN messages \subseteq used
    BY DEF StoreInv
  <2>. QED  BY <2>1 DEF RowsMatch
<1>2. ToSet(ToFront(rows, c)) = ToSet(rows)
  BY <1>1, FrontHolds
<1>3. Without(ToFront(rows, c), gone) = ToFront(Without(rows, gone), c)
  BY <1>1, FrontFiltered
<1>. QED  BY <1>2, <1>3 DEF RowsMatch, Visible

\* and deleted in both.
LEMMA DropMatches ==
  ASSUME RowsMatch, StoreInv, NEW c, Drop(c)
  PROVE  RowsMatch' /\ Visible' = Without(Visible, {c})
<1>. PICK rows, gone : rows = recent /\ gone = rendered
  OBVIOUS
<1>1. rows \in Seq(Ids)
  <2>1. recent \in Seq(used) /\ used \subseteq Ids
    BY DEF StoreInv
  <2>. QED  BY <2>1
<1>2. /\ recent' = Without(rows, {c}) /\ DOMAIN messages' = DOMAIN messages \ {c}
      /\ rendered' = gone /\ used' = used
  BY DEF Drop, Restrict
<1>3. ToSet(Without(rows, {c})) = ToSet(rows) \ {c}
  BY <1>1, FilteredSet
<1>4. Without(Without(rows, {c}), gone) = Without(Without(rows, gone), {c})
  BY <1>1, FilteredTwice
<1>. QED  BY <1>2, <1>3, <1>4 DEF RowsMatch, Visible

\* The steps of the server keep what is due and what the rows say together.
LEMMA ServeMirrors ==
  ASSUME MirrorInv, NEW t \in Tabs, Serve(t), UNCHANGED clientVars, "server" \notin Faults
  PROVE  PageOK(tab'[t], calls'[t], task'[t], Visible', rendered') /\ RowsMatch'
<1>. PICK queue, hs, page, rows : queue = calls[t] /\ hs = task[t] /\ page = tab[t] /\ rows = Visible
  OBVIOUS
<1>. PICK later, after : later = calls'[t] /\ after = Visible'
  OBVIOUS
<1>1. CallsInv /\ StoreInv /\ RowsMatch
  BY DEF MirrorInv, DashboardInv
<1>2. calls[t] # <<>>
  BY DEF Serve, ServeRead, ServeCheck, ServeRename, ServeAppend, ServeDelete, ServeGone,
         ServeRevalidate, ServeThrows, ServeCreate, ServeRerender, At
<1>3. /\ queue[1] = Oldest(t) /\ queue[1] \in Calls /\ 1 \in DOMAIN queue
      /\ page.pc = "open" /\ OpenOK(page, queue, hs, rows) /\ rows \in Seq(Ids)
      /\ queue \in Seq(Calls)
  BY <1>1, <1>2, OldestIs, MirrorFacts
<1>4. ASSUME queue[1].op \in {"rename", "delete", "append"}, queue[1].stage \in {"sent", "checked"}
      PROVE  Exists(queue[1].conv) /\ queue[1].conv \notin rendered
  <2>1. queue[1].conv \in ToSet(rows)
    BY <1>3, <1>4, HeadExists
  <2>2. ToSet(Visible) = ToSet(recent) \ rendered /\ ToSet(recent) = DOMAIN messages
    BY MirrorFacts
  <2>. QED  BY <2>1, <2>2 DEF Exists
<1>5. ASSUME UNCHANGED store
      PROVE  RowsMatch' /\ after = rows
  BY <1>1, <1>5, RowsStay
<1>6. SUFFICES OpenOK(page, later, hs, after) /\ RowsMatch'
  BY <1>3 DEF PageOK, clientVars
<1>7. CASE ServeRead(t)
  <2>1. PICK result : result = IF Exists(Oldest(t).conv) THEN messages[Oldest(t).conv] ELSE None
    OBVIOUS
  <2>2. Stage(t, "done", result) /\ queue[1].op \in {"token", "load"} /\ UNCHANGED store
    BY <1>3, <1>7, <2>1 DEF ServeRead
  <2>3. result \in Seq(Saved) \cup {None} /\ result \in Results /\ "done" \in Served
    BY <1>1, <2>1 DEF StoreInv, Exists, Results, Served
  <2>4. Staged(later, queue, "done", result)
    BY <1>1, <1>2, <2>2, <2>3, StageStages
  <2>. QED  BY <1>3, <1>5, <2>2, <2>3, <2>4, ReadServed
<1>8. CASE ServeCheck(t)
  <2>1. queue[1].op \in {"rename", "delete", "append"} /\ queue[1].stage = "sent" /\ UNCHANGED store
    BY <1>3, <1>8 DEF ServeCheck, At
  <2>2. Stage(t, "checked", None)
    BY <1>3, <1>4, <1>8, <2>1 DEF ServeCheck
  <2>3. Staged(later, queue, "checked", None)
    BY <1>1, <1>2, <2>2, StageStages DEF Results, Served
  <2>. QED  BY <1>3, <1>5, <2>1, <2>3, CheckServed
<1>9. CASE ServeRename(t)
  <2>1. /\ queue[1].op = "rename" /\ queue[1].stage = "checked" /\ Stage(t, "written", None)
        /\ Exists(queue[1].conv) /\ Retitle(queue[1].conv)
    BY <1>3, <1>9 DEF ServeRename, At
  <2>2. Staged(later, queue, "written", None)
    BY <1>1, <1>2, <2>1, StageStages DEF Results, Served
  <2>3. /\ recent' = ToFront(recent, queue[1].conv) /\ DOMAIN messages' = DOMAIN messages
        /\ UNCHANGED <<used, rendered>>
    BY <2>1 DEF Retitle
  <2>4. RowsMatch' /\ after = ToFront(rows, queue[1].conv)
    BY <1>1, <1>4, <2>1, <2>3, FrontMatches DEF Exists
  <2>. QED  BY <1>3, <2>1, <2>2, <2>3, <2>4, RetitleServed
<1>10. CASE ServeAppend(t)
  <2>1. /\ queue[1].op = "append" /\ queue[1].stage = "checked" /\ Stage(t, "done", None)
        /\ Exists(queue[1].conv) /\ Add(queue[1].conv, queue[1].msg)
    BY <1>3, <1>10 DEF ServeAppend, At
  <2>2. Staged(later, queue, "done", None)
    BY <1>1, <1>2, <2>1, StageStages DEF Results, Served
  <2>3. /\ recent' = ToFront(recent, queue[1].conv) /\ DOMAIN messages' = DOMAIN messages
        /\ UNCHANGED <<used, rendered>>
    BY <2>1 DEF Add
  <2>4. RowsMatch' /\ after = ToFront(rows, queue[1].conv)
    BY <1>1, <1>4, <2>1, <2>3, FrontMatches DEF Exists
  <2>. QED  BY <1>3, <2>1, <2>2, <2>3, <2>4, SaveServed
<1>11. CASE ServeDelete(t)
  <2>1. /\ queue[1].op = "delete" /\ queue[1].stage = "checked" /\ Stage(t, "written", None)
        /\ Drop(queue[1].conv)
    BY <1>3, <1>11 DEF ServeDelete, At
  <2>2. Staged(later, queue, "written", None)
    BY <1>1, <1>2, <2>1, StageStages DEF Results, Served
  <2>3. RowsMatch' /\ after = Without(rows, {queue[1].conv})
    BY <1>1, <2>1, DropMatches
  <2>. QED  BY <1>3, <2>1, <2>2, <2>3, DropServed
<1>12. CASE ServeGone(t)
  <2>1. ~Exists(queue[1].conv) /\ queue[1].stage = "checked"
    BY <1>3, <1>12 DEF ServeGone, At
  <2>2. queue[1].op \in {"rename", "delete", "append"}
    BY <1>3, <2>1 DEF OpenOK, AllFit, CallFits, Reaches
  <2>. QED  BY <1>4, <2>1, <2>2
<1>13. CASE ServeRevalidate(t)
  <2>1. Stage(t, "done", queue[1].result) /\ queue[1].stage = "written" /\ UNCHANGED store
    BY <1>3, <1>13 DEF ServeRevalidate, At
  <2>2. Staged(later, queue, "done", queue[1].result)
    <3>1. queue[1].result \in Results /\ "done" \in Served
      BY <1>3 DEF Calls, Served
    <3>. QED  BY <1>1, <1>2, <2>1, <3>1, StageStages
  <2>. QED  BY <1>3, <1>5, <2>1, <2>2, RefreshServed
<1>14. CASE ServeThrows(t)
  BY <1>14 DEF ServeThrows
<1>15. ASSUME NEW c \in Ids, ServeCreate(t, c)
       PROVE  OpenOK(page, later, hs, after) /\ RowsMatch'
  <2>1. /\ queue[1].op = "create" /\ queue[1].stage = "sent" /\ Stage(t, "written", c) /\ Create(c)
        /\ UNCHANGED rendered
    BY <1>3, <1>15 DEF ServeCreate, At
  <2>2. Staged(later, queue, "written", c)
    BY <1>1, <1>2, <2>1, StageStages DEF Results, Served
  <2>3. RowsMatch' /\ after = <<c>> \o rows
    BY <1>1, <2>1, CreateShows
  <2>. QED  BY <1>3, <2>1, <2>2, <2>3, CreationServed
<1>16. ASSUME NEW c \in Ids, ServeRerender(t, c)
       PROVE  OpenOK(page, later, hs, after) /\ RowsMatch'
  <2>1. /\ queue[1].stage = "written" /\ Stage(t, "done", queue[1].result) /\ Create(c)
        /\ rendered' = rendered \cup {c} /\ recent = <<>>
    BY <1>3, <1>16 DEF ServeRerender, At
  <2>2. Staged(later, queue, "done", queue[1].result)
    <3>1. queue[1].result \in Results /\ "done" \in Served
      BY <1>3 DEF Calls, Served
    <3>. QED  BY <1>1, <1>2, <2>1, <3>1, StageStages
  <2>3. RowsMatch' /\ after = rows
    BY <1>1, <2>1, RenderHides
  <2>. QED  BY <1>3, <2>1, <2>2, <2>3, RefreshServed
<1>. QED  BY <1>7, <1>8, <1>9, <1>10, <1>11, <1>12, <1>13, <1>14, <1>15, <1>16 DEF Serve

-----------------------------------------------------------------------------
(***************************************************************************)
(* What a handler shows.                                                   *)
(***************************************************************************)

\* A page that differs in its list, its active conversation and its messages.
Shown(next, list, active, turns) ==
    OpenPage(next) /\ next.list = list /\ next.active = active /\ next.turns = turns

\* The fields of a page that shows other messages,
LEMMA ShowTurns ==
  ASSUME NEW page, OpenPage(page), NEW turns \in Seq(Turn), NEW loading
  PROVE  /\ Shown([page EXCEPT !.turns = turns], page.list, page.active, turns)
         /\ Busied(page) => Busied([page EXCEPT !.turns = turns])
         /\ Shown([page EXCEPT !.turns = turns, !.loading = loading], page.list, page.active, turns)
         /\ loading = TRUE => Busied([page EXCEPT !.turns = turns, !.loading = loading])
BY DEF OpenPage, Shown, PageFields, Busied

\* that is switching,
LEMMA ShowSwitching ==
  ASSUME NEW page, OpenPage(page), NEW switching
  PROVE  /\ Shown([page EXCEPT !.switching = switching], page.list, page.active, page.turns)
         /\ switching = TRUE => Busied([page EXCEPT !.switching = switching])
BY DEF OpenPage, Shown, PageFields, Busied

\* that shows another list,
LEMMA ShowList ==
  ASSUME NEW page, OpenPage(page), NEW list \in Seq(Ids), NEW loading, NEW switching
  PROVE  /\ Shown([page EXCEPT !.list = list], list, page.active, page.turns)
         /\ Busied(page) => Busied([page EXCEPT !.list = list])
         /\ Shown([page EXCEPT !.list = list, !.loading = loading], list, page.active, page.turns)
         /\ Shown([page EXCEPT !.list = list, !.switching = switching], list, page.active, page.turns)
         /\ switching = TRUE => Busied([page EXCEPT !.list = list, !.switching = switching])
BY DEF OpenPage, Shown, PageFields, Busied

\* or another conversation.
LEMMA ShowSwitch ==
  ASSUME NEW page, OpenPage(page), NEW list \in Seq(Ids), NEW active, NEW turns \in Seq(Turn),
         NEW switching
  PROVE  /\ Shown([page EXCEPT !.active = active, !.turns = turns, !.switching = switching],
                  page.list, active, turns)
         /\ Shown([page EXCEPT !.active = active, !.switching = switching, !.turns = turns],
                  page.list, active, turns)
         /\ Shown([page EXCEPT !.list = list, !.active = active, !.turns = turns,
                               !.switching = switching], list, active, turns)
BY DEF OpenPage, Shown, PageFields, Busied

-----------------------------------------------------------------------------
(***************************************************************************)
(* The client's actions.                                                   *)
(***************************************************************************)

\* What is saved can be shown.
LEMMA TurnsOfSaved == Seq(Saved) \subseteq Seq(Turn)
<1>1. Saved \subseteq Turn
  BY DEF Saved, Turn
<1>. QED  BY <1>1

\* What is shown is the tab.
LEMMA ShowIs ==
  ASSUME TabsInv, NEW t \in Tabs, NEW state, Show(t, state)
  PROVE  tab'[t] = state
BY DEF TabsInv, Show

\* The page as it opens, with its first call.
LEMMA OpenLoads ==
  ASSUME NEW page, NEW hs, \A s \in Slots : hs[s] = NoTask, None \notin Slots,
         NEW rows, page.list = rows, OpenPage(page), page.active \in ToSet(page.list),
         NEW queue, queue = <<Call(None, "token", None, None)>>
  PROVE  OpenOK(page, queue, hs, rows)
<1>1. PICK c : c = Call(None, "token", None, None)
  OBVIOUS
<1>2. c.task = None /\ c.op = "token" /\ c.stage = "sent"
  BY <1>1 DEF Call
<1>3. DOMAIN queue = {1} /\ queue[1] = c /\ queue # <<>>
  BY <1>1
<1>4. AllFit(queue, hs, page.list)
  BY <1>2, <1>3 DEF AllFit, CallFits, NamesListed, Reaches
<1>5. AllSave(queue, hs)
  BY <1>2, <1>3, NoneSaves, ZenonT(60) DEF AllSave, Saving, NoTask
<1>6. AllSole(hs, page)
  BY DEF AllSole, SoleOK, Exclusive, NoTask
<1>7. Due(queue, hs, page.list) = page.list
  BY <1>2, <1>3 DEF Due, DueList
<1>. QED  BY <1>4, <1>5, <1>6, <1>7 DEF OpenOK, ActiveListed

\* A visit renders the list as the rows are.
LEMMA VisitMirrors ==
  ASSUME MirrorInv, NEW t \in Tabs, Visit(t), "server" \notin Faults
  PROVE  PageOK(tab'[t], calls'[t], task'[t], Visible', rendered') /\ RowsMatch'
<1>0. /\ TabsInv /\ StoreInv /\ RowsMatch /\ PageOK(tab[t], calls[t], task[t], Visible, rendered)
      /\ recent \in Seq(Ids) /\ None \notin Slots /\ TabOK(tab[t]) /\ CallsInv
  BY MirrorFacts, DashboardAssumption DEF MirrorInv, DashboardInv, TabsInv
<1>1. CASE VisitFind(t)
  <2>. PICK state : state = [pc |-> "rendering", list |-> recent]
    OBVIOUS
  <2>1. state.pc = "rendering" /\ state.list = recent
    OBVIOUS
  <2>2. /\ tab'[t] = state /\ UNCHANGED <<serverVars, task>> /\ tab[t].pc = "closed"
    BY <1>0, <1>1, ShowIs DEF VisitFind
  <2>3. calls[t] = <<>> /\ rendered = {} /\ \A s \in Slots : task[t][s] = NoTask
    BY <1>0, <2>2 DEF PageOK
  <2>4. Visible = recent
    BY <1>0, <2>3, WithoutNothing DEF Visible
  <2>5. /\ calls' = calls /\ task' = task /\ Visible' = Visible /\ rendered' = rendered
        /\ RowsMatch'
    BY <1>0, <2>2, RowsStay DEF serverVars
  <2>. QED  BY <2>1, <2>2, <2>3, <2>4, <2>5 DEF PageOK
<1>2. CASE VisitFindsNone(t)
  <2>. PICK state : state = [pc |-> "creating"]
    OBVIOUS
  <2>1. state.pc = "creating"
    OBVIOUS
  <2>2. /\ tab'[t] = state /\ UNCHANGED <<serverVars, task>> /\ tab[t].pc = "closed"
        /\ recent = <<>>
    BY <1>0, <1>2, ShowIs DEF VisitFindsNone
  <2>3. calls[t] = <<>> /\ rendered = {} /\ \A s \in Slots : task[t][s] = NoTask
    BY <1>0, <2>2 DEF PageOK
  <2>4. Visible = <<>>
    BY <1>0, <2>2, <2>3, WithoutNothing DEF Visible
  <2>5. /\ calls' = calls /\ task' = task /\ Visible' = Visible /\ rendered' = rendered
        /\ RowsMatch'
    BY <1>0, <2>2, RowsStay DEF serverVars
  <2>. QED  BY <2>1, <2>2, <2>3, <2>4, <2>5 DEF PageOK
<1>3. ASSUME NEW c \in Ids, VisitCreate(t, c)
      PROVE  PageOK(tab'[t], calls'[t], task'[t], Visible', rendered') /\ RowsMatch'
  <2>. PICK list : list = <<c>>
    OBVIOUS
  <2>. PICK state : state = [pc |-> "rendering", list |-> list]
    OBVIOUS
  <2>1. state.pc = "rendering" /\ state.list = list
    OBVIOUS
  <2>2. /\ tab'[t] = state /\ UNCHANGED <<calls, task>> /\ tab[t].pc = "creating" /\ Create(c)
        /\ UNCHANGED rendered
    BY <1>0, <1>3, ShowIs DEF VisitCreate
  <2>3. /\ calls[t] = <<>> /\ rendered = {} /\ Visible = <<>>
        /\ \A s \in Slots : task[t][s] = NoTask
    BY <1>0, <2>2 DEF PageOK
  <2>4. RowsMatch' /\ Visible' = <<c>> \o Visible
    BY <1>0, <2>2, CreateShows
  <2>5. <<c>> \o <<>> = <<c>>
    OBVIOUS
  <2>6. Visible' = list
    BY <2>3, <2>4, <2>5
  <2>. QED  BY <2>1, <2>2, <2>3, <2>4, <2>6 DEF PageOK
<1>4. CASE VisitLoad(t)
  <2>. PICK list, c, turns : /\ list = tab[t].list /\ c = Head(list)
                             /\ turns = IF Exists(c) THEN messages[c] ELSE <<>>
    OBVIOUS
  <2>. PICK state : state = [pc |-> "open", list |-> list, active |-> c, turns |-> turns,
                             loading |-> FALSE, switching |-> FALSE]
    OBVIOUS
  <2>1. /\ tab'[t] = state /\ UNCHANGED <<store, task>> /\ tab[t].pc = "rendering"
        /\ calls' = [calls EXCEPT ![t] = Append(@, Call(None, "token", None, None))]
    BY <1>0, <1>4, ShowIs DEF VisitLoad
  <2>2. calls[t] = <<>> /\ (\A s \in Slots : task[t][s] = NoTask) /\ list = Visible
    BY <1>0, <2>1 DEF PageOK
  <2>3. list \in Seq(Ids) /\ list # <<>>
    BY <1>0, <2>1 DEF TabOK, Listed, StoreInv
  <2>4. c \in ToSet(list)
    BY <2>3 DEF ToSet
  <2>5. turns \in Seq(Turn)
    <3>1. Exists(c) => messages[c] \in Seq(Saved)
      BY <1>0 DEF StoreInv, Exists
    <3>2. <<>> \in Seq(Turn)
      OBVIOUS
    <3>. QED  BY <3>1, <3>2, TurnsOfSaved
  <2>6. OpenPage(state) /\ state.list = list /\ state.active = c /\ state.pc = "open"
    <3>1. state = [f \in PageFields |-> state[f]]
      BY DEF PageFields
    <3>2. state.list = list /\ state.active = c /\ state.pc = "open" /\ state.turns = turns
      OBVIOUS
    <3>. QED  BY <2>3, <2>5, <3>1, <3>2 DEF OpenPage
  <2>7. PICK queue : queue = <<Call(None, "token", None, None)>>
    OBVIOUS
  <2>8. calls'[t] = queue
    <3>1. calls'[t] = Append(calls[t], Call(None, "token", None, None))
      BY <1>0, <2>1 DEF CallsInv
    <3>2. Append(<<>>, Call(None, "token", None, None)) = <<Call(None, "token", None, None)>>
      OBVIOUS
    <3>. QED  BY <2>2, <2>7, <3>1, <3>2
  <2>9. OpenOK(state, queue, task[t], Visible)
    BY <1>0, <2>2, <2>4, <2>6, <2>7, OpenLoads
  <2>10. task' = task /\ Visible' = Visible /\ RowsMatch'
    BY <1>0, <2>1, RowsStay
  <2>. QED  BY <2>1, <2>6, <2>8, <2>9, <2>10 DEF PageOK
<1>5. CASE VisitFails(t)
  BY <1>5 DEF VisitFails
<1>. QED  BY <1>1, <1>2, <1>3, <1>4, <1>5 DEF Visit

\* A handler that begins with one call leaves the list as due.
LEMMA StartMirrors ==
  ASSUME MirrorInv, NEW t \in Tabs, NEW s \in Slots, MayStart(t, s), Patient,
         NEW k, NEW c \in Calls, Await(t, s, k, <<c>>), UNCHANGED store,
         NEW next, tab'[t] = next, OpenPage(next), next.list = tab[t].list,
         next.active = tab[t].active, Busied(tab[t]) => Busied(next),
         NewFits(c, s, k, tab[t].list), Begins(k, tab[t], next),
         k.kind = "delete" => \A r \in Slots : task[t][r] = NoTask
  PROVE  PageOK(tab'[t], calls'[t], task'[t], Visible', rendered') /\ RowsMatch'
<1>. PICK more : more = <<c>>
  OBVIOUS
<1>1. /\ CallsInv /\ TasksInv /\ RowsMatch /\ None \notin Slots /\ calls[t] \in Seq(Calls)
      /\ PageOK(tab[t], calls[t], task[t], Visible, rendered) /\ more \in Seq(Calls)
  BY MirrorFacts, DashboardAssumption DEF MirrorInv, DashboardInv
<1>2. Shifts(calls'[t], calls[t], 0, more) /\ Moves(task[t], task'[t], s, k)
  BY <1>1, AwaitShifts
<1>3. tab[t].pc = "open" /\ task[t][s] = NoTask /\ \A r \in Slots : task[t][r].kind # "delete"
  BY DEF MayStart, Running
<1>4. OpenOK(tab[t], calls[t], task[t], Visible)
  BY <1>1, <1>3 DEF PageOK
<1>. PICK queue, later, hs, after, page, rows :
        /\ queue = calls[t] /\ later = calls'[t] /\ hs = task[t] /\ after = task'[t]
        /\ page = tab[t] /\ rows = Visible
  OBVIOUS
<1>5. OpenOK(next, later, after, rows)
  <2>1. /\ queue \in Seq(Calls) /\ c \in Calls /\ Shifts(later, queue, 0, <<c>>) /\ s \in Slots
        /\ Moves(hs, after, s, k) /\ None \notin Slots
    BY <1>1, <1>2
  <2>2. /\ OpenOK(page, queue, hs, rows) /\ hs[s] = NoTask /\ \A r \in Slots : hs[r].kind # "delete"
    BY <1>3, <1>4
  <2>3. /\ OpenPage(next) /\ next.list = page.list /\ next.active = page.active
        /\ Busied(page) => Busied(next)
    OBVIOUS
  <2>4. /\ NewFits(c, s, k, page.list) /\ Begins(k, page, next)
        /\ k.kind = "delete" => \A r \in Slots : hs[r] = NoTask
    OBVIOUS
  <2>. QED  BY ONLY <2>1, <2>2, <2>3, <2>4, OpenBegins
<1>6. Visible' = Visible /\ RowsMatch'
  BY <1>1, RowsStay
<1>7. next.pc = "open"
  BY DEF OpenPage
<1>. QED  BY <1>5, <1>6, <1>7 DEF PageOK

\* What the invariant says of the open page.
LEMMA OpenIs ==
  ASSUME MirrorInv, NEW t \in Tabs, tab[t].pc = "open"
  PROVE  /\ OpenOK(tab[t], calls[t], task[t], Visible) /\ OpenPage(tab[t])
         /\ \A c \in ToSet(tab[t].list) : c \in used /\ c \in Ids
BY ListedKnown DEF MirrorInv, PageOK, OpenOK

\* A message has the question and the role it is made of.
LEMMA MessageIs ==
  ASSUME NEW q \in Questions, NEW role \in {"user", "assistant", "error"}
  PROVE  Message(q, role) \in Turn
BY DEF Message, Turn

\* A message more can be shown.
LEMMA MoreTurns ==
  ASSUME NEW page, OpenPage(page), NEW m \in Turn
  PROVE  Append(page.turns, m) \in Seq(Turn)
BY DEF OpenPage

\* What the owner does leaves the list as due.
LEMMA ActMirrors ==
  ASSUME MirrorInv, NEW t \in Tabs, Act(t), Patient
  PROVE  PageOK(tab'[t], calls'[t], task'[t], Visible', rendered') /\ RowsMatch'
<1>. PICK s \in Slots :
        \/ \E q \in Questions : StartAsk(t, s, q)
        \/ StartNew(t, s)
        \/ tab[t].pc = "open" /\ \E c \in ToSet(tab[t].list) :
                StartSelect(t, s, c) \/ StartRename(t, s, c) \/ StartDelete(t, s, c)
  BY DEF Act
<1>. PICK page : page = tab[t]
  OBVIOUS
<1>0. MayStart(t, s) /\ page.pc = "open" /\ OpenPage(page) /\ TabsInv
  <2>1. MayStart(t, s)
    BY DEF StartAsk, StartNew, StartSelect, StartRename, StartDelete
  <2>2. page.pc = "open"
    BY <2>1 DEF MayStart
  <2>. QED  BY <2>1, <2>2, OpenIs DEF MirrorInv, DashboardInv
<1>1. ASSUME NEW q \in Questions, StartAsk(t, s, q)
      PROVE  PageOK(tab'[t], calls'[t], task'[t], Visible', rendered') /\ RowsMatch'
  <2>. PICK k, c : /\ k = [kind |-> "ask", pc |-> "token", question |-> q, conv |-> AskIn(t)]
                   /\ c = Call(s, "token", None, None)
    OBVIOUS
  <2>. PICK turns : turns = Append(page.turns, Message(q, "user"))
    OBVIOUS
  <2>. PICK state : state = [page EXCEPT !.turns = turns, !.loading = TRUE]
    OBVIOUS
  <2>1. ~Busied(page) /\ Show(t, state) /\ Await(t, s, k, <<c>>) /\ UNCHANGED store
    BY <1>1 DEF StartAsk, AskCalls, Busy, Busied
  <2>2. tab'[t] = state
    BY <1>0, <2>1, ShowIs
  <2>3. turns \in Seq(Turn)
    BY <1>0, MessageIs, MoreTurns
  <2>4. Shown(state, page.list, page.active, turns) /\ Busied(state)
    BY <1>0, <2>3, ShowTurns
  <2>5. c \in Calls /\ c.task = s /\ c.op = "token" /\ c.stage = "sent"
    BY CallIs
  <2>6. k.kind = "ask" /\ k.pc = "token" /\ k.conv = page.active
    BY DEF AskIn
  <2>7. NewFits(c, s, k, page.list)
    BY <2>5, <2>6 DEF NewFits, Fits, NamesListed
  <2>8. Begins(k, page, state)
    BY <2>1, <2>4, <2>6 DEF Begins, Ahead, Saving
  <2>. QED  BY <1>0, <2>1, <2>2, <2>4, <2>5, <2>6, <2>7, <2>8, StartMirrors DEF Shown
<1>2. CASE StartNew(t, s)
  <2>. PICK k, c : k = [kind |-> "new"] /\ c = Call(s, "create", None, None)
    OBVIOUS
  <2>. PICK state : state = [page EXCEPT !.switching = TRUE]
    OBVIOUS
  <2>1. ~Busied(page) /\ Show(t, state) /\ Await(t, s, k, <<c>>) /\ UNCHANGED store
    BY <1>2 DEF StartNew, Busy, Busied
  <2>2. tab'[t] = state
    BY <1>0, <2>1, ShowIs
  <2>4. Shown(state, page.list, page.active, page.turns) /\ Busied(state)
    BY <1>0, ShowSwitching
  <2>5. c \in Calls /\ c.task = s /\ c.op = "create" /\ c.stage = "sent"
    BY CallIs
  <2>6. k.kind = "new"
    OBVIOUS
  <2>7. NewFits(c, s, k, page.list)
    BY <2>5, <2>6 DEF NewFits, Fits, NamesListed
  <2>8. Begins(k, page, state)
    BY <2>1, <2>4, <2>6 DEF Begins, Ahead, Saving
  <2>. QED  BY <1>0, <2>1, <2>2, <2>4, <2>5, <2>6, <2>7, <2>8, StartMirrors DEF Shown
<1>3. ASSUME NEW d \in ToSet(page.list), StartSelect(t, s, d)
      PROVE  PageOK(tab'[t], calls'[t], task'[t], Visible', rendered') /\ RowsMatch'
  <2>. PICK k, c : k = [kind |-> "select", conv |-> d] /\ c = Call(s, "load", d, None)
    OBVIOUS
  <2>. PICK state : state = [page EXCEPT !.switching = TRUE]
    OBVIOUS
  <2>1. ~Busied(page) /\ Show(t, state) /\ Await(t, s, k, <<c>>) /\ UNCHANGED store
    BY <1>3 DEF StartSelect, Busy, Busied
  <2>2. tab'[t] = state
    BY <1>0, <2>1, ShowIs
  <2>3. d \in Ids
    BY <1>0, OpenIs
  <2>4. Shown(state, page.list, page.active, page.turns) /\ Busied(state)
    BY <1>0, ShowSwitching
  <2>5. c \in Calls /\ c.task = s /\ c.op = "load" /\ c.stage = "sent" /\ c.conv = d
    BY <2>3, CallIs DEF Call
  <2>6. k.kind = "select" /\ k.conv = d
    OBVIOUS
  <2>7. NewFits(c, s, k, page.list)
    BY <2>5, <2>6 DEF NewFits, Fits, NamesListed
  <2>8. Begins(k, page, state)
    BY <2>1, <2>4, <2>6 DEF Begins, Ahead, Saving
  <2>. QED  BY <1>0, <2>1, <2>2, <2>4, <2>5, <2>6, <2>7, <2>8, StartMirrors DEF Shown
<1>4. ASSUME NEW d \in ToSet(page.list), StartRename(t, s, d)
      PROVE  PageOK(tab'[t], calls'[t], task'[t], Visible', rendered') /\ RowsMatch'
  <2>. PICK k, c : k = [kind |-> "rename", conv |-> d] /\ c = Call(s, "rename", d, None)
    OBVIOUS
  <2>1. tab'[t] = page /\ Await(t, s, k, <<c>>) /\ UNCHANGED store
    BY <1>4 DEF StartRename
  <2>3. d \in Ids
    BY <1>0, OpenIs
  <2>5. c \in Calls /\ c.task = s /\ c.op = "rename" /\ c.stage = "sent" /\ c.conv = d
    BY <2>3, CallIs DEF Call
  <2>6. k.kind = "rename" /\ k.conv = d
    OBVIOUS
  <2>7. NewFits(c, s, k, page.list)
    BY <2>5, <2>6 DEF NewFits, Fits, NamesListed
  <2>8. Begins(k, page, page)
    BY <2>6 DEF Begins, Ahead, Saving, Exclusive
  <2>. QED  BY <1>0, <2>1, <2>5, <2>6, <2>7, <2>8, StartMirrors
<1>5. ASSUME NEW d \in ToSet(page.list), StartDelete(t, s, d)
      PROVE  PageOK(tab'[t], calls'[t], task'[t], Visible', rendered') /\ RowsMatch'
  <2>. PICK k, c : /\ k = [kind |-> "delete", pc |-> "deleting", conv |-> d,
                           list |-> page.list, active |-> page.active]
                   /\ c = Call(s, "delete", d, None)
    OBVIOUS
  <2>1. /\ tab'[t] = page /\ Await(t, s, k, <<c>>) /\ UNCHANGED store
        /\ \A r \in Slots : task[t][r] = NoTask
    BY <1>5 DEF StartDelete
  <2>3. d \in Ids
    BY <1>0, OpenIs
  <2>5. c \in Calls /\ c.task = s /\ c.op = "delete" /\ c.stage = "sent" /\ c.conv = d
    BY <2>3, CallIs DEF Call
  <2>6. /\ k.kind = "delete" /\ k.pc = "deleting" /\ k.conv = d
        /\ k.list = page.list /\ k.active = page.active
    OBVIOUS
  <2>7. NewFits(c, s, k, page.list)
    BY <2>5, <2>6 DEF NewFits, Fits, NamesListed
  <2>8. Begins(k, page, page)
    BY <2>6 DEF Begins, Ahead, Saving, Exclusive
  <2>. QED  BY <1>0, <2>1, <2>5, <2>6, <2>7, <2>8, StartMirrors
<1>. QED  BY <1>1, <1>2, <1>3, <1>4, <1>5

\* So does the agent's answer, or its failure.
LEMMA ChatMirrors ==
  ASSUME MirrorInv, NEW t \in Tabs, NEW s \in Slots, Chat(t, s)
  PROVE  PageOK(tab'[t], calls'[t], task'[t], Visible', rendered') /\ RowsMatch'
<1>. PICK k, q : k = task[t][s] /\ q = k.question
  OBVIOUS
<1>. PICK queue, later, hs, after, page, rows :
        /\ queue = calls[t] /\ later = calls'[t] /\ hs = task[t] /\ after = task'[t]
        /\ page = tab[t] /\ rows = Visible
  OBVIOUS
<1>1. k.kind = "ask" /\ k.pc = "chat" /\ UNCHANGED store /\ hs[s] = k
  BY DEF Chat, ChatAnswers, ChatFails, serverVars
<1>2. /\ TabsInv /\ TasksInv /\ CallsInv /\ RowsMatch /\ None \notin Slots /\ queue \in Seq(Calls)
      /\ PageOK(page, queue, hs, rows, rendered)
  BY MirrorFacts, DashboardAssumption DEF MirrorInv, DashboardInv
<1>3. k # NoTask
  BY <1>1 DEF NoTask
<1>4. page.pc = "open" /\ OpenOK(page, queue, hs, rows) /\ OpenPage(page)
  BY <1>1, <1>2, <1>3 DEF PageOK, OpenOK
<1>5. k \in AskTask /\ q \in Questions /\ k.conv \in Ids
  <2>1. k \in Tasks /\ DOMAIN asked \subseteq Questions /\ used \subseteq Ids
    BY <1>2 DEF TasksInv, MirrorInv, DashboardInv, AskedInv, StoreInv
  <2>2. k \in AskTask
    BY <1>1, <2>1, TaskKinds
  <2>. QED  BY <2>1, <2>2 DEF AskTask
<1>6. k.conv \in ToSet(page.list)
  <2>1. page.active = k.conv
    BY <1>1, <1>4 DEF OpenOK, AllSole, SoleOK
  <2>2. page.active \in ToSet(page.list)
    BY <1>1, <1>3, <1>4, ActiveHere DEF OpenOK
  <2>. QED  BY <2>1, <2>2
<1>7. Visible' = rows /\ RowsMatch'
  BY <1>1, <1>2, RowsStay
<1>8. CASE ChatAnswers(t, s)
  <2>. PICK turns : turns = Append(page.turns, Message(q, "assistant"))
    OBVIOUS
  <2>. PICK state : state = [page EXCEPT !.turns = turns]
    OBVIOUS
  <2>. PICK n, more : n = [k EXCEPT !.pc = "saving"] /\ more = TurnCalls(s, k.conv, q)
    OBVIOUS
  <2>1. Show(t, state) /\ Await(t, s, n, more)
    BY <1>8 DEF ChatAnswers
  <2>2. n.kind = "ask" /\ n.pc = "saving" /\ n.conv = k.conv /\ n.question = q
    BY <1>1, <1>5 DEF AskTask
  <2>3. /\ more \in Seq(Calls) /\ Len(more) = 2
        /\ more[1] = Call(s, "append", k.conv, Message(q, "user"))
        /\ more[2] = Call(s, "append", k.conv, Message(q, "assistant"))
    <3>. PICK c, d : /\ c = Call(s, "append", k.conv, Message(q, "user"))
                     /\ d = Call(s, "append", k.conv, Message(q, "assistant"))
      OBVIOUS
    <3>1. c \in Calls /\ d \in Calls
      BY <1>5 DEF Calls, Call, Saved, Message, Results
    <3>2. more = <<c, d>>
      BY DEF TurnCalls
    <3>. QED  BY <3>1, <3>2
  <2>4. Shifts(later, queue, 0, more) /\ Moves(hs, after, s, n)
    BY <1>2, <2>1, <2>3, AwaitShifts
  <2>5. turns \in Seq(Turn)
    BY <1>4, <1>5, MessageIs, MoreTurns
  <2>6. Shown(state, page.list, page.active, turns) /\ (Busied(page) => Busied(state))
    BY <1>4, <2>5, ShowTurns
  <2>7. AllNew(more, s, n, page.list)
    <3>1. \A role : NewFits(Call(s, "append", k.conv, Message(q, role)), s, n, page.list)
      BY <1>6, <2>2 DEF NewFits, Call, Message, Fits, Saving, NamesListed
    <3>2. 1..2 = {1, 2}
      OBVIOUS
    <3>. QED  BY <2>3, <3>1, <3>2 DEF AllNew
  <2>8. more[1].msg.role = "user" /\ more[2].msg.role = "assistant"
    BY <2>3 DEF Call, Message
  <2>9. OpenOK(state, later, after, rows)
    <3>1. /\ OpenPage(state) /\ state.list = page.list /\ state.active = page.active
          /\ Busied(page) => Busied(state)
      BY <2>6 DEF Shown
    <3>2. hs[s].kind = "ask" /\ hs[s].pc = "chat" /\ n.conv = hs[s].conv /\ s \in Slots
      BY <1>1, <2>2
    <3>3. None \notin Slots /\ queue \in Seq(Calls) /\ OpenOK(page, queue, hs, rows)
      BY <1>2, <1>4
    <3>. QED  BY ONLY <2>2, <2>3, <2>4, <2>7, <2>8, <3>1, <3>2, <3>3, OpenAnswered
  <2>10. tab'[t] = state /\ state.pc = "open"
    BY <1>2, <2>1, <2>6, ShowIs DEF Shown, OpenPage
  <2>. QED  BY <1>7, <2>9, <2>10 DEF PageOK
<1>9. CASE ChatFails(t, s)
  <2>. PICK turns : turns = Append(page.turns, Message(q, "error"))
    OBVIOUS
  <2>. PICK state : state = [page EXCEPT !.turns = turns, !.loading = FALSE]
    OBVIOUS
  <2>1. Show(t, state) /\ task' = [task EXCEPT ![t][s] = NoTask] /\ later = queue
    BY <1>9 DEF ChatFails, Failed, serverVars
  <2>2. Moves(hs, after, s, NoTask)
    BY <1>2, <2>1, TaskMoves
  <2>3. turns \in Seq(Turn)
    BY <1>4, <1>5, MessageIs, MoreTurns
  <2>4. Shown(state, page.list, page.active, turns)
    BY <1>4, <2>3, ShowTurns
  <2>5. OpenOK(state, queue, after, rows)
    <3>1. OpenPage(state) /\ state.list = page.list /\ state.active = page.active
      BY <2>4 DEF Shown
    <3>2. hs[s].kind = "ask" /\ hs[s].pc = "chat" /\ s \in Slots
      BY <1>1
    <3>3. None \notin Slots /\ queue \in Seq(Calls) /\ OpenOK(page, queue, hs, rows)
      BY <1>2, <1>4
    <3>. QED  BY ONLY <2>2, <3>1, <3>2, <3>3, OpenGivesUp
  <2>6. tab'[t] = state /\ state.pc = "open"
    BY <1>2, <2>1, <2>4, ShowIs DEF Shown, OpenPage
  <2>. QED  BY <1>7, <2>1, <2>5, <2>6 DEF PageOK
<1>. QED  BY <1>8, <1>9 DEF Chat

\* The call that returned and the handler that awaits it.
LEMMA ReturnedIs ==
  ASSUME MirrorInv, NEW t \in Tabs, NEW kind, NEW stage, Awaited(t, kind, stage)
  PROVE  /\ calls[t] # <<>> /\ Oldest(t).task \in Slots /\ Oldest(t).task # None
         /\ calls[t][1] = Oldest(t) /\ 1 \in DOMAIN calls[t]
         /\ Oldest(t).stage = stage /\ stage # "failed"
         /\ Waiting(t) = task[t][Oldest(t).task] /\ Waiting(t).kind = kind /\ Waiting(t) \in Tasks
         /\ tab[t].pc = "open" /\ OpenPage(tab[t]) /\ OpenOK(tab[t], calls[t], task[t], Visible)
         /\ Fits(Oldest(t), Waiting(t)) /\ NamesListed(Oldest(t), tab[t].list)
         /\ CallOK(Oldest(t)) /\ Oldest(t) \in Calls
         /\ Reaches(stage, Oldest(t).op, Oldest(t).result)
         /\ Due(calls[t], task[t], tab[t].list) = DueList(Oldest(t), Waiting(t), tab[t].list)
<1>0. DashboardInv
  BY DEF MirrorInv
<1>1. /\ calls[t] # <<>> /\ Oldest(t).task # None /\ Oldest(t).task \in Slots
      /\ Oldest(t).stage = stage /\ Waiting(t).kind = kind /\ Waiting(t) \in Tasks
      /\ CallOK(Oldest(t)) /\ Oldest(t) = calls[t][1]
  BY <1>0, AnsweredIs
<1>2. 1 \in DOMAIN calls[t] /\ Oldest(t) \in Calls
  BY <1>0, <1>1, OldestIs DEF DashboardInv
<1>3. tab[t].pc = "open" /\ OpenOK(tab[t], calls[t], task[t], Visible)
  BY <1>1, MirrorFacts
<1>4. Waiting(t) = task[t][Oldest(t).task]
  BY DEF Waiting
<1>5. OpenPage(tab[t]) /\ CallFits(calls[t], task[t], tab[t].list, 1)
  BY <1>2, <1>3 DEF OpenOK, AllFit
<1>6. Fits(Oldest(t), Waiting(t)) /\ NamesListed(Oldest(t), tab[t].list) /\ Oldest(t).stage # "failed"
  BY <1>1, <1>4, <1>5 DEF CallFits, Reaches
<1>8. Reaches(stage, Oldest(t).op, Oldest(t).result)
  BY <1>1, <1>5 DEF CallFits
<1>7. Due(calls[t], task[t], tab[t].list) = DueList(Oldest(t), Waiting(t), tab[t].list)
  BY <1>1, <1>4 DEF Due
<1>. QED  BY <1>1, <1>2, <1>3, <1>4, <1>5, <1>6, <1>7, <1>8

\* A handler that ends shows the list that was due.
LEMMA EndMirrors ==
  ASSUME MirrorInv, NEW t \in Tabs, NEW kind, NEW stage, Awaited(t, kind, stage), Finish(t),
         UNCHANGED store, Saving(Waiting(t)) => Waiting(t).pc = "saved one",
         NEW next, Show(t, next), OpenPage(next),
         next.list = DueList(Oldest(t), Waiting(t), tab[t].list),
         next.active \in ToSet(next.list),
         \/ kind \in {"ask", "new", "select", "delete"}
         \/ next.active = tab[t].active /\ (Busied(tab[t]) => Busied(next)),
         kind = "delete" \/ ToSet(tab[t].list) \subseteq ToSet(next.list)
  PROVE  PageOK(tab'[t], calls'[t], task'[t], Visible', rendered') /\ RowsMatch'
<1>. PICK queue, later, hs, after, page, rows, s :
        /\ queue = calls[t] /\ later = calls'[t] /\ hs = task[t] /\ after = task'[t]
        /\ page = tab[t] /\ rows = Visible /\ s = Oldest(t).task
  OBVIOUS
<1>1. /\ TabsInv /\ TasksInv /\ CallsInv /\ RowsMatch /\ None \notin Slots /\ queue \in Seq(Calls)
  BY MirrorFacts, DashboardAssumption DEF MirrorInv, DashboardInv
<1>2. /\ queue # <<>> /\ s \in Slots /\ s # None /\ queue[1].task = s /\ 1 \in DOMAIN queue
      /\ hs[s] = Waiting(t) /\ hs[s].kind = kind /\ OpenOK(page, queue, hs, rows)
      /\ Due(queue, hs, page.list) = next.list
  <2>1. /\ calls[t] # <<>> /\ Oldest(t).task \in Slots /\ Oldest(t).task # None
        /\ calls[t][1] = Oldest(t) /\ 1 \in DOMAIN calls[t]
        /\ Waiting(t) = task[t][Oldest(t).task] /\ Waiting(t).kind = kind
        /\ OpenOK(tab[t], calls[t], task[t], Visible)
        /\ Due(calls[t], task[t], tab[t].list) = DueList(Oldest(t), Waiting(t), tab[t].list)
    BY ReturnedIs
  <2>. QED  BY <2>1
<1>3. \A i \in DOMAIN queue : queue[i].task = s => i = 1
  <2>1. AllSave(queue, hs) /\ (Saving(hs[s]) => hs[s].pc = "saved one")
    BY <1>2 DEF OpenOK
  <2>. QED  BY <1>2, <2>1, NoFurther
<1>4. Shifts(later, queue, 1, <<>>) /\ Moves(hs, after, s, NoTask)
  <2>1. \A i \in DOMAIN calls[t] : i > 1 => calls[t][i].task # Oldest(t).task
    <3>1. \A i \in DOMAIN queue : i > 1 => queue[i].task # s
      BY ONLY <1>3
    <3>. QED  BY <3>1
  <2>2. calls[t] # <<>> /\ Oldest(t).task # None
    BY <1>2
  <2>. QED  BY <1>1, <2>1, <2>2, FinishShifts
<1>5. OpenOK(next, later, after, rows)
  <2>1. /\ Exclusive(hs[s]) \/ hs[s].kind = "delete"
           \/ (next.active = page.active /\ (Busied(page) => Busied(next)))
        /\ hs[s].kind = "delete" \/ ToSet(page.list) \subseteq ToSet(next.list)
    BY <1>2 DEF Exclusive
  <2>2. OpenPage(next) /\ next.active \in ToSet(next.list) /\ (Saving(hs[s]) => hs[s].pc = "saved one")
    BY <1>2
  <2>3. next.list = Due(queue, hs, page.list)
    BY <1>2
  <2>. QED  BY ONLY <1>1, <1>2, <1>4, <2>1, <2>2, <2>3, OpenEnds
<1>6. tab'[t] = next /\ next.pc = "open"
  BY <1>1, ShowIs DEF OpenPage
<1>7. Visible' = rows /\ RowsMatch'
  BY <1>1, RowsStay
<1>. QED  BY <1>5, <1>6, <1>7 DEF PageOK

\* A touched conversation comes to the front of a list that has it.
LEMMA TouchedFront ==
  ASSUME NEW list \in Seq(Ids), NEW c \in ToSet(list)
  PROVE  /\ Touched(list, c) = ToFront(list, c) /\ ToFront(list, c) \in Seq(Ids)
         /\ ToSet(ToFront(list, c)) = ToSet(list)
BY FrontHolds DEF Touched

\* The handler of a question,
LEMMA AskMirrors ==
  ASSUME MirrorInv, NEW t \in Tabs,
         TokenReturns(t) \/ TokenFails(t) \/ SavedOne(t) \/ SavedBoth(t) \/ SaveFails(t)
  PROVE  PageOK(tab'[t], calls'[t], task'[t], Visible', rendered') /\ RowsMatch'
<1>. PICK queue, later, hs, after, page, rows, s, k :
        /\ queue = calls[t] /\ later = calls'[t] /\ hs = task[t] /\ after = task'[t]
        /\ page = tab[t] /\ rows = Visible /\ s = Oldest(t).task /\ k = Waiting(t)
  OBVIOUS
<1>1. /\ TabsInv /\ TasksInv /\ CallsInv /\ RowsMatch /\ None \notin Slots /\ queue \in Seq(Calls)
  BY MirrorFacts, DashboardAssumption DEF MirrorInv, DashboardInv
<1>2. Awaited(t, "ask", "done")
  <2>1. ~ Awaited(t, "ask", "failed")
    BY ReturnedIs
  <2>. QED  BY <2>1 DEF TokenReturns, TokenFails, SavedOne, SavedBoth, SaveFails
<1>3. /\ queue # <<>> /\ s \in Slots /\ s # None /\ queue[1] = Oldest(t) /\ queue[1].task = s
      /\ hs[s] = k /\ k.kind = "ask" /\ OpenOK(page, queue, hs, rows) /\ k \in AskTask
      /\ queue[1].stage = "done" /\ OpenPage(page) /\ page.pc = "open"
      /\ Fits(queue[1], k) /\ NamesListed(queue[1], page.list)
  BY <1>2, ReturnedIs, TaskKinds
<1>4. ASSUME NEW n, Resume(t, n, <<>>), UNCHANGED <<store, tab>>, OpenOK(page, later, after, rows)
      PROVE  PageOK(tab'[t], calls'[t], task'[t], Visible', rendered') /\ RowsMatch'
  BY <1>1, <1>3, <1>4, RowsStay DEF PageOK
<1>5. ASSUME NEW n, Resume(t, n, <<>>)
      PROVE  Shifts(later, queue, 1, <<>>) /\ Moves(hs, after, s, n)
  <2>0. PICK more : more = <<>>
    OBVIOUS
  <2>1. more = <<>> /\ more \in Seq(Calls)
    BY ONLY <2>0
  <2>2. calls[t] # <<>> /\ Oldest(t).task # None /\ Resume(t, n, more)
    BY <1>3, <1>5, <2>1
  <2>3. Shifts(calls'[t], calls[t], 1, more) /\ Moves(task[t], task'[t], Oldest(t).task, n)
    BY <1>1, <2>1, <2>2, ResumeShifts
  <2>. QED  BY <2>1, <2>3
<1>6. CASE TokenReturns(t)
  <2>. PICK n : n = [k EXCEPT !.pc = "chat"]
    OBVIOUS
  <2>1. Resume(t, n, <<>>) /\ UNCHANGED <<store, tab>> /\ k.pc = "token"
    BY <1>6 DEF TokenReturns
  <2>2. n.kind = "ask" /\ n.pc = "chat" /\ n.conv = hs[s].conv /\ hs[s].pc = "token" /\ hs[s].kind = "ask"
    BY <1>3, <2>1 DEF AskTask
  <2>3. Shifts(later, queue, 1, <<>>) /\ Moves(hs, after, s, n)
    BY <1>5, <2>1
  <2>4. OpenOK(page, later, after, rows)
    BY ONLY <1>1, <1>3, <2>2, <2>3, OpenAsks
  <2>. QED  BY <1>4, <2>1, <2>4
<1>7. CASE SavedOne(t)
  <2>. PICK n : n = [k EXCEPT !.pc = "saved one"]
    OBVIOUS
  <2>1. Resume(t, n, <<>>) /\ UNCHANGED <<store, tab>> /\ k.pc = "saving"
    BY <1>7 DEF SavedOne
  <2>2. /\ n.kind = "ask" /\ n.pc = "saved one" /\ n.conv = hs[s].conv /\ n.question = hs[s].question
        /\ hs[s].pc = "saving" /\ hs[s].kind = "ask"
    BY <1>3, <2>1 DEF AskTask
  <2>3. Shifts(later, queue, 1, <<>>) /\ Moves(hs, after, s, n)
    BY <1>5, <2>1
  <2>4. OpenOK(page, later, after, rows)
    BY ONLY <1>1, <1>3, <2>2, <2>3, OpenSaved
  <2>. QED  BY <1>4, <2>1, <2>4
<1>8. CASE SavedBoth(t)
  <2>. PICK list : list = Touched(page.list, k.conv)
    OBVIOUS
  <2>. PICK state : state = [page EXCEPT !.list = list, !.loading = FALSE]
    OBVIOUS
  <2>1. Show(t, state) /\ Finish(t) /\ UNCHANGED store /\ k.pc = "saved one"
    BY <1>8 DEF SavedBoth
  <2>2. queue[1].op = "append" /\ queue[1].conv = k.conv
    BY <1>3, <2>1 DEF Fits, Saving
  <2>3. k.conv \in ToSet(page.list) /\ page.list \in Seq(Ids)
    BY <1>3, <2>2 DEF NamesListed, OpenPage
  <2>4. list = ToFront(page.list, k.conv) /\ list \in Seq(Ids) /\ ToSet(list) = ToSet(page.list)
    BY <2>3, TouchedFront
  <2>5. Shown(state, list, page.active, page.turns)
    BY <1>3, <2>4, ShowList
  <2>6. DueList(Oldest(t), Waiting(t), tab[t].list) = list
    BY <1>3, <2>1, <2>2, <2>4 DEF DueList
  <2>7. page.active \in ToSet(page.list)
    <3>1. k # NoTask
      BY <1>3 DEF NoTask
    <3>2. AllSole(hs, page) /\ ActiveListed(hs, page)
      BY <1>3 DEF OpenOK
    <3>. QED  BY <1>3, <3>1, <3>2, ActiveHere
  <2>8. /\ OpenPage(state) /\ state.list = DueList(Oldest(t), Waiting(t), tab[t].list)
        /\ state.active \in ToSet(state.list) /\ ToSet(tab[t].list) \subseteq ToSet(state.list)
    BY <2>4, <2>5, <2>6, <2>7 DEF Shown
  <2>. QED  BY <1>2, <2>1, <2>8, EndMirrors
<1>. QED  BY <1>2, <1>6, <1>7, <1>8, ReturnedIs DEF TokenFails, SaveFails

\* of a new conversation,
LEMMA NewMirrors ==
  ASSUME MirrorInv, NEW t \in Tabs, NewReturns(t)
  PROVE  PageOK(tab'[t], calls'[t], task'[t], Visible', rendered') /\ RowsMatch'
<1>. PICK page, k, c : page = tab[t] /\ k = Waiting(t) /\ c = Oldest(t).result
  OBVIOUS
<1>1. Awaited(t, "new", "done") /\ Finish(t) /\ UNCHANGED store
  BY DEF NewReturns
<1>2. /\ k.kind = "new" /\ OpenPage(page) /\ Fits(Oldest(t), k) /\ CallOK(Oldest(t))
      /\ Oldest(t).stage = "done"
  BY <1>1, ReturnedIs
<1>3. Oldest(t).op = "create" /\ c \in Ids
  <2>1. Oldest(t).op = "create"
    BY <1>2 DEF Fits, Saving
  <2>. QED  BY <1>2, <2>1 DEF CallOK, MirrorInv, DashboardInv, StoreInv
<1>. PICK list, none : list = <<c>> \o page.list /\ none = <<>>
  OBVIOUS
<1>. PICK state : state = [page EXCEPT !.list = list, !.active = c, !.turns = none,
                                       !.switching = FALSE]
  OBVIOUS
<1>4. Show(t, state)
  BY DEF NewReturns
<1>5. list \in Seq(Ids) /\ ToSet(list) = {c} \cup ToSet(page.list)
  BY <1>2, <1>3, FrontSet DEF OpenPage
<1>6. none \in Seq(Turn)
  OBVIOUS
<1>7. Shown(state, list, c, none)
  BY <1>2, <1>5, <1>6, ShowSwitch
<1>8. DueList(Oldest(t), Waiting(t), tab[t].list) = list
  BY <1>2, <1>3 DEF DueList
<1>9. ~Saving(Waiting(t))
  BY <1>2 DEF Saving
<1>10. /\ OpenPage(state) /\ state.list = DueList(Oldest(t), Waiting(t), tab[t].list)
       /\ state.active \in ToSet(state.list) /\ ToSet(tab[t].list) \subseteq ToSet(state.list)
  BY <1>5, <1>7, <1>8 DEF Shown
<1>. QED  BY <1>1, <1>4, <1>9, <1>10, EndMirrors

\* of a selection,
LEMMA SelectMirrors ==
  ASSUME MirrorInv, NEW t \in Tabs, SelectReturns(t)
  PROVE  PageOK(tab'[t], calls'[t], task'[t], Visible', rendered') /\ RowsMatch'
<1>. PICK page, k, loaded : page = tab[t] /\ k = Waiting(t) /\ loaded = Oldest(t).result
  OBVIOUS
<1>1. Awaited(t, "select", "done") /\ Finish(t) /\ UNCHANGED store
  BY DEF SelectReturns
<1>2. /\ k.kind = "select" /\ OpenPage(page) /\ Fits(Oldest(t), k)
      /\ NamesListed(Oldest(t), page.list) /\ Reaches("done", Oldest(t).op, loaded)
      /\ OpenOK(page, calls[t], task[t], Visible)
      /\ Oldest(t).task \in Slots /\ k = task[t][Oldest(t).task]
  BY <1>1, ReturnedIs
<1>3. Oldest(t).op = "load" /\ Oldest(t).conv = k.conv
  BY <1>2 DEF Fits, Saving
<1>4. k.conv \in ToSet(page.list) /\ loaded \in Seq(Saved) \cup {None}
  BY <1>2, <1>3 DEF NamesListed, Reaches
<1>5. DueList(Oldest(t), Waiting(t), tab[t].list) = page.list
  BY <1>3 DEF DueList
<1>6. ~Saving(Waiting(t))
  BY <1>2 DEF Saving
<1>7. CASE loaded = None
  <2>. PICK state : state = [page EXCEPT !.switching = FALSE]
    OBVIOUS
  <2>1. Show(t, state)
    BY <1>7 DEF SelectReturns
  <2>2. Shown(state, page.list, page.active, page.turns)
    BY <1>2, ShowSwitching
  <2>3. page.active \in ToSet(page.list)
    <3>1. k # NoTask /\ k.kind # "delete"
      BY <1>2 DEF NoTask
    <3>2. AllSole(task[t], page) /\ ActiveListed(task[t], page)
      BY <1>2 DEF OpenOK
    <3>. QED  BY <1>2, <3>1, <3>2, ActiveHere
  <2>4. /\ OpenPage(state) /\ state.list = DueList(Oldest(t), Waiting(t), tab[t].list)
        /\ state.active \in ToSet(state.list) /\ ToSet(tab[t].list) \subseteq ToSet(state.list)
    BY <1>5, <2>2, <2>3 DEF Shown
  <2>. QED  BY <1>1, <1>6, <2>1, <2>4, EndMirrors
<1>8. CASE loaded # None
  <2>. PICK state : state = [page EXCEPT !.active = k.conv, !.turns = loaded, !.switching = FALSE]
    OBVIOUS
  <2>1. Show(t, state)
    BY <1>8 DEF SelectReturns
  <2>2. Shown(state, page.list, k.conv, loaded)
    BY <1>2, <1>4, <1>8, TurnsOfSaved, ShowSwitch DEF OpenPage
  <2>4. /\ OpenPage(state) /\ state.list = DueList(Oldest(t), Waiting(t), tab[t].list)
        /\ state.active \in ToSet(state.list) /\ ToSet(tab[t].list) \subseteq ToSet(state.list)
    BY <1>4, <1>5, <2>2 DEF Shown
  <2>. QED  BY <1>1, <1>6, <2>1, <2>4, EndMirrors
<1>. QED  BY <1>7, <1>8

\* of a rename,
LEMMA RenameMirrors ==
  ASSUME MirrorInv, NEW t \in Tabs, RenameReturns(t)
  PROVE  PageOK(tab'[t], calls'[t], task'[t], Visible', rendered') /\ RowsMatch'
<1>. PICK page, k : page = tab[t] /\ k = Waiting(t)
  OBVIOUS
<1>1. Awaited(t, "rename", "done") /\ Finish(t) /\ UNCHANGED store
  BY DEF RenameReturns
<1>2. /\ k.kind = "rename" /\ OpenPage(page) /\ Fits(Oldest(t), k)
      /\ NamesListed(Oldest(t), page.list) /\ Oldest(t).stage = "done"
      /\ OpenOK(page, calls[t], task[t], Visible)
      /\ Oldest(t).task \in Slots /\ k = task[t][Oldest(t).task]
  BY <1>1, ReturnedIs
<1>3. Oldest(t).op = "rename" /\ Oldest(t).conv = k.conv
  BY <1>2 DEF Fits, Saving
<1>4. k.conv \in ToSet(page.list) /\ page.list \in Seq(Ids)
  BY <1>2, <1>3 DEF NamesListed, OpenPage
<1>. PICK list : list = Touched(page.list, k.conv)
  OBVIOUS
<1>. PICK state : state = [page EXCEPT !.list = list]
  OBVIOUS
<1>5. Show(t, state)
  BY DEF RenameReturns
<1>6. list = ToFront(page.list, k.conv) /\ list \in Seq(Ids) /\ ToSet(list) = ToSet(page.list)
  BY <1>4, TouchedFront
<1>7. Shown(state, list, page.active, page.turns) /\ (Busied(page) => Busied(state))
  BY <1>2, <1>6, ShowList
<1>8. DueList(Oldest(t), Waiting(t), tab[t].list) = list
  BY <1>2, <1>3, <1>6 DEF DueList
<1>9. page.active \in ToSet(page.list)
  <2>1. k # NoTask /\ k.kind # "delete"
    BY <1>2 DEF NoTask
  <2>2. AllSole(task[t], page) /\ ActiveListed(task[t], page)
    BY <1>2 DEF OpenOK
  <2>. QED  BY <1>2, <2>1, <2>2, ActiveHere
<1>10. ~Saving(Waiting(t))
  BY <1>2 DEF Saving
<1>11. /\ OpenPage(state) /\ state.list = DueList(Oldest(t), Waiting(t), tab[t].list)
       /\ state.active \in ToSet(state.list) /\ ToSet(tab[t].list) \subseteq ToSet(state.list)
       /\ state.active = tab[t].active /\ (Busied(tab[t]) => Busied(state))
  BY <1>6, <1>7, <1>8, <1>9 DEF Shown
<1>. QED  BY <1>1, <1>5, <1>10, <1>11, EndMirrors

\* of a deletion that has been answered,
LEMMA DeleteMirrors ==
  ASSUME MirrorInv, NEW t \in Tabs, DeleteReturns(t)
  PROVE  PageOK(tab'[t], calls'[t], task'[t], Visible', rendered') /\ RowsMatch'
<1>. PICK queue, later, hs, after, page, rows, s, k :
        /\ queue = calls[t] /\ later = calls'[t] /\ hs = task[t] /\ after = task'[t]
        /\ page = tab[t] /\ rows = Visible /\ s = Oldest(t).task /\ k = Waiting(t)
  OBVIOUS
<1>. PICK left : left = Remaining(k)
  OBVIOUS
<1>1. /\ TabsInv /\ TasksInv /\ CallsInv /\ RowsMatch /\ None \notin Slots /\ queue \in Seq(Calls)
  BY MirrorFacts, DashboardAssumption DEF MirrorInv, DashboardInv
<1>2. Awaited(t, "delete", "done") /\ k.pc = "deleting" /\ UNCHANGED store
  BY DEF DeleteReturns
<1>3. /\ queue # <<>> /\ s \in Slots /\ s # None /\ queue[1] = Oldest(t) /\ queue[1].task = s
      /\ hs[s] = k /\ k.kind = "delete" /\ OpenOK(page, queue, hs, rows) /\ k \in DeleteTask
      /\ queue[1].stage = "done" /\ OpenPage(page) /\ Fits(queue[1], k)
      /\ Due(queue, hs, page.list) = DueList(queue[1], k, page.list)
  BY <1>2, ReturnedIs, TaskKinds
<1>4. queue[1].op = "delete" /\ queue[1].conv = k.conv
  BY <1>2, <1>3 DEF Fits, Saving
<1>5. k.list = page.list /\ k.active = page.active /\ k.conv \in ToSet(page.list)
  <2>1. SoleOK(hs, page, s)
    BY <1>3 DEF OpenOK, AllSole
  <2>. QED  BY <1>2, <1>3, <2>1 DEF SoleOK
<1>6. page.list \in Seq(Ids) /\ left \in Seq(Ids) /\ ToSet(left) = ToSet(page.list) \ {k.conv}
  <2>1. page.list \in Seq(Ids)
    BY <1>3 DEF OpenPage
  <2>. QED  BY <1>5, <2>1, FilteredSet DEF Remaining
<1>7. DueList(queue[1], k, page.list) = left
  BY <1>3, <1>4, <1>5 DEF DueList, Remaining
<1>8. page.active \in ToSet(page.list)
  <2>1. k # NoTask /\ ~(k.kind = "delete" /\ k.pc = "loading")
    BY <1>2, <1>3 DEF NoTask
  <2>2. AllSole(hs, page) /\ ActiveListed(hs, page)
    BY <1>3 DEF OpenOK
  <2>. QED  BY <1>3, <2>1, <2>2, ActiveHere
<1>9. ASSUME NEW n, NEW c \in Calls, Resume(t, n, <<c>>)
      PROVE  Shifts(later, queue, 1, <<c>>) /\ Moves(hs, after, s, n)
  <2>0. PICK more : more = <<c>>
    OBVIOUS
  <2>1. more = <<c>> /\ more \in Seq(Calls)
    BY ONLY <2>0, c \in Calls
  <2>2. calls[t] # <<>> /\ Oldest(t).task # None /\ Resume(t, n, more)
    BY <1>3, <1>9, <2>1
  <2>3. Shifts(calls'[t], calls[t], 1, more) /\ Moves(task[t], task'[t], Oldest(t).task, n)
    BY <1>1, <2>1, <2>2, ResumeShifts
  <2>. QED  BY <2>1, <2>3
<1>10. ASSUME NEW state, Show(t, state), OpenPage(state), OpenOK(state, later, after, rows)
       PROVE  PageOK(tab'[t], calls'[t], task'[t], Visible', rendered') /\ RowsMatch'
  <2>1. tab'[t] = state /\ state.pc = "open"
    BY <1>1, <1>10, ShowIs DEF OpenPage
  <2>2. Visible' = rows /\ RowsMatch'
    BY <1>1, <1>2, RowsStay
  <2>. QED  BY <1>10, <2>1, <2>2 DEF PageOK
<1>11. CASE left = <<>> /\ Show(t, [tab[t] EXCEPT !.switching = TRUE])
            /\ Resume(t, [k EXCEPT !.pc = "creating"], <<Call(Oldest(t).task, "create", None, None)>>)
  <2>. PICK state, n, c : /\ state = [page EXCEPT !.switching = TRUE]
                          /\ n = [k EXCEPT !.pc = "creating"] /\ c = Call(s, "create", None, None)
    OBVIOUS
  <2>1. Show(t, state) /\ Resume(t, n, <<c>>)
    BY <1>11
  <2>2. n.kind = "delete" /\ n.pc = "creating"
    BY <1>3 DEF DeleteTask
  <2>3. c \in Calls /\ c.task = s /\ c.op = "create" /\ c.stage = "sent"
    BY <1>3, CallIs
  <2>4. Shifts(later, queue, 1, <<c>>) /\ Moves(hs, after, s, n)
    BY <1>9, <2>1, <2>3
  <2>5. Shown(state, page.list, page.active, page.turns) /\ Busied(state)
    BY <1>3, ShowSwitching
  <2>6. NewFits(c, s, n, state.list)
    BY <2>2, <2>3 DEF NewFits, Fits, NamesListed
  <2>7. DueList(c, n, state.list) = Due(queue, hs, page.list)
    <3>1. DueList(c, n, state.list) = <<>>
      BY <2>2, <2>3 DEF DueList
    <3>. QED  BY <1>3, <1>7, <1>11, <3>1
  <2>8. /\ OpenPage(state) /\ state.active = page.active /\ (Busied(page) => Busied(state))
        /\ n.pc = "loading" \/ state.active \in ToSet(state.list)
    BY <1>8, <2>5 DEF Shown
  <2>9. n.pc \in {"creating", "loading"} /\ hs[s].kind = "delete"
    BY <1>3, <2>2
  <2>10. OpenOK(state, later, after, rows)
    BY ONLY <1>1, <1>3, <2>2, <2>3, <2>4, <2>6, <2>7, <2>8, <2>9, OpenDeletes
  <2>. QED  BY <1>10, <2>1, <2>8, <2>10
<1>12. CASE left # <<>> /\ Show(t, [tab[t] EXCEPT !.list = left, !.switching = TRUE])
            /\ Resume(t, [k EXCEPT !.pc = "loading", !.conv = Head(left)],
                      <<Call(Oldest(t).task, "load", Head(left), None)>>)
  <2>. PICK d : d = Head(left)
    OBVIOUS
  <2>. PICK state, n, c : /\ state = [page EXCEPT !.list = left, !.switching = TRUE]
                          /\ n = [k EXCEPT !.pc = "loading", !.conv = d]
                          /\ c = Call(s, "load", d, None)
    OBVIOUS
  <2>1. Show(t, state) /\ Resume(t, n, <<c>>)
    BY <1>12
  <2>2. n.kind = "delete" /\ n.pc = "loading" /\ n.conv = d
    BY <1>3 DEF DeleteTask
  <2>3. d \in Ids /\ d \in ToSet(left)
    BY <1>6, <1>12 DEF ToSet
  <2>4. c \in Calls /\ c.task = s /\ c.op = "load" /\ c.stage = "sent" /\ c.conv = d
    BY <1>3, <2>3, CallIs DEF Call
  <2>5. Shifts(later, queue, 1, <<c>>) /\ Moves(hs, after, s, n)
    BY <1>9, <2>1, <2>4
  <2>6. Shown(state, left, page.active, page.turns) /\ Busied(state)
    BY <1>3, <1>6, ShowList
  <2>7. OpenPage(state) /\ state.list = left /\ state.active = page.active
    BY <2>6 DEF Shown
  <2>8. NewFits(c, s, n, state.list)
    BY <2>2, <2>3, <2>4, <2>7 DEF NewFits, Fits, NamesListed
  <2>9. DueList(c, n, state.list) = Due(queue, hs, page.list)
    <3>1. DueList(c, n, state.list) = left
      BY <2>4, <2>7 DEF DueList
    <3>. QED  BY <1>3, <1>7, <3>1
  <2>10. n.pc \in {"creating", "loading"} /\ hs[s].kind = "delete" /\ (Busied(page) => Busied(state))
         /\ (n.pc = "loading" \/ state.active \in ToSet(state.list))
    BY <1>3, <2>2, <2>6
  <2>11. OpenOK(state, later, after, rows)
    BY ONLY <1>1, <1>3, <2>2, <2>4, <2>5, <2>7, <2>8, <2>9, <2>10, OpenDeletes
  <2>. QED  BY <1>10, <2>1, <2>7, <2>11
<1>13. CASE left # <<>> /\ k.conv # k.active /\ Show(t, [tab[t] EXCEPT !.list = left]) /\ Finish(t)
  <2>. PICK state : state = [page EXCEPT !.list = left]
    OBVIOUS
  <2>1. Show(t, state) /\ Finish(t)
    BY <1>13
  <2>2. Shown(state, left, page.active, page.turns)
    BY <1>3, <1>6, ShowList
  <2>3. page.active \in ToSet(left)
    BY <1>5, <1>6, <1>8, <1>13
  <2>4. /\ OpenPage(state) /\ state.list = DueList(Oldest(t), Waiting(t), tab[t].list)
        /\ state.active \in ToSet(state.list)
    BY <1>3, <1>7, <2>2, <2>3 DEF Shown
  <2>5. ~Saving(Waiting(t))
    BY <1>3 DEF Saving
  <2>. QED  BY <1>2, <2>1, <2>4, <2>5, EndMirrors
<1>. QED  BY <1>11, <1>12, <1>13 DEF DeleteReturns

\* that has created the conversation it needs,
LEMMA DeleteCreatedMirrors ==
  ASSUME MirrorInv, NEW t \in Tabs, DeleteCreated(t)
  PROVE  PageOK(tab'[t], calls'[t], task'[t], Visible', rendered') /\ RowsMatch'
<1>. PICK page, k, c : page = tab[t] /\ k = Waiting(t) /\ c = Oldest(t).result
  OBVIOUS
<1>1. Awaited(t, "delete", "done") /\ k.pc = "creating" /\ Finish(t) /\ UNCHANGED store
  BY DEF DeleteCreated
<1>2. /\ k.kind = "delete" /\ OpenPage(page) /\ Fits(Oldest(t), k) /\ CallOK(Oldest(t))
      /\ Oldest(t).stage = "done"
  BY <1>1, ReturnedIs
<1>3. Oldest(t).op = "create" /\ c \in Ids
  <2>1. Oldest(t).op = "create"
    BY <1>1, <1>2 DEF Fits, Saving
  <2>. QED  BY <1>2, <2>1 DEF CallOK, MirrorInv, DashboardInv, StoreInv
<1>. PICK list, none : list = <<c>> /\ none = <<>>
  OBVIOUS
<1>. PICK state : state = [page EXCEPT !.list = list, !.active = c, !.turns = none,
                                       !.switching = FALSE]
  OBVIOUS
<1>4. Show(t, state)
  BY DEF DeleteCreated
<1>5. list \in Seq(Ids) /\ c \in ToSet(list) /\ none \in Seq(Turn)
  BY <1>3 DEF ToSet
<1>6. Shown(state, list, c, none)
  BY <1>2, <1>5, ShowSwitch
<1>7. DueList(Oldest(t), Waiting(t), tab[t].list) = list
  BY <1>2, <1>3 DEF DueList
<1>8. ~Saving(Waiting(t))
  BY <1>2 DEF Saving
<1>9. /\ OpenPage(state) /\ state.list = DueList(Oldest(t), Waiting(t), tab[t].list)
      /\ state.active \in ToSet(state.list)
  BY <1>5, <1>6, <1>7 DEF Shown
<1>. QED  BY <1>1, <1>4, <1>8, <1>9, EndMirrors

\* or loaded the one to show,
LEMMA DeleteLoadedMirrors ==
  ASSUME MirrorInv, NEW t \in Tabs, DeleteLoaded(t)
  PROVE  PageOK(tab'[t], calls'[t], task'[t], Visible', rendered') /\ RowsMatch'
<1>. PICK page, k, loaded : page = tab[t] /\ k = Waiting(t) /\ loaded = Oldest(t).result
  OBVIOUS
<1>1. Awaited(t, "delete", "done") /\ k.pc = "loading" /\ Finish(t) /\ UNCHANGED store
  BY DEF DeleteLoaded
<1>2. /\ k.kind = "delete" /\ OpenPage(page) /\ Fits(Oldest(t), k)
      /\ NamesListed(Oldest(t), page.list) /\ Reaches("done", Oldest(t).op, loaded)
  BY <1>1, ReturnedIs
<1>3. Oldest(t).op = "load" /\ Oldest(t).conv = k.conv
  BY <1>1, <1>2 DEF Fits, Saving
<1>4. k.conv \in ToSet(page.list) /\ loaded \in Seq(Saved) \cup {None} /\ page.list \in Seq(Ids)
  BY <1>2, <1>3 DEF NamesListed, Reaches, OpenPage
<1>5. DueList(Oldest(t), Waiting(t), tab[t].list) = page.list
  BY <1>3 DEF DueList
<1>6. ~Saving(Waiting(t))
  BY <1>2 DEF Saving
<1>. PICK turns : turns = IF loaded = None THEN <<>> ELSE loaded
  OBVIOUS
<1>7. turns \in Seq(Turn)
  <2>1. <<>> \in Seq(Turn)
    OBVIOUS
  <2>. QED  BY <1>4, <2>1, TurnsOfSaved
<1>. PICK state : state = [page EXCEPT !.active = k.conv, !.switching = FALSE, !.turns = turns]
  OBVIOUS
<1>8. Show(t, state)
  BY DEF DeleteLoaded
<1>9. Shown(state, page.list, k.conv, turns)
  BY <1>2, <1>4, <1>7, ShowSwitch
<1>10. /\ OpenPage(state) /\ state.list = DueList(Oldest(t), Waiting(t), tab[t].list)
       /\ state.active \in ToSet(state.list)
  BY <1>4, <1>5, <1>9 DEF Shown
<1>. QED  BY <1>1, <1>6, <1>8, <1>10, EndMirrors

\* and a call that nobody waits for.
LEMMA OrphanMirrors ==
  ASSUME MirrorInv, NEW t \in Tabs, OrphanReturns(t)
  PROVE  PageOK(tab'[t], calls'[t], task'[t], Visible', rendered') /\ RowsMatch'
<1>. PICK queue, later, hs, page, rows :
        /\ queue = calls[t] /\ later = calls'[t] /\ hs = task[t]
        /\ page = tab[t] /\ rows = Visible
  OBVIOUS
<1>1. /\ CallsInv /\ RowsMatch /\ None \notin Slots /\ queue \in Seq(Calls)
  BY MirrorFacts, DashboardAssumption DEF MirrorInv, DashboardInv
<1>2. /\ calls[t] # <<>> /\ Oldest(t).task = None /\ calls' = [calls EXCEPT ![t] = Tail(@)]
      /\ UNCHANGED <<store, clientVars>>
  BY DEF OrphanReturns
<1>3. queue # <<>> /\ queue[1].task = None /\ page.pc = "open" /\ OpenOK(page, queue, hs, rows)
  BY <1>1, <1>2, OldestIs, MirrorFacts
<1>4. Shifts(later, queue, 1, <<>>)
  BY <1>1, <1>2, OrphanShifts
<1>5. OpenOK(page, later, hs, rows)
  BY ONLY <1>1, <1>3, <1>4, OpenOrphan
<1>6. tab'[t] = page /\ task'[t] = hs /\ Visible' = rows /\ RowsMatch'
  BY <1>1, <1>2, RowsStay DEF clientVars
<1>. QED  BY <1>3, <1>5, <1>6 DEF PageOK

\* Every call that returns leaves the list as due.
LEMMA ReturnMirrors ==
  ASSUME MirrorInv, NEW t \in Tabs, Return(t)
  PROVE  PageOK(tab'[t], calls'[t], task'[t], Visible', rendered') /\ RowsMatch'
<1>1. ~OthersFail(t)
  BY ReturnedIs DEF OthersFail
<1>. QED  BY <1>1, OrphanMirrors, AskMirrors, NewMirrors, SelectMirrors, RenameMirrors,
             DeleteMirrors, DeleteCreatedMirrors, DeleteLoadedMirrors DEF Return

\* Every step of the only tab keeps the page and the rows in step.
LEMMA MirrorKept ==
  ASSUME MirrorInv, [Next]_vars, NEW t \in Tabs, Tabs = {t}, Patient, "server" \notin Faults
  PROVE  MirrorInv'
<1>1. DashboardInv'
  BY DashboardKept DEF MirrorInv
<1>2. PageOK(tab'[t], calls'[t], task'[t], Visible', rendered') /\ RowsMatch'
  <2>1. CASE UNCHANGED vars
    <3>1. tab' = tab /\ calls' = calls /\ task' = task /\ UNCHANGED store /\ RowsMatch
      BY <2>1 DEF vars, serverVars, clientVars, MirrorInv
    <3>2. RowsMatch' /\ Visible' = Visible /\ rendered' = rendered
      BY <3>1, RowsStay
    <3>. QED  BY <3>1, <3>2 DEF MirrorInv
  <2>2. CASE Next
    <3>1. Visit(t) \/ Act(t) \/ Respond(t) \/ \E s \in Slots : Chat(t, s)
      BY <2>2 DEF Next
    <3>2. ASSUME Respond(t)
          PROVE  Return(t) \/ (Serve(t) /\ UNCHANGED clientVars)
      BY <3>2 DEF Respond
    <3>. QED  BY <3>1, <3>2, VisitMirrors, ActMirrors, ServeMirrors, ReturnMirrors, ChatMirrors
  <2>. QED  BY <2>1, <2>2
<1>3. MirrorInv' = (DashboardInv' /\ RowsMatch'
                     /\ \A u \in Tabs : PageOK(tab'[u], calls'[u], task'[u], Visible', rendered'))
  BY DEF MirrorInv
<1>. QED  BY <1>1, <1>2, <1>3

\* The invariant holds at first.
LEMMA MirrorStarts ==
  ASSUME Init
  PROVE  MirrorInv
<1>1. DashboardInv
  BY DashboardStarts
<1>2. RowsMatch
  BY DEF Init, ToSet, RowsMatch
<1>3. ASSUME NEW t \in Tabs
      PROVE  PageOK(tab[t], calls[t], task[t], Visible, rendered)
  BY DEF Init, PageOK
<1>. QED  BY <1>1, <1>2, <1>3 DEF MirrorInv

\* At rest nothing is due.
LEMMA QuietMirrors ==
  ASSUME MirrorInv
  PROVE  ListMirrorsServer
<1>. SUFFICES ASSUME NEW t \in Tabs, Quiet(t)
              PROVE  /\ tab[t].list = Without(recent, rendered)
                     /\ tab[t].active \in ToSet(tab[t].list)
  BY DEF ListMirrorsServer
<1>1. /\ calls[t] = <<>> /\ (\A s \in Slots : task[t][s] = NoTask)
      /\ OpenOK(tab[t], calls[t], task[t], Visible)
  BY DEF Quiet, MirrorInv, PageOK
<1>2. tab[t].list = Visible
  BY <1>1 DEF OpenOK, Due
<1>. QED  BY <1>1, <1>2 DEF OpenOK, ActiveListed, NoTask, Visible

\* The invariant of the list.
LEMMA MirrorInvariant ==
  ASSUME \E t : Tabs = {t}, Patient, "server" \notin Faults
  PROVE  Spec => []MirrorInv
<1>1. MirrorInv /\ [Next]_vars => MirrorInv'
  BY MirrorKept
<1>. QED  BY <1>1, MirrorStarts, PTL DEF Spec

\* While one tab is open, the owner lets nothing overlap with a deletion and
\* the database answers, a tab at rest lists every conversation that exists, in
\* the order of the server, but for those that a re-rendering has created, and
\* its active conversation is one of them: the list that every handler shows is
\* the one its call made of the rows.
THEOREM ListMirrors ==
  ASSUME \E t : Tabs = {t}, Patient, "server" \notin Faults
  PROVE  Spec => []ListMirrorsServer
BY MirrorInvariant, QuietMirrors, PTL

-----------------------------------------------------------------------------
(***************************************************************************)
(* What is kept of what is shown.                                          *)
(***************************************************************************)

\* A message more.
LEMMA MoreShown ==
  ASSUME NEW turns \in Seq(Turn), NEW m \in Turn
  PROVE  ToSet(Append(turns, m)) = ToSet(turns) \cup {m}
<1>. PICK more, n : more = Append(turns, m) /\ n = Len(turns) + 1
  OBVIOUS
<1>1. /\ DOMAIN more = DOMAIN turns \cup {n} /\ more[n] = m
      /\ \A i \in DOMAIN turns : more[i] = turns[i]
  OBVIOUS
<1>. QED  BY <1>1 DEF ToSet

\* Nothing of what is saved is lost,
LEMMA KeptSaved ==
  ASSUME NEW turns \in Seq(Saved)
  PROVE  Kept(turns) = turns
<1>1. turns \in Seq(Turn) /\ \A i \in DOMAIN turns : turns[i] \in Saved
  BY TurnsOfSaved
<1>2. Lost(turns) = {}
  <2>1. \A m \in Saved : m.role # "error"
    BY DEF Saved
  <2>. QED  BY <1>1, <2>1 DEF Lost, Message, ToSet
<1>. QED  BY <1>1, <1>2, WithoutNothing DEF Kept

\* what is said of a question that did not fail is kept,
LEMMA KeptMore ==
  ASSUME NEW turns \in Seq(Turn), NEW q \in Questions, NEW role \in {"user", "assistant"},
         Message(q, "error") \notin ToSet(turns)
  PROVE  /\ Kept(Append(turns, Message(q, role))) = Append(Kept(turns), Message(q, role))
         /\ Message(q, "error") \notin ToSet(Append(turns, Message(q, role)))
<1>. PICK m, more : m = Message(q, role) /\ more = Append(turns, m)
  OBVIOUS
<1>1. m \in Turn /\ m.question = q /\ m.role = role
  BY DEF Message, Turn
<1>2. ToSet(more) = ToSet(turns) \cup {m}
  BY <1>1, MoreShown
<1>3. \A p : Message(p, "error") # m
  BY <1>1 DEF Message
<1>4. Lost(more) = Lost(turns) /\ m \notin Lost(turns)
  BY <1>1, <1>2, <1>3 DEF Lost
<1>5. Without(more, Lost(turns)) = Append(Without(turns, Lost(turns)), m)
  BY <1>1, <1>4, WithoutNext
<1>. QED  BY <1>2, <1>3, <1>4, <1>5 DEF Kept

\* and a question whose answer never came goes.
LEMMA KeptLost ==
  ASSUME NEW turns \in Seq(Turn), NEW q \in Questions, NEW rows \in Seq(Saved),
         Kept(turns) = Append(rows, Message(q, "user")),
         \A i \in DOMAIN rows : rows[i].question # q
  PROVE  Kept(Append(turns, Message(q, "error"))) = rows
<1>. PICK e, u, more : /\ e = Message(q, "error") /\ u = Message(q, "user")
                       /\ more = Append(turns, e)
  OBVIOUS
<1>. PICK gone, same : gone = Lost(turns) /\ same = {m \in Turn : m.question = q}
  OBVIOUS
<1>1. e \in Turn /\ u \in Turn /\ e \in same /\ u \in same /\ rows \in Seq(Turn)
  BY TurnsOfSaved DEF Message, Turn
<1>2. ToSet(more) = ToSet(turns) \cup {e}
  BY <1>1, MoreShown
<1>3. Lost(more) = gone \cup same
  <2>1. \A p : Message(p, "error") = e <=> p = q
    BY DEF Message
  <2>. QED  BY <1>2, <2>1 DEF Lost
<1>4. Without(more, gone \cup same) = Without(turns, gone \cup same)
  BY <1>1, WithoutNext
<1>5. Without(turns, gone \cup same) = Without(Without(turns, gone), same)
  BY WithoutBoth
<1>6. Without(turns, gone) = Append(rows, u)
  BY DEF Kept
<1>7. Without(Append(rows, u), same) = Without(rows, same)
  BY <1>1, WithoutNext
<1>8. Without(rows, same) = rows
  <2>1. \A i \in DOMAIN rows : rows[i] \in same <=> rows[i] \in {}
    OBVIOUS
  <2>2. Without(rows, same) = Without(rows, {})
    BY <1>1, <2>1, WithoutSame
  <2>. QED  BY <1>1, <2>2, WithoutNothing
<1>. QED  BY <1>3, <1>4, <1>5, <1>6, <1>7, <1>8 DEF Kept

-----------------------------------------------------------------------------
(***************************************************************************)
(* One tab, and an owner who lets nothing overlap with a deletion: what    *)
(* the page shows and what is saved.                                       *)
(***************************************************************************)

\* The oldest call is the handler's, and has been served.
Back(queue, s) == queue # <<>> /\ queue[1].task = s /\ queue[1].stage = "done"

\* Of the question of handler s and its answer, what is shown and not saved.
Unsaved(queue, k, s) ==
    IF k.pc \in {"token", "chat"} THEN <<Message(k.question, "user")>>
    ELSE IF k.pc = "saving" /\ ~Back(queue, s)
    THEN <<Message(k.question, "user"), Message(k.question, "assistant")>>
    ELSE IF k.pc = "saved one" /\ Back(queue, s) THEN <<>>
    ELSE <<Message(k.question, "assistant")>>

\* The turn of handler s is shown after what is saved.
AskShown(queue, k, s, turns, rows) ==
    /\ Kept(turns) = rows \o Unsaved(queue, k, s)
    /\ Message(k.question, "error") \notin ToSet(turns)
    /\ k.pc \in {"token", "chat"} => \A i \in DOMAIN rows : rows[i].question # k.question

\* A conversation is answered empty when it is new, and with its messages when
\* it is loaded.
AnswerOK(c, tables) ==
    /\ c.op = "create" /\ c.stage \in {"written", "done"} =>
          c.result \in DOMAIN tables /\ tables[c.result] = <<>>
    /\ c.op = "load" /\ c.stage = "done" =>
          c.conv \in DOMAIN tables /\ c.result = tables[c.conv]

TurnsOK(page, queue, hs, tables) ==
    /\ page.active \in DOMAIN tables =>
          /\ (\A s \in Slots : hs[s].kind # "ask") => Kept(page.turns) = tables[page.active]
          /\ \A s \in Slots : hs[s].kind = "ask" =>
                AskShown(queue, hs[s], s, page.turns, tables[page.active])
    /\ queue # <<>> => AnswerOK(queue[1], tables)

\* What is shown was asked.
AllAsked(turns, questions) == \A i \in DOMAIN turns : turns[i].question \in questions

PageShown(page, queue, hs, tables, questions) ==
    page.pc = "open" => AllAsked(page.turns, questions) /\ TurnsOK(page, queue, hs, tables)

ShowInv == MirrorInv /\ \A t \in Tabs :
    PageShown(tab[t], calls[t], task[t], messages, DOMAIN asked)

\* The queue has another oldest call, or has it still.
QueueShown(later, queue, s, tables) ==
    /\ \A r \in Slots \ {s} : Back(later, r) <=> Back(queue, r)
    /\ ~Back(later, s)
    /\ later # <<>> => AnswerOK(later[1], tables)

\* Handler s is sending.
AllSent(more, s) == \A l \in 1..Len(more) : more[l].task = s /\ more[l].stage = "sent"

\* A handler calls behind what was called before,
LEMMA BeginQueue ==
  ASSUME NEW queue \in Seq(Calls), NEW later, NEW more \in Seq(Calls), more # <<>>,
         Shifts(later, queue, 0, more), NEW s, AllSent(more, s),
         \A i \in DOMAIN queue : queue[i].task # s,
         NEW tables, queue # <<>> => AnswerOK(queue[1], tables)
  PROVE  QueueShown(later, queue, s, tables)
<1>. PICK n, m : n = Len(queue) /\ m = Len(more)
  OBVIOUS
<1>1. n \in Nat /\ m \in Nat /\ m > 0 /\ later \in Seq(Calls) /\ DOMAIN later = 1..(n + m)
  <2>1. m # 0
    OBVIOUS
  <2>2. DOMAIN later = 1..(n - 0 + m) /\ later \in Seq(Calls) /\ n \in Nat /\ m \in Nat
    BY DEF Shifts
  <2>. QED  BY <2>1, <2>2
<1>2. later # <<>> /\ 1 \in DOMAIN later
  BY <1>1
<1>3. CASE n = 0
  <2>0. 1 \in 1..Len(more) /\ queue = <<>>
    <3>1. 1 \in 1..m
      BY ONLY <1>1
    <3>2. Len(queue) = 0 /\ queue \in Seq(Calls) /\ m = Len(more)
      BY <1>3
    <3>3. queue = <<>>
      BY ONLY <3>2
    <3>. QED  BY ONLY <3>1, <3>2, <3>3
  <2>1. queue = <<>> /\ later[1] = more[1] /\ 1 \in 1..Len(more)
    <3>1. later[Len(queue) - 0 + 1] = more[1]
      BY <2>0 DEF Shifts
    <3>2. Len(queue) - 0 + 1 = 1
      BY <1>3
    <3>. QED  BY <2>0, <3>1, <3>2
  <2>2. later[1].task = s /\ later[1].stage = "sent"
    BY <2>1 DEF AllSent
  <2>. QED  BY <2>1, <2>2 DEF QueueShown, Back, AnswerOK
<1>4. CASE n > 0
  <2>1. queue # <<>> /\ 1 \in DOMAIN queue /\ later[1] = queue[1]
    BY <1>1, <1>4 DEF Shifts
  <2>. QED  BY <1>2, <2>1 DEF QueueShown, Back
<1>. QED  BY <1>1, <1>3, <1>4

\* or once its oldest call is gone.
LEMMA TailQueue ==
  ASSUME NEW queue \in Seq(Calls), queue # <<>>, NEW later, NEW more \in Seq(Calls),
         Shifts(later, queue, 1, more), NEW s, AllSent(more, s), queue[1].task = s,
         NEW hs, NEW list, AllFit(queue, hs, list), NEW tables
  PROVE  QueueShown(later, queue, s, tables)
<1>1. later \in Seq(Calls) /\ 1 <= Len(queue)
  BY DEF Shifts
<1>2. ASSUME later # <<>>
      PROVE  later[1].stage = "sent"
  <2>1. 1 \in DOMAIN later
    BY <1>1, <1>2
  <2>2. \/ 1 + 1 \in DOMAIN queue /\ 1 + 1 > 1 /\ later[1] = queue[1 + 1]
        \/ \E l \in 1..Len(more) : 1 = Len(queue) - 1 + l /\ later[1] = more[l]
    BY <1>1, <2>1, ShiftedFrom
  <2>3. ASSUME 1 + 1 \in DOMAIN queue, 1 + 1 > 1, later[1] = queue[1 + 1]
        PROVE  later[1].stage = "sent"
    BY <2>3 DEF AllFit, CallFits
  <2>. QED  BY <2>2, <2>3 DEF AllSent
<1>. QED  BY <1>2 DEF QueueShown, Back, AnswerOK

\* The questions that are being answered stay the same.
SameAsks(hs, after, s) ==
    \A r \in Slots : "ask" \in {hs[r].kind, after[r].kind} => after[r] = hs[r] /\ r # s

\* What is shown stays as right as it was,
LEMMA ShowStays ==
  ASSUME NEW page, NEW queue, NEW hs, NEW tables, TurnsOK(page, queue, hs, tables),
         NEW later, NEW after, NEW s, QueueShown(later, queue, s, tables), SameAsks(hs, after, s),
         NEW next, next.turns = page.turns, next.active = page.active
  PROVE  TurnsOK(next, later, after, tables)
<1>1. ASSUME next.active \in DOMAIN tables, \A r \in Slots : after[r].kind # "ask"
      PROVE  Kept(next.turns) = tables[next.active]
  BY <1>1 DEF TurnsOK, SameAsks
<1>2. ASSUME next.active \in DOMAIN tables, NEW r \in Slots, after[r].kind = "ask"
      PROVE  AskShown(later, after[r], r, next.turns, tables[next.active])
  <2>1. after[r] = hs[r] /\ r # s /\ hs[r].kind = "ask"
    BY <1>2 DEF SameAsks
  <2>2. AskShown(queue, hs[r], r, next.turns, tables[next.active])
    BY <1>2, <2>1 DEF TurnsOK
  <2>3. Unsaved(later, hs[r], r) = Unsaved(queue, hs[r], r)
    BY <2>1 DEF Unsaved, QueueShown
  <2>. QED  BY <2>1, <2>2, <2>3 DEF AskShown
<1>. QED  BY <1>1, <1>2 DEF TurnsOK, QueueShown

\* is right where no question is being answered,
LEMMA NoneAsks ==
  ASSUME NEW queue, NEW later, NEW after, NEW s, NEW tables, QueueShown(later, queue, s, tables),
         \A r \in Slots : after[r].kind # "ask",
         NEW next, next.active \in DOMAIN tables => Kept(next.turns) = tables[next.active]
  PROVE  TurnsOK(next, later, after, tables)
BY DEF TurnsOK, QueueShown

\* or where one is, with its turn shown last.
LEMMA OneAsks ==
  ASSUME NEW queue, NEW later, NEW after, NEW s \in Slots, NEW tables,
         QueueShown(later, queue, s, tables),
         after[s].kind = "ask", \A r \in Slots \ {s} : after[r].kind # "ask",
         NEW next, next.active \in DOMAIN tables =>
                      AskShown(later, after[s], s, next.turns, tables[next.active])
  PROVE  TurnsOK(next, later, after, tables)
BY DEF TurnsOK, QueueShown

\* Beside a handler that runs alone no question is being answered.
LEMMA OnlyAsk ==
  ASSUME NEW hs, NEW page, AllSole(hs, page), NEW s \in Slots,
         Exclusive(hs[s]) \/ hs[s].kind = "delete", NEW r \in Slots \ {s}
  PROVE  hs[r].kind # "ask"
<1>1. SoleOK(hs, page, s)
  BY DEF AllSole
<1>. QED  BY <1>1 DEF SoleOK, Exclusive, NoTask

\* Two questions are never answered at once.
LEMMA AsksAlone ==
  ASSUME NEW hs, NEW page, AllSole(hs, page), ~Busied(page), NEW r \in Slots
  PROVE  hs[r].kind # "ask"
BY DEF AllSole, SoleOK, Exclusive

-----------------------------------------------------------------------------
(***************************************************************************)
(* The client's steps on what is shown.                                    *)
(***************************************************************************)

\* What the invariant says of an open tab.
LEMMA ShowFacts ==
  ASSUME ShowInv, NEW t \in Tabs, tab[t].pc = "open"
  PROVE  /\ MirrorInv /\ TabsInv /\ TasksInv /\ CallsInv /\ StoreInv /\ AskedInv /\ SavedInv
         /\ calls[t] \in Seq(Calls) /\ None \notin Slots
         /\ OpenPage(tab[t]) /\ AllFit(calls[t], task[t], tab[t].list) /\ AllSave(calls[t], task[t])
         /\ AllSole(task[t], tab[t])
         /\ AllAsked(tab[t].turns, DOMAIN asked)
         /\ TurnsOK(tab[t], calls[t], task[t], messages)
BY MirrorFacts, DashboardAssumption
   DEF ShowInv, MirrorInv, DashboardInv, PageOK, OpenOK, PageShown

\* Handlers of anything else leave the question alone.
LEMMA MovesAsks ==
  ASSUME NEW hs, NEW after, NEW s \in Slots, NEW k, Moves(hs, after, s, k),
         hs[s].kind # "ask", k.kind # "ask"
  PROVE  SameAsks(hs, after, s)
BY DEF Moves, SameAsks

\* A handler calls first,
LEMMA BeginShows ==
  ASSUME ShowInv, NEW t \in Tabs, tab[t].pc = "open", NEW s \in Slots,
         NEW k, NEW more \in Seq(Calls), more # <<>>, Await(t, s, k, more), AllSent(more, s),
         \A i \in DOMAIN calls[t] : calls[t][i].task # s
  PROVE  QueueShown(calls'[t], calls[t], s, messages) /\ Moves(task[t], task'[t], s, k)
<1>. PICK queue, later, tables : queue = calls[t] /\ later = calls'[t] /\ tables = messages
  OBVIOUS
<1>1. /\ TasksInv /\ CallsInv /\ queue \in Seq(Calls) /\ TurnsOK(tab[t], queue, task[t], tables)
  BY ShowFacts
<1>2. Shifts(later, queue, 0, more) /\ Moves(task[t], task'[t], s, k)
  BY <1>1, AwaitShifts
<1>3. queue # <<>> => AnswerOK(queue[1], tables)
  BY <1>1 DEF TurnsOK
<1>4. /\ more \in Seq(Calls) /\ more # <<>> /\ AllSent(more, s)
      /\ \A i \in DOMAIN queue : queue[i].task # s
  OBVIOUS
<1>5. QueueShown(later, queue, s, tables)
  BY ONLY <1>1, <1>2, <1>3, <1>4, BeginQueue
<1>. QED  BY <1>2, <1>5

\* goes on,
LEMMA ResumeShows ==
  ASSUME ShowInv, NEW t \in Tabs, NEW kind, NEW stage, Awaited(t, kind, stage),
         NEW k, NEW more \in Seq(Calls), Resume(t, k, more), AllSent(more, Oldest(t).task)
  PROVE  /\ QueueShown(calls'[t], calls[t], Oldest(t).task, messages)
         /\ Moves(task[t], task'[t], Oldest(t).task, k)
<1>. PICK queue, later, tables, s :
        queue = calls[t] /\ later = calls'[t] /\ tables = messages /\ s = Oldest(t).task
  OBVIOUS
<1>1. MirrorInv
  BY DEF ShowInv
<1>2. queue # <<>> /\ s # None /\ s \in Slots /\ queue[1].task = s /\ tab[t].pc = "open"
  BY <1>1, ReturnedIs
<1>3. TasksInv /\ CallsInv /\ queue \in Seq(Calls) /\ AllFit(queue, task[t], tab[t].list)
  BY <1>2, ShowFacts
<1>4. Shifts(later, queue, 1, more) /\ Moves(task[t], task'[t], s, k)
  BY <1>2, <1>3, ResumeShifts
<1>5. more \in Seq(Calls) /\ AllSent(more, s)
  OBVIOUS
<1>6. QueueShown(later, queue, s, tables)
  BY ONLY <1>2, <1>3, <1>4, <1>5, TailQueue
<1>. QED  BY <1>4, <1>6

\* and ends.
LEMMA FinishShows ==
  ASSUME ShowInv, NEW t \in Tabs, NEW kind, NEW stage, Awaited(t, kind, stage), Finish(t),
         Saving(Waiting(t)) => Waiting(t).pc = "saved one"
  PROVE  /\ QueueShown(calls'[t], calls[t], Oldest(t).task, messages)
         /\ Moves(task[t], task'[t], Oldest(t).task, NoTask)
<1>. PICK queue, later, tables, s, hs :
        /\ queue = calls[t] /\ later = calls'[t] /\ tables = messages /\ s = Oldest(t).task
        /\ hs = task[t]
  OBVIOUS
<1>1. MirrorInv
  BY DEF ShowInv
<1>2. /\ queue # <<>> /\ s # None /\ s \in Slots /\ queue[1].task = s /\ tab[t].pc = "open"
      /\ 1 \in DOMAIN queue /\ Waiting(t) = hs[s]
  BY <1>1, ReturnedIs
<1>3. /\ TasksInv /\ CallsInv /\ queue \in Seq(Calls) /\ AllFit(queue, hs, tab[t].list)
      /\ AllSave(queue, hs)
  BY <1>2, ShowFacts
<1>4. \A i \in DOMAIN queue : queue[i].task = s => i = 1
  <2>1. Saving(hs[s]) => hs[s].pc = "saved one"
    BY <1>2
  <2>. QED  BY <1>2, <1>3, <2>1, NoFurther
<1>5. Shifts(later, queue, 1, <<>>) /\ Moves(hs, task'[t], s, NoTask)
  <2>1. \A i \in DOMAIN calls[t] : i > 1 => calls[t][i].task # Oldest(t).task
    <3>1. \A i \in DOMAIN queue : i > 1 => queue[i].task # s
      BY ONLY <1>4
    <3>. QED  BY <3>1
  <2>2. calls[t] # <<>> /\ Oldest(t).task # None
    BY <1>2
  <2>. QED  BY <1>3, <2>1, <2>2, FinishShifts
<1>0. PICK more : more = <<>>
  OBVIOUS
<1>6. more \in Seq(Calls) /\ AllSent(more, s) /\ Shifts(later, queue, 1, more)
  <2>1. more \in Seq(Calls) /\ 1..Len(more) = {}
    BY ONLY <1>0
  <2>. QED  BY ONLY <1>0, <1>5, <2>1 DEF AllSent
<1>7. QueueShown(later, queue, s, tables)
  BY ONLY <1>2, <1>3, <1>6, TailQueue
<1>. QED  BY <1>5, <1>7

\* A handler that ends without a question shows what it has shown, or what is
\* saved.
LEMMA EndShows ==
  ASSUME ShowInv, NEW t \in Tabs, NEW kind, NEW stage, Awaited(t, kind, stage), Finish(t),
         UNCHANGED <<store, asked>>, Saving(Waiting(t)) => Waiting(t).pc = "saved one",
         NEW next, Show(t, next), AllAsked(next.turns, DOMAIN asked),
         \/ /\ kind # "ask" /\ next.turns = tab[t].turns /\ next.active = tab[t].active
         \/ /\ kind \in {"ask", "new", "select", "delete"}
            /\ next.active \in DOMAIN messages => Kept(next.turns) = messages[next.active]
  PROVE  PageShown(tab'[t], calls'[t], task'[t], messages', DOMAIN asked')
<1>. PICK queue, later, hs, after, page, tables, s :
        /\ queue = calls[t] /\ later = calls'[t] /\ hs = task[t] /\ after = task'[t]
        /\ page = tab[t] /\ tables = messages /\ s = Oldest(t).task
  OBVIOUS
<1>1. MirrorInv
  BY DEF ShowInv
<1>2. s \in Slots /\ hs[s].kind = kind /\ page.pc = "open"
  <2>1. /\ Oldest(t).task \in Slots /\ Waiting(t) = task[t][Oldest(t).task]
        /\ Waiting(t).kind = kind /\ tab[t].pc = "open"
    BY <1>1, ReturnedIs
  <2>. QED  BY <2>1
<1>3. TabsInv /\ TurnsOK(page, queue, hs, tables) /\ AllSole(hs, page)
  BY <1>2, ShowFacts
<1>4. QueueShown(later, queue, s, tables) /\ Moves(hs, after, s, NoTask)
  BY FinishShows
<1>5. tab'[t] = next /\ messages' = tables /\ DOMAIN asked' = DOMAIN asked
  BY <1>3, ShowIs DEF store
<1>6. CASE kind # "ask" /\ next.turns = tab[t].turns /\ next.active = tab[t].active
  <2>1. NoTask.kind # "ask"
    BY DEF NoTask
  <2>2. SameAsks(hs, after, s)
    BY <1>2, <1>4, <1>6, <2>1, MovesAsks
  <2>3. TurnsOK(next, later, after, tables)
    BY <1>3, <1>4, <1>6, <2>2, ShowStays
  <2>. QED  BY <1>5, <2>3 DEF PageShown
<1>7. CASE /\ kind \in {"ask", "new", "select", "delete"}
           /\ next.active \in DOMAIN messages => Kept(next.turns) = messages[next.active]
  <2>1. Exclusive(hs[s]) \/ hs[s].kind = "delete"
    BY <1>2, <1>7 DEF Exclusive
  <2>2. \A r \in Slots : after[r].kind # "ask"
    <3>1. \A r \in Slots \ {s} : hs[r].kind # "ask" /\ after[r] = hs[r]
      BY <1>2, <1>3, <1>4, <2>1, OnlyAsk, ZenonT(60) DEF Moves
    <3>2. after[s].kind # "ask"
      <4>1. after[s] = NoTask
        BY ONLY <1>4 DEF Moves
      <4>2. NoTask.kind # "ask"
        BY DEF NoTask
      <4>. QED  BY ONLY <4>1, <4>2
    <3>. QED  BY <3>1, <3>2
  <2>3. TurnsOK(next, later, after, tables)
    BY <1>4, <1>7, <2>2, NoneAsks
  <2>. QED  BY <1>5, <2>3 DEF PageShown
<1>. QED  BY <1>6, <1>7

\* A visit shows what is saved.
LEMMA VisitShows ==
  ASSUME ShowInv, NEW t \in Tabs, Visit(t)
  PROVE  PageShown(tab'[t], calls'[t], task'[t], messages', DOMAIN asked')
<1>1. /\ TabsInv /\ CallsInv /\ StoreInv /\ SavedInv /\ TabOK(tab[t])
      /\ PageOK(tab[t], calls[t], task[t], Visible, rendered)
  BY MirrorFacts DEF ShowInv, MirrorInv, DashboardInv, TabsInv
<1>2. CASE VisitLoad(t)
  <2>. PICK list, c, turns : /\ list = tab[t].list /\ c = Head(list)
                             /\ turns = IF Exists(c) THEN messages[c] ELSE <<>>
    OBVIOUS
  <2>. PICK state : state = [pc |-> "open", list |-> list, active |-> c, turns |-> turns,
                             loading |-> FALSE, switching |-> FALSE]
    OBVIOUS
  <2>. PICK head, queue : head = Call(None, "token", None, None) /\ queue = <<head>>
    OBVIOUS
  <2>1. /\ tab'[t] = state /\ messages' = messages /\ task' = task /\ asked' = asked
        /\ calls' = [calls EXCEPT ![t] = Append(@, head)] /\ tab[t].pc = "rendering"
    BY <1>1, <1>2, ShowIs DEF VisitLoad, store
  <2>2. calls[t] = <<>> /\ \A s \in Slots : task[t][s] = NoTask
    BY <1>1, <2>1 DEF PageOK
  <2>3. calls'[t] = queue
    <3>1. calls'[t] = Append(calls[t], head)
      BY <1>1, <2>1 DEF CallsInv
    <3>2. Append(<<>>, head) = <<head>>
      OBVIOUS
    <3>. QED  BY <2>2, <3>1, <3>2
  <2>4. AllAsked(turns, DOMAIN asked)
    <3>1. CASE Exists(c)
      BY <1>1, <3>1 DEF AllAsked, SavedInv, Exists
    <3>2. CASE ~Exists(c)
      BY <3>2 DEF AllAsked
    <3>. QED  BY <3>1, <3>2
  <2>5. c \in DOMAIN messages => Kept(turns) = messages[c]
    BY <1>1, KeptSaved DEF Exists, StoreInv
  <2>6. state.active = c /\ state.turns = turns
    OBVIOUS
  <2>7. AnswerOK(queue[1], messages)
    BY DEF AnswerOK, Call
  <2>8. \A s \in Slots : task[t][s].kind # "ask"
    BY <2>2 DEF NoTask
  <2>9. TurnsOK(state, queue, task[t], messages)
    BY <2>5, <2>6, <2>7, <2>8 DEF TurnsOK
  <2>. QED  BY <2>1, <2>3, <2>4, <2>6, <2>9 DEF PageShown
<1>3. CASE ~VisitLoad(t)
  <2>1. \/ \E list : Show(t, [pc |-> "rendering", list |-> list])
        \/ Show(t, [pc |-> "creating"]) \/ Show(t, [pc |-> "closed"])
    BY <1>3 DEF Visit, VisitFind, VisitFindsNone, VisitFails, VisitCreate
  <2>2. PICK state : Show(t, state) /\ state.pc \in {"rendering", "creating", "closed"}
    <3>1. ASSUME NEW list, Show(t, [pc |-> "rendering", list |-> list])
          PROVE  \E state : Show(t, state) /\ state.pc \in {"rendering", "creating", "closed"}
      <4>1. PICK state : state = [pc |-> "rendering", list |-> list]
        OBVIOUS
      <4>. QED  BY <3>1, <4>1
    <3>2. ASSUME NEW pc \in {"creating", "closed"}, Show(t, [pc |-> pc])
          PROVE  \E state : Show(t, state) /\ state.pc \in {"rendering", "creating", "closed"}
      <4>1. PICK state : state = [pc |-> pc]
        OBVIOUS
      <4>. QED  BY <3>2, <4>1
    <3>. QED  BY <2>1, <3>1, <3>2
  <2>3. tab'[t].pc # "open"
    BY <1>1, <2>2, ShowIs
  <2>. QED  BY <2>3 DEF PageShown
<1>. QED  BY <1>2, <1>3

\* What starts other than handleAsk shows no other message.
LEMMA StartShows ==
  ASSUME ShowInv, NEW t \in Tabs, NEW s \in Slots, MayStart(t, s),
         NEW k, k.kind # "ask", NEW c \in Calls, c.task = s, c.stage = "sent",
         Await(t, s, k, <<c>>), UNCHANGED <<store, asked>>,
         NEW next, tab'[t] = next, next.turns = tab[t].turns, next.active = tab[t].active
  PROVE  PageShown(tab'[t], calls'[t], task'[t], messages', DOMAIN asked')
<1>. PICK queue, later, hs, after, page, tables :
        /\ queue = calls[t] /\ later = calls'[t] /\ hs = task[t] /\ after = task'[t]
        /\ page = tab[t] /\ tables = messages
  OBVIOUS
<1>1. tab[t].pc = "open" /\ hs[s] = NoTask
  BY DEF MayStart
<1>2. /\ None \notin Slots /\ AllFit(queue, hs, page.list) /\ TurnsOK(page, queue, hs, tables)
      /\ AllAsked(page.turns, DOMAIN asked)
  BY <1>1, ShowFacts
<1>3. \A i \in DOMAIN queue : queue[i].task # s
  BY <1>1, <1>2, FreeSlot
<1>4. QueueShown(later, queue, s, tables) /\ Moves(hs, after, s, k)
  <2>0. PICK more : more = <<c>>
    OBVIOUS
  <2>1. more \in Seq(Calls) /\ more # <<>> /\ AllSent(more, s)
    BY ONLY <2>0, c \in Calls, c.task = s, c.stage = "sent" DEF AllSent
  <2>2. Await(t, s, k, more)
    BY <2>0
  <2>3. \A i \in DOMAIN calls[t] : calls[t][i].task # s
    BY <1>3
  <2>4. QueueShown(calls'[t], calls[t], s, messages) /\ Moves(task[t], task'[t], s, k)
    BY <1>1, <2>1, <2>2, <2>3, BeginShows
  <2>. QED  BY <2>4
<1>5. hs[s].kind # "ask"
  BY <1>1 DEF NoTask
<1>6. SameAsks(hs, after, s)
  BY <1>4, <1>5, MovesAsks
<1>7. TurnsOK(next, later, after, tables)
  BY <1>2, <1>4, <1>6, ShowStays
<1>8. messages' = tables /\ asked' = asked
  BY DEF store
<1>. QED  BY <1>2, <1>7, <1>8 DEF PageShown

\* A question is shown before it is saved.
LEMMA AskShows ==
  ASSUME ShowInv, NEW t \in Tabs, NEW s \in Slots, NEW q \in Questions, StartAsk(t, s, q)
  PROVE  PageShown(tab'[t], calls'[t], task'[t], messages', DOMAIN asked')
<1>. PICK queue, later, hs, after, page, tables :
        /\ queue = calls[t] /\ later = calls'[t] /\ hs = task[t] /\ after = task'[t]
        /\ page = tab[t] /\ tables = messages
  OBVIOUS
<1>. PICK k, c : /\ k = [kind |-> "ask", pc |-> "token", question |-> q, conv |-> AskIn(t)]
                 /\ c = Call(s, "token", None, None)
  OBVIOUS
<1>. PICK turns, u : u = Message(q, "user") /\ turns = Append(page.turns, u)
  OBVIOUS
<1>. PICK state : state = [page EXCEPT !.turns = turns, !.loading = TRUE]
  OBVIOUS
<1>1. /\ MayStart(t, s) /\ ~Busied(page) /\ q \notin DOMAIN asked
      /\ DOMAIN asked' = DOMAIN asked \cup {q} /\ UNCHANGED store
      /\ Show(t, state) /\ Await(t, s, k, <<c>>)
  BY DEF StartAsk, AskCalls, Busy, Busied
<1>2. tab[t].pc = "open" /\ hs[s] = NoTask
  BY <1>1 DEF MayStart
<1>3. /\ None \notin Slots /\ AllFit(queue, hs, page.list) /\ TurnsOK(page, queue, hs, tables)
      /\ AllAsked(page.turns, DOMAIN asked) /\ OpenPage(page) /\ AllSole(hs, page)
      /\ TabsInv /\ StoreInv /\ SavedInv
  BY <1>2, ShowFacts
<1>4. QueueShown(later, queue, s, tables) /\ Moves(hs, after, s, k)
  <2>0. PICK more : more = <<c>>
    OBVIOUS
  <2>1. c \in Calls /\ c.task = s /\ c.stage = "sent"
    BY CallIs
  <2>2. more \in Seq(Calls) /\ more # <<>> /\ AllSent(more, s)
    BY ONLY <2>0, <2>1 DEF AllSent
  <2>3. Await(t, s, k, more)
    BY <1>1, <2>0
  <2>4. \A i \in DOMAIN queue : queue[i].task # s
    BY <1>2, <1>3, FreeSlot
  <2>5. \A i \in DOMAIN calls[t] : calls[t][i].task # s
    BY <2>4
  <2>6. QueueShown(calls'[t], calls[t], s, messages) /\ Moves(task[t], task'[t], s, k)
    BY <1>2, <2>2, <2>3, <2>5, BeginShows
  <2>. QED  BY <2>6
<1>5. \A r \in Slots : hs[r].kind # "ask"
  BY <1>1, <1>3, AsksAlone
<1>6. /\ after[s] = k /\ after[s].kind = "ask" /\ after[s].pc = "token" /\ after[s].question = q
      /\ \A r \in Slots \ {s} : after[r].kind # "ask"
  BY <1>4, <1>5 DEF Moves
<1>7. u \in Turn /\ page.turns \in Seq(Turn) /\ turns \in Seq(Turn) /\ u.question = q
  <2>1. u \in Turn /\ u.question = q
    BY DEF Message, Turn
  <2>. QED  BY <1>3, <2>1 DEF OpenPage
<1>8. state.active = page.active /\ state.turns = turns
  <2>1. Shown(state, page.list, page.active, turns)
    BY <1>3, <1>7, ShowTurns
  <2>. QED  BY <2>1 DEF Shown
<1>9. Message(q, "error") \notin ToSet(page.turns)
  BY <1>1, <1>3 DEF AllAsked, ToSet, Message
<1>10. ASSUME state.active \in DOMAIN tables
       PROVE  AskShown(later, after[s], s, state.turns, tables[state.active])
  <2>. PICK rows : rows = tables[state.active]
    OBVIOUS
  <2>1. Kept(page.turns) = rows
    BY <1>3, <1>5, <1>8, <1>10 DEF TurnsOK
  <2>2. rows \in Seq(Saved) /\ \A i \in DOMAIN rows : rows[i].question # q
    BY <1>1, <1>3, <1>10 DEF StoreInv, SavedInv
  <2>3. Kept(turns) = Append(rows, u) /\ Message(q, "error") \notin ToSet(turns)
    BY <1>7, <1>9, <2>1, KeptMore
  <2>4. Append(rows, u) = rows \o <<u>>
    BY <1>7, <2>2, TurnsOfSaved, AppendIsConcat
  <2>5. Unsaved(later, after[s], s) = <<u>>
    BY <1>6 DEF Unsaved
  <2>. QED  BY <1>6, <1>8, <2>2, <2>3, <2>4, <2>5 DEF AskShown
<1>11. TurnsOK(state, later, after, tables)
  BY <1>4, <1>6, <1>10, OneAsks
<1>12. AllAsked(turns, DOMAIN asked \cup {q})
  <2>1. PICK n : n = Len(page.turns) + 1
    OBVIOUS
  <2>2. /\ DOMAIN turns = DOMAIN page.turns \cup {n} /\ turns[n] = u
        /\ \A i \in DOMAIN page.turns : turns[i] = page.turns[i]
    BY <1>7, <2>1
  <2>. QED  BY <1>3, <1>7, <2>2 DEF AllAsked
<1>13. tab'[t] = state /\ messages' = tables
  BY <1>1, <1>3, ShowIs DEF store
<1>. QED  BY <1>1, <1>8, <1>11, <1>12, <1>13 DEF PageShown

\* Nothing else that the owner does changes what is shown.
LEMMA ActShows ==
  ASSUME ShowInv, NEW t \in Tabs, Act(t)
  PROVE  PageShown(tab'[t], calls'[t], task'[t], messages', DOMAIN asked')
<1>. PICK s \in Slots :
        \/ \E q \in Questions : StartAsk(t, s, q)
        \/ StartNew(t, s)
        \/ tab[t].pc = "open" /\ \E c \in ToSet(tab[t].list) :
                StartSelect(t, s, c) \/ StartRename(t, s, c) \/ StartDelete(t, s, c)
  BY DEF Act
<1>. PICK page : page = tab[t]
  OBVIOUS
<1>0. MayStart(t, s) /\ tab[t].pc = "open" /\ OpenPage(page) /\ TabsInv
  <2>1. MayStart(t, s)
    BY DEF StartAsk, StartNew, StartSelect, StartRename, StartDelete
  <2>2. tab[t].pc = "open"
    BY <2>1 DEF MayStart
  <2>. QED  BY <2>1, <2>2, ShowFacts
<1>1. \A d \in ToSet(page.list) : d \in Ids
  BY <1>0, OpenIs DEF ShowInv
<1>. PICK state : state = [page EXCEPT !.switching = TRUE]
  OBVIOUS
<1>2. state.turns = page.turns /\ state.active = page.active
  BY <1>0, ShowSwitching DEF Shown
<1>3. CASE StartNew(t, s)
  <2>. PICK k, c : k = [kind |-> "new"] /\ c = Call(s, "create", None, None)
    OBVIOUS
  <2>1. Show(t, state) /\ Await(t, s, k, <<c>>) /\ UNCHANGED <<store, asked>>
    BY <1>3 DEF StartNew
  <2>2. c \in Calls /\ c.task = s /\ c.stage = "sent" /\ k.kind # "ask"
    BY CallIs
  <2>3. tab'[t] = state
    BY <1>0, <2>1, ShowIs
  <2>. QED  BY <1>0, <1>2, <2>1, <2>2, <2>3, StartShows
<1>4. ASSUME NEW d \in ToSet(page.list), StartSelect(t, s, d)
      PROVE  PageShown(tab'[t], calls'[t], task'[t], messages', DOMAIN asked')
  <2>. PICK k, c : k = [kind |-> "select", conv |-> d] /\ c = Call(s, "load", d, None)
    OBVIOUS
  <2>1. Show(t, state) /\ Await(t, s, k, <<c>>) /\ UNCHANGED <<store, asked>>
    BY <1>4 DEF StartSelect
  <2>2. c \in Calls /\ c.task = s /\ c.stage = "sent" /\ k.kind # "ask"
    BY <1>1, CallIs
  <2>3. tab'[t] = state
    BY <1>0, <2>1, ShowIs
  <2>. QED  BY <1>0, <1>2, <2>1, <2>2, <2>3, StartShows
<1>5. ASSUME NEW d \in ToSet(page.list), StartRename(t, s, d)
      PROVE  PageShown(tab'[t], calls'[t], task'[t], messages', DOMAIN asked')
  <2>. PICK k, c : k = [kind |-> "rename", conv |-> d] /\ c = Call(s, "rename", d, None)
    OBVIOUS
  <2>1. tab'[t] = page /\ Await(t, s, k, <<c>>) /\ UNCHANGED <<store, asked>>
    BY <1>5 DEF StartRename
  <2>2. c \in Calls /\ c.task = s /\ c.stage = "sent" /\ k.kind # "ask"
    BY <1>1, CallIs
  <2>. QED  BY <1>0, <2>1, <2>2, StartShows
<1>6. ASSUME NEW d \in ToSet(page.list), StartDelete(t, s, d)
      PROVE  PageShown(tab'[t], calls'[t], task'[t], messages', DOMAIN asked')
  <2>. PICK k, c : /\ k = [kind |-> "delete", pc |-> "deleting", conv |-> d,
                           list |-> page.list, active |-> page.active]
                   /\ c = Call(s, "delete", d, None)
    OBVIOUS
  <2>1. tab'[t] = page /\ Await(t, s, k, <<c>>) /\ UNCHANGED <<store, asked>>
    BY <1>6 DEF StartDelete
  <2>2. c \in Calls /\ c.task = s /\ c.stage = "sent" /\ k.kind # "ask"
    BY <1>1, CallIs
  <2>. QED  BY <1>0, <2>1, <2>2, StartShows
<1>. QED  BY <1>3, <1>4, <1>5, <1>6, AskShows

\* A turn is a question and an answer,
LEMMA PairIs ==
  ASSUME NEW u, NEW a
  PROVE  <<u>> \o <<a>> = <<u, a>>
<1>. PICK one, two, pair, both : one = <<u>> /\ two = <<a>> /\ pair = <<u, a>> /\ both = one \o two
  OBVIOUS
<1>1. one \in Seq({u, a}) /\ two \in Seq({u, a}) /\ pair \in Seq({u, a})
  OBVIOUS
<1>2. Len(one) = 1 /\ Len(two) = 1 /\ Len(pair) = 2 /\ one[1] = u /\ two[1] = a
      /\ pair[1] = u /\ pair[2] = a
  OBVIOUS
<1>3. both \in Seq({u, a}) /\ Len(both) = 2
  BY <1>1, <1>2
<1>4. both[1] = u /\ both[2] = a
  BY <1>1, <1>2
<1>5. both = pair
  <2>1. DOMAIN both = 1..2 /\ DOMAIN pair = 1..2 /\ \A i \in 1..2 : both[i] = pair[i]
    <3>1. 1..2 = {1, 2}
      OBVIOUS
    <3>. QED  BY ONLY <1>1, <1>2, <1>3, <1>4, <3>1
  <2>. QED  BY ONLY <1>1, <1>3, <2>1
<1>. QED  BY <1>5

\* shown one after the other.
LEMMA PairAppended ==
  ASSUME NEW rows \in Seq(Turn), NEW u \in Turn, NEW a \in Turn
  PROVE  Append(Append(rows, u), a) = rows \o <<u, a>>
<1>. PICK one, two, some : one = <<u>> /\ two = <<a>> /\ some = Append(rows, u)
  OBVIOUS
<1>1. one \in Seq(Turn) /\ two \in Seq(Turn) /\ some \in Seq(Turn)
  OBVIOUS
<1>2. Append(rows, u) = rows \o <<u>>
  BY AppendIsConcat
<1>3. Append(some, a) = some \o <<a>>
  BY ONLY <1>1, a \in Turn, AppendIsConcat
<1>4. (rows \o one) \o two = rows \o (one \o two)
  BY ONLY <1>1, rows \in Seq(Turn), ConcatAssociative, SMTT(60)
<1>5. one \o two = <<u, a>>
  BY PairIs
<1>. QED  BY <1>2, <1>3, <1>4, <1>5

\* One more that was asked.
LEMMA AskedMore ==
  ASSUME NEW turns \in Seq(Turn), NEW m \in Turn, NEW questions, AllAsked(turns, questions),
         m.question \in questions
  PROVE  AllAsked(Append(turns, m), questions)
<1>1. PICK n, more : n = Len(turns) + 1 /\ more = Append(turns, m)
  OBVIOUS
<1>2. /\ DOMAIN more = DOMAIN turns \cup {n} /\ more[n] = m
      /\ \A i \in DOMAIN turns : more[i] = turns[i]
  BY <1>1
<1>3. \A i \in DOMAIN more : more[i].question \in questions
  BY <1>2 DEF AllAsked
<1>. QED  BY <1>1, <1>3 DEF AllAsked

\* The handler of a question, and what is saved of the conversation.
LEMMA AskIs ==
  ASSUME ShowInv, NEW t \in Tabs, NEW s \in Slots, task[t][s].kind = "ask"
  PROVE  /\ tab[t].pc = "open" /\ task[t][s] \in AskTask
         /\ task[t][s].question \in Questions /\ task[t][s].question \in DOMAIN asked
         /\ task[t][s].conv \in Ids
         /\ \A r \in Slots \ {s} : task[t][r].kind # "ask"
         /\ tab[t].active = task[t][s].conv
         /\ tab[t].active \in DOMAIN messages =>
              AskShown(calls[t], task[t][s], s, tab[t].turns, messages[tab[t].active])
<1>1. PageOK(tab[t], calls[t], task[t], Visible, rendered) /\ task[t][s] # NoTask
  BY MirrorFacts DEF ShowInv, NoTask
<1>2. tab[t].pc = "open"
  BY <1>1 DEF PageOK
<1>3. /\ TasksInv /\ AskedInv /\ StoreInv /\ AllSole(task[t], tab[t])
      /\ TurnsOK(tab[t], calls[t], task[t], messages)
  BY <1>2, ShowFacts
<1>4. task[t][s] \in Tasks
  BY <1>3 DEF TasksInv
<1>5. task[t][s] \in AskTask
  BY <1>4, TaskKinds
<1>6. Exclusive(task[t][s])
  BY DEF Exclusive
<1>7. \A r \in Slots \ {s} : task[t][r].kind # "ask"
  BY <1>3, <1>6, OnlyAsk
<1>8. tab[t].active = task[t][s].conv
  BY <1>3 DEF AllSole, SoleOK
<1>. QED  BY <1>2, <1>3, <1>5, <1>7, <1>8 DEF AskTask, AskedInv, StoreInv, TurnsOK

\* An answer is shown before it is saved, and an error is said instead.
LEMMA ChatShows ==
  ASSUME ShowInv, NEW t \in Tabs, NEW s \in Slots, Chat(t, s)
  PROVE  PageShown(tab'[t], calls'[t], task'[t], messages', DOMAIN asked')
<1>. PICK queue, later, hs, after, page, tables :
        /\ queue = calls[t] /\ later = calls'[t] /\ hs = task[t] /\ after = task'[t]
        /\ page = tab[t] /\ tables = messages
  OBVIOUS
<1>. PICK k, q : k = task[t][s] /\ q = k.question
  OBVIOUS
<1>. PICK u, a, e : /\ u = Message(q, "user") /\ a = Message(q, "assistant")
                    /\ e = Message(q, "error")
  OBVIOUS
<1>1. k.kind = "ask" /\ k.pc = "chat" /\ UNCHANGED <<store, asked>> /\ hs[s] = k
  BY DEF Chat, ChatAnswers, ChatFails, serverVars
<1>2. /\ page.pc = "open" /\ k \in AskTask /\ q \in Questions /\ q \in DOMAIN asked /\ k.conv \in Ids
      /\ \A r \in Slots \ {s} : hs[r].kind # "ask"
      /\ page.active \in DOMAIN tables =>
           AskShown(queue, k, s, page.turns, tables[page.active])
  <2>1. task[t][s].kind = "ask"
    BY <1>1
  <2>2. /\ tab[t].pc = "open" /\ task[t][s] \in AskTask
        /\ task[t][s].question \in Questions /\ task[t][s].question \in DOMAIN asked
        /\ task[t][s].conv \in Ids
        /\ \A r \in Slots \ {s} : task[t][r].kind # "ask"
        /\ tab[t].active \in DOMAIN messages =>
             AskShown(calls[t], task[t][s], s, tab[t].turns, messages[tab[t].active])
    BY <2>1, AskIs
  <2>. QED  BY <2>2
<1>3. /\ TabsInv /\ TasksInv /\ CallsInv /\ StoreInv /\ AllFit(queue, hs, page.list)
      /\ OpenPage(page) /\ AllAsked(page.turns, DOMAIN asked) /\ queue \in Seq(Calls)
      /\ TurnsOK(page, queue, hs, tables) /\ None \notin Slots
  BY <1>2, ShowFacts
<1>4. /\ u \in Turn /\ a \in Turn /\ e \in Turn /\ page.turns \in Seq(Turn)
      /\ u.question = q /\ a.question = q /\ e.question = q
  <2>1. u \in Turn /\ a \in Turn /\ e \in Turn /\ u.question = q /\ a.question = q /\ e.question = q
    BY <1>2, MessageIs DEF Message
  <2>. QED  BY <1>3, <2>1 DEF OpenPage
<1>5. \A i \in DOMAIN queue : queue[i].task # s
  <2>1. \A c : ~Fits(c, hs[s])
    BY <1>1 DEF Fits, Saving
  <2>. QED  BY <1>3, <2>1 DEF AllFit, CallFits
<1>6. ASSUME page.active \in DOMAIN tables, NEW rows, rows = tables[page.active]
      PROVE  /\ rows \in Seq(Saved) /\ rows \in Seq(Turn) /\ Kept(page.turns) = Append(rows, u)
             /\ e \notin ToSet(page.turns) /\ \A i \in DOMAIN rows : rows[i].question # q
  <2>1. AskShown(queue, k, s, page.turns, rows)
    BY <1>2, <1>6
  <2>2. Unsaved(queue, k, s) = <<u>>
    BY <1>1 DEF Unsaved
  <2>3. rows \in Seq(Saved) /\ rows \in Seq(Turn)
    BY <1>3, <1>6, TurnsOfSaved DEF StoreInv
  <2>4. Append(rows, u) = rows \o <<u>>
    BY <1>4, <2>3, AppendIsConcat
  <2>. QED  BY <1>1, <2>1, <2>2, <2>3, <2>4 DEF AskShown
<1>7. messages' = tables /\ DOMAIN asked' = DOMAIN asked
  BY <1>1 DEF store
<1>8. CASE ChatAnswers(t, s)
  <2>. PICK turns : turns = Append(page.turns, a)
    OBVIOUS
  <2>. PICK state : state = [page EXCEPT !.turns = turns]
    OBVIOUS
  <2>. PICK n, more : n = [k EXCEPT !.pc = "saving"] /\ more = TurnCalls(s, k.conv, q)
    OBVIOUS
  <2>1. Show(t, state) /\ Await(t, s, n, more)
    BY <1>8 DEF ChatAnswers
  <2>2. n.kind = "ask" /\ n.pc = "saving" /\ n.question = q
    BY <1>1, <1>2 DEF AskTask
  <2>3. more \in Seq(Calls) /\ more # <<>> /\ AllSent(more, s)
    <3>. PICK c, d : /\ c = Call(s, "append", k.conv, Message(q, "user"))
                     /\ d = Call(s, "append", k.conv, Message(q, "assistant"))
      OBVIOUS
    <3>1. c \in Calls /\ d \in Calls
      BY <1>2 DEF Calls, Call, Saved, Message, Results
    <3>2. c.task = s /\ d.task = s /\ c.stage = "sent" /\ d.stage = "sent"
      BY DEF Call
    <3>3. more = <<c, d>>
      BY DEF TurnCalls
    <3>4. more \in Seq(Calls) /\ Len(more) = 2 /\ more[1] = c /\ more[2] = d /\ more # <<>>
      BY ONLY <3>1, <3>3
    <3>5. 1..2 = {1, 2}
      OBVIOUS
    <3>. QED  BY ONLY <3>2, <3>4, <3>5 DEF AllSent
  <2>4. QueueShown(later, queue, s, tables) /\ Moves(hs, after, s, n)
    <3>1. /\ \A i \in DOMAIN calls[t] : calls[t][i].task # s
          /\ tab[t].pc = "open"
      BY <1>2, <1>5
    <3>2. QueueShown(calls'[t], calls[t], s, messages) /\ Moves(task[t], task'[t], s, n)
      BY <2>1, <2>3, <3>1, BeginShows
    <3>. QED  BY <3>2
  <2>5. after[s] = n /\ after[s].kind = "ask" /\ \A r \in Slots \ {s} : after[r].kind # "ask"
    BY <1>2, <2>2, <2>4 DEF Moves
  <2>6. turns \in Seq(Turn)
    BY <1>4
  <2>7. Shown(state, page.list, page.active, turns)
    BY <1>3, <2>6, ShowTurns
  <2>8. state.turns = turns /\ state.active = page.active
    BY <2>7 DEF Shown
  <2>9. ASSUME state.active \in DOMAIN tables
        PROVE  AskShown(later, after[s], s, state.turns, tables[state.active])
    <3>1. PICK rows : rows = tables[state.active]
      OBVIOUS
    <3>2. /\ rows \in Seq(Turn) /\ Kept(page.turns) = Append(rows, u) /\ e \notin ToSet(page.turns)
      BY <1>6, <2>8, <2>9, <3>1
    <3>3. Kept(turns) = Append(Append(rows, u), a) /\ e \notin ToSet(turns)
      BY <1>2, <1>4, <3>2, KeptMore
    <3>4. Append(Append(rows, u), a) = rows \o <<u, a>>
      <4>1. u \in Turn /\ a \in Turn /\ rows \in Seq(Turn)
        BY <1>4, <3>2
      <4>. QED  BY ONLY <4>1, PairAppended
    <3>5. Unsaved(later, after[s], s) = <<u, a>>
      BY <2>2, <2>4, <2>5 DEF Unsaved, QueueShown
    <3>. QED  BY <2>2, <2>5, <2>8, <3>1, <3>3, <3>4, <3>5 DEF AskShown
  <2>10. TurnsOK(state, later, after, tables)
    BY <2>4, <2>5, <2>9, OneAsks, ZenonT(60)
  <2>11. AllAsked(turns, DOMAIN asked)
    BY <1>2, <1>3, <1>4, AskedMore
  <2>12. tab'[t] = state
    BY <1>3, <2>1, ShowIs
  <2>. QED  BY <1>7, <2>8, <2>10, <2>11, <2>12 DEF PageShown
<1>9. CASE ChatFails(t, s)
  <2>. PICK turns : turns = Append(page.turns, e)
    OBVIOUS
  <2>. PICK state : state = [page EXCEPT !.turns = turns, !.loading = FALSE]
    OBVIOUS
  <2>1. Show(t, state) /\ task' = [task EXCEPT ![t][s] = NoTask] /\ later = queue
    BY <1>9 DEF ChatFails, Failed, serverVars
  <2>2. Moves(hs, after, s, NoTask)
    BY <1>3, <2>1, TaskMoves
  <2>3. \A r \in Slots : after[r].kind # "ask"
    BY <1>2, <2>2 DEF Moves, NoTask
  <2>4. turns \in Seq(Turn)
    BY <1>4
  <2>5. Shown(state, page.list, page.active, turns)
    BY <1>3, <2>4, ShowTurns
  <2>6. state.turns = turns /\ state.active = page.active
    BY <2>5 DEF Shown
  <2>7. QueueShown(queue, queue, s, tables)
    <3>1. ~Back(queue, s)
      <4>1. queue # <<>> => 1 \in DOMAIN queue
        BY <1>3
      <4>. QED  BY <1>5, <4>1 DEF Back
    <3>. QED  BY <1>3, <3>1 DEF QueueShown, TurnsOK
  <2>8. ASSUME state.active \in DOMAIN tables
        PROVE  Kept(state.turns) = tables[state.active]
    <3>1. PICK rows : rows = tables[state.active]
      OBVIOUS
    <3>2. /\ rows \in Seq(Saved) /\ Kept(page.turns) = Append(rows, u)
          /\ \A i \in DOMAIN rows : rows[i].question # q
      BY <1>6, <2>6, <2>8, <3>1
    <3>3. Kept(turns) = rows
      BY <1>2, <1>4, <3>2, KeptLost
    <3>. QED  BY <2>6, <3>1, <3>3
  <2>9. TurnsOK(state, queue, after, tables)
    BY <2>3, <2>7, <2>8, NoneAsks
  <2>10. AllAsked(turns, DOMAIN asked)
    BY <1>2, <1>3, <1>4, AskedMore
  <2>11. tab'[t] = state
    BY <1>3, <2>1, ShowIs
  <2>. QED  BY <1>7, <2>1, <2>6, <2>9, <2>10, <2>11 DEF PageShown
<1>. QED  BY <1>8, <1>9 DEF Chat

\* A call that nobody waits for shows nothing.
LEMMA OrphanShows ==
  ASSUME ShowInv, NEW t \in Tabs, OrphanReturns(t)
  PROVE  PageShown(tab'[t], calls'[t], task'[t], messages', DOMAIN asked')
<1>. PICK queue, later, hs, page, tables :
        /\ queue = calls[t] /\ later = calls'[t] /\ hs = task[t]
        /\ page = tab[t] /\ tables = messages
  OBVIOUS
<1>1. /\ calls[t] # <<>> /\ Oldest(t).task = None /\ calls' = [calls EXCEPT ![t] = Tail(@)]
      /\ UNCHANGED <<store, clientVars>>
  BY DEF OrphanReturns
<1>2. page.pc = "open" /\ CallsInv
  BY <1>1, MirrorFacts DEF ShowInv, MirrorInv, DashboardInv
<1>3. /\ None \notin Slots /\ queue \in Seq(Calls) /\ TurnsOK(page, queue, hs, tables)
      /\ AllFit(queue, hs, page.list) /\ AllAsked(page.turns, DOMAIN asked)
  BY <1>2, ShowFacts
<1>4. queue # <<>> /\ queue[1].task = None
  BY <1>1, <1>2, OldestIs
<1>5. Shifts(later, queue, 1, <<>>)
  BY <1>1, <1>2, OrphanShifts
<1>0. PICK more : more = <<>>
  OBVIOUS
<1>6. more \in Seq(Calls) /\ AllSent(more, None) /\ Shifts(later, queue, 1, more)
  <2>1. more \in Seq(Calls) /\ 1..Len(more) = {}
    BY ONLY <1>0
  <2>. QED  BY ONLY <1>0, <1>5, <2>1 DEF AllSent
<1>7. QueueShown(later, queue, None, tables)
  BY ONLY <1>3, <1>4, <1>6, TailQueue
<1>8. SameAsks(hs, hs, None)
  BY <1>3 DEF SameAsks
<1>9. TurnsOK(page, later, hs, tables)
  BY <1>3, <1>7, <1>8, ShowStays
<1>10. tab'[t] = page /\ task'[t] = hs /\ messages' = tables /\ asked' = asked
  BY <1>1 DEF store, clientVars
<1>. QED  BY <1>3, <1>9, <1>10 DEF PageShown

\* The handler of a question goes on with as much to be saved.
LEMMA TurnGoesOn ==
  ASSUME ShowInv, NEW t \in Tabs, Awaited(t, "ask", "done"), NEW k, Resume(t, k, <<>>),
         UNCHANGED <<store, tab, asked>>, k.kind = "ask", k.question = Waiting(t).question,
         k.pc \in {"token", "chat"} => Waiting(t).pc \in {"token", "chat"},
         NEW s, s = Oldest(t).task, NEW later, later = calls'[t],
         QueueShown(later, calls[t], s, messages)
            => Unsaved(later, k, s) = Unsaved(calls[t], Waiting(t), s)
  PROVE  PageShown(tab'[t], calls'[t], task'[t], messages', DOMAIN asked')
<1>. PICK queue, hs, after, page, tables :
        /\ queue = calls[t] /\ hs = task[t] /\ after = task'[t]
        /\ page = tab[t] /\ tables = messages
  OBVIOUS
<1>1. MirrorInv
  BY DEF ShowInv
<1>2. s \in Slots /\ hs[s] = Waiting(t) /\ hs[s].kind = "ask" /\ page.pc = "open"
  <2>1. /\ Oldest(t).task \in Slots /\ Waiting(t) = task[t][Oldest(t).task]
        /\ Waiting(t).kind = "ask" /\ tab[t].pc = "open"
    BY <1>1, ReturnedIs
  <2>. QED  BY <2>1
<1>3. /\ \A r \in Slots \ {s} : hs[r].kind # "ask"
      /\ page.active \in DOMAIN tables =>
           AskShown(queue, hs[s], s, page.turns, tables[page.active])
  <2>1. task[t][s].kind = "ask"
    BY <1>2
  <2>2. /\ \A r \in Slots \ {s} : task[t][r].kind # "ask"
        /\ tab[t].active \in DOMAIN messages =>
             AskShown(calls[t], task[t][s], s, tab[t].turns, messages[tab[t].active])
    BY <1>2, <2>1, AskIs
  <2>. QED  BY <2>2
<1>4. QueueShown(later, queue, s, tables) /\ Moves(hs, after, s, k)
  <2>0. PICK more : more = <<>>
    OBVIOUS
  <2>1. more \in Seq(Calls) /\ 1..Len(more) = {}
    BY ONLY <2>0
  <2>2. AllSent(more, Oldest(t).task)
    BY <2>1 DEF AllSent
  <2>3. Resume(t, k, more)
    BY <2>0
  <2>4. /\ QueueShown(calls'[t], calls[t], Oldest(t).task, messages)
        /\ Moves(task[t], task'[t], Oldest(t).task, k)
    BY <2>1, <2>2, <2>3, ResumeShows
  <2>. QED  BY <2>4
<1>5. after[s] = k /\ after[s].kind = "ask" /\ \A r \in Slots \ {s} : after[r].kind # "ask"
  BY <1>3, <1>4 DEF Moves
<1>6. Unsaved(later, k, s) = Unsaved(queue, hs[s], s)
  BY <1>2, <1>4
<1>7. ASSUME page.active \in DOMAIN tables
      PROVE  AskShown(later, after[s], s, page.turns, tables[page.active])
  <2>1. AskShown(queue, hs[s], s, page.turns, tables[page.active])
    BY <1>3, <1>7
  <2>2. k.question = hs[s].question /\ (k.pc \in {"token", "chat"} => hs[s].pc \in {"token", "chat"})
    BY <1>2
  <2>. QED  BY ONLY <1>5, <1>6, <2>1, <2>2 DEF AskShown
<1>8. TurnsOK(page, later, after, tables)
  BY <1>2, <1>4, <1>5, <1>7, OneAsks
<1>9. AllAsked(page.turns, DOMAIN asked)
  BY <1>2, ShowFacts
<1>10. tab'[t] = page /\ messages' = tables /\ asked' = asked
  BY DEF store
<1>. QED  BY <1>8, <1>9, <1>10 DEF PageShown

\* The handler of a question shows nothing when its calls return.
LEMMA AnswersShow ==
  ASSUME ShowInv, NEW t \in Tabs,
         TokenReturns(t) \/ TokenFails(t) \/ SavedOne(t) \/ SavedBoth(t) \/ SaveFails(t)
  PROVE  PageShown(tab'[t], calls'[t], task'[t], messages', DOMAIN asked')
<1>. PICK queue, later, hs, page, tables, s, k :
        /\ queue = calls[t] /\ later = calls'[t] /\ hs = task[t] /\ page = tab[t]
        /\ tables = messages /\ s = Oldest(t).task /\ k = Waiting(t)
  OBVIOUS
<1>1. MirrorInv
  BY DEF ShowInv
<1>2. Awaited(t, "ask", "done")
  <2>1. ~ Awaited(t, "ask", "failed")
    BY <1>1, ReturnedIs
  <2>. QED  BY <2>1 DEF TokenReturns, TokenFails, SavedOne, SavedBoth, SaveFails
<1>3. /\ s \in Slots /\ hs[s] = k /\ k.kind = "ask" /\ page.pc = "open" /\ OpenPage(page)
      /\ Fits(queue[1], k) /\ NamesListed(queue[1], page.list) /\ Back(queue, s)
  <2>1. /\ Oldest(t).task \in Slots /\ Waiting(t) = task[t][Oldest(t).task]
        /\ Waiting(t).kind = "ask" /\ tab[t].pc = "open" /\ OpenPage(tab[t])
        /\ calls[t] # <<>> /\ calls[t][1] = Oldest(t) /\ Oldest(t).stage = "done"
        /\ Fits(Oldest(t), Waiting(t)) /\ NamesListed(Oldest(t), tab[t].list)
    BY <1>1, <1>2, ReturnedIs
  <2>. QED  BY <2>1 DEF Back
<1>4. k \in AskTask /\ (page.active \in DOMAIN tables =>
                          AskShown(queue, k, s, page.turns, tables[page.active]))
  <2>1. task[t][s].kind = "ask"
    BY <1>3
  <2>2. /\ task[t][s] \in AskTask
        /\ tab[t].active \in DOMAIN messages =>
             AskShown(calls[t], task[t][s], s, tab[t].turns, messages[tab[t].active])
    BY <1>3, <2>1, AskIs
  <2>. QED  BY <1>3, <2>2
<1>5. CASE TokenReturns(t)
  <2>. PICK n : n = [k EXCEPT !.pc = "chat"]
    OBVIOUS
  <2>1. Resume(t, n, <<>>) /\ UNCHANGED <<store, tab, asked>> /\ k.pc = "token"
    BY <1>5 DEF TokenReturns
  <2>2. n.kind = "ask" /\ n.pc = "chat" /\ n.question = k.question
    BY <1>3, <1>4 DEF AskTask
  <2>3. Unsaved(later, n, s) = Unsaved(queue, k, s)
    BY <2>1, <2>2 DEF Unsaved
  <2>. QED  BY <1>2, <2>1, <2>2, <2>3, TurnGoesOn
<1>6. CASE SavedOne(t)
  <2>. PICK n : n = [k EXCEPT !.pc = "saved one"]
    OBVIOUS
  <2>1. Resume(t, n, <<>>) /\ UNCHANGED <<store, tab, asked>> /\ k.pc = "saving"
    BY <1>6 DEF SavedOne
  <2>2. n.kind = "ask" /\ n.pc = "saved one" /\ n.question = k.question
    BY <1>3, <1>4 DEF AskTask
  <2>3. QueueShown(later, queue, s, tables) => Unsaved(later, n, s) = Unsaved(queue, k, s)
    <3>1. k.pc = "saving" /\ Back(queue, s)
      BY <1>3, <2>1
    <3>2. Unsaved(queue, k, s) = <<Message(k.question, "assistant")>>
      BY ONLY <3>1 DEF Unsaved
    <3>3. ASSUME QueueShown(later, queue, s, tables)
          PROVE  Unsaved(later, n, s) = <<Message(n.question, "assistant")>>
      <4>1. ~Back(later, s)
        BY <3>3 DEF QueueShown
      <4>. QED  BY ONLY <2>2, <4>1 DEF Unsaved
    <3>. QED  BY <2>2, <3>2, <3>3
  <2>. QED  BY <1>2, <2>1, <2>2, <2>3, TurnGoesOn
<1>7. CASE SavedBoth(t)
  <2>. PICK list : list = Touched(page.list, k.conv)
    OBVIOUS
  <2>. PICK state : state = [page EXCEPT !.list = list, !.loading = FALSE]
    OBVIOUS
  <2>1. Show(t, state) /\ Finish(t) /\ UNCHANGED <<store, asked>> /\ k.pc = "saved one"
    BY <1>7 DEF SavedBoth
  <2>2. queue[1].op = "append" /\ queue[1].conv = k.conv
    BY <1>3, <2>1 DEF Fits, Saving
  <2>3. k.conv \in ToSet(page.list) /\ page.list \in Seq(Ids)
    BY <1>3, <2>2 DEF NamesListed, OpenPage
  <2>4. list \in Seq(Ids)
    BY <2>3, TouchedFront
  <2>5. Shown(state, list, page.active, page.turns)
    BY <1>3, <2>4, ShowList
  <2>6. state.turns = page.turns /\ state.active = page.active
    BY <2>5 DEF Shown
  <2>7. ASSUME page.active \in DOMAIN tables
        PROVE  Kept(page.turns) = tables[page.active]
    <3>1. PICK rows : rows = tables[page.active]
      OBVIOUS
    <3>2. Kept(page.turns) = rows \o Unsaved(queue, k, s)
      BY <1>4, <2>7, <3>1 DEF AskShown
    <3>3. Unsaved(queue, k, s) = <<>>
      BY <1>3, <2>1 DEF Unsaved
    <3>4. rows \in Seq(Saved)
      BY <2>7, <3>1 DEF ShowInv, MirrorInv, DashboardInv, StoreInv
    <3>5. rows \o <<>> = rows
      BY <3>4, ConcatEmptySeq
    <3>. QED  BY <3>1, <3>2, <3>3, <3>5
  <2>8. AllAsked(state.turns, DOMAIN asked)
    BY <1>3, <2>6, ShowFacts
  <2>9. state.active \in DOMAIN messages => Kept(state.turns) = messages[state.active]
    BY <2>6, <2>7
  <2>. QED  BY <1>2, <2>1, <2>8, <2>9, EndShows
<1>. QED  BY <1>1, <1>2, <1>5, <1>6, <1>7, ReturnedIs DEF TokenFails, SaveFails

\* A call that has been answered, its handler and the open page.
LEMMA AnswerIs ==
  ASSUME ShowInv, NEW t \in Tabs, NEW kind, Awaited(t, kind, "done")
  PROVE  /\ tab[t].pc = "open" /\ OpenPage(tab[t]) /\ AllAsked(tab[t].turns, DOMAIN asked)
         /\ Waiting(t).kind = kind /\ Fits(Oldest(t), Waiting(t))
         /\ NamesListed(Oldest(t), tab[t].list) /\ CallOK(Oldest(t))
         /\ Oldest(t).op = "create" =>
               Oldest(t).result \in DOMAIN messages /\ messages[Oldest(t).result] = <<>>
         /\ Oldest(t).op = "load" =>
              /\ Oldest(t).conv \in DOMAIN messages /\ Oldest(t).result = messages[Oldest(t).conv]
              /\ Oldest(t).result # None /\ Oldest(t).result \in Seq(Saved)
              /\ AllAsked(Oldest(t).result, DOMAIN asked)
<1>. PICK c : c = Oldest(t)
  OBVIOUS
<1>1. MirrorInv
  BY DEF ShowInv
<1>2. /\ tab[t].pc = "open" /\ OpenPage(tab[t]) /\ Waiting(t).kind = kind /\ Fits(c, Waiting(t))
      /\ NamesListed(c, tab[t].list) /\ CallOK(c) /\ c.stage = "done"
      /\ calls[t] # <<>> /\ calls[t][1] = c
  BY <1>1, ReturnedIs
<1>3. /\ AllAsked(tab[t].turns, DOMAIN asked) /\ StoreInv /\ SavedInv
      /\ TurnsOK(tab[t], calls[t], task[t], messages)
  BY <1>2, ShowFacts
<1>4. AnswerOK(c, messages)
  BY <1>2, <1>3 DEF TurnsOK
<1>5. ASSUME c.op = "load"
      PROVE  /\ c.conv \in DOMAIN messages /\ c.result = messages[c.conv]
             /\ c.result # None /\ c.result \in Seq(Saved)
             /\ AllAsked(c.result, DOMAIN asked)
  <2>1. c.conv \in DOMAIN messages /\ c.result = messages[c.conv]
    BY <1>2, <1>4, <1>5 DEF AnswerOK
  <2>2. c.result \in Seq(Saved)
    BY <1>3, <2>1 DEF StoreInv
  <2>3. AllAsked(c.result, DOMAIN asked)
    BY <1>3, <2>1 DEF SavedInv, AllAsked
  <2>. QED  BY <2>1, <2>2, <2>3, TurnsOfSaved, DashboardAssumption
<1>. QED  BY <1>2, <1>3, <1>4, <1>5 DEF AnswerOK

\* What a handler awaits.
LEMMA FitsIs ==
  ASSUME NEW c, NEW k, Fits(c, k)
  PROVE  /\ k.kind = "new" => c.op = "create"
         /\ k.kind = "select" => c.op = "load" /\ c.conv = k.conv
         /\ k.kind = "rename" => c.op = "rename" /\ c.conv = k.conv
         /\ k.kind = "delete" /\ k.pc = "creating" => c.op = "create"
         /\ k.kind = "delete" /\ k.pc = "loading" => c.op = "load" /\ c.conv = k.conv
         /\ k.kind = "delete" /\ k.pc = "deleting" => c.op = "delete" /\ c.conv = k.conv
BY DEF Fits, Saving

\* A handler other than an ask ends and leaves what is shown.
LEMMA EndStays ==
  ASSUME ShowInv, NEW t \in Tabs, NEW kind, NEW stage, kind # "ask", Awaited(t, kind, stage),
         Finish(t), UNCHANGED <<store, asked>>, ~Saving(Waiting(t)),
         NEW next, Show(t, next), AllAsked(next.turns, DOMAIN asked),
         next.turns = tab[t].turns, next.active = tab[t].active
  PROVE  PageShown(tab'[t], calls'[t], task'[t], messages', DOMAIN asked')
<1>1. Saving(Waiting(t)) => Waiting(t).pc = "saved one"
  OBVIOUS
<1>2. \/ /\ kind # "ask" /\ next.turns = tab[t].turns /\ next.active = tab[t].active
      \/ /\ kind \in {"ask", "new", "select", "delete"}
         /\ next.active \in DOMAIN messages => Kept(next.turns) = messages[next.active]
  OBVIOUS
<1>. QED  BY <1>1, <1>2, EndShows, Zenon

\* The other handlers show what they created or loaded,
LEMMA OthersShow ==
  ASSUME ShowInv, NEW t \in Tabs,
         \/ NewReturns(t) \/ SelectReturns(t) \/ RenameReturns(t)
         \/ DeleteCreated(t) \/ DeleteLoaded(t)
  PROVE  PageShown(tab'[t], calls'[t], task'[t], messages', DOMAIN asked')
<1>. PICK page, k, answer : page = tab[t] /\ k = Waiting(t) /\ answer = Oldest(t).result
  OBVIOUS
<1>. PICK none : none = <<>>
  OBVIOUS
<1>1. none \in Seq(Saved) /\ none \in Seq(Turn) /\ AllAsked(none, DOMAIN asked)
  BY DEF AllAsked
<1>2. StoreInv
  BY DEF ShowInv, MirrorInv, DashboardInv
<1>3. CASE NewReturns(t)
  <2>1. Awaited(t, "new", "done") /\ Finish(t) /\ UNCHANGED <<store, asked>>
    BY <1>3 DEF NewReturns
  <2>2. OpenPage(page) /\ k.kind = "new" /\ Oldest(t).op = "create"
    <3>1. OpenPage(tab[t]) /\ Waiting(t).kind = "new" /\ Fits(Oldest(t), Waiting(t))
          /\ NamesListed(Oldest(t), tab[t].list) /\ AllAsked(tab[t].turns, DOMAIN asked)
      BY <2>1, AnswerIs
    <3>. QED  BY <2>1, <3>1, FitsIs
  <2>3. answer \in DOMAIN messages /\ messages[answer] = none
    BY <2>1, <2>2, AnswerIs
  <2>. PICK list : list = <<answer>> \o page.list
    OBVIOUS
  <2>. PICK state : state = [page EXCEPT !.list = list, !.active = answer, !.turns = none,
                                         !.switching = FALSE]
    OBVIOUS
  <2>4. Show(t, state)
    BY <1>3 DEF NewReturns
  <2>5. answer \in Ids /\ page.list \in Seq(Ids)
    BY <1>2, <2>2, <2>3 DEF StoreInv, OpenPage
  <2>6. list \in Seq(Ids)
    BY <2>5, FrontSet
  <2>7. Shown(state, list, answer, none)
    BY <1>1, <2>2, <2>6, ShowSwitch
  <2>8. state.turns = none /\ state.active = answer
    BY <2>7 DEF Shown
  <2>9. AllAsked(state.turns, DOMAIN asked)
        /\ (state.active \in DOMAIN messages => Kept(state.turns) = messages[state.active])
    BY <1>1, <2>3, <2>8, KeptSaved
  <2>10. ~Saving(Waiting(t))
    BY <2>2 DEF Saving
  <2>. QED  BY <2>1, <2>4, <2>9, <2>10, EndShows
<1>4. CASE DeleteCreated(t)
  <2>1. /\ Awaited(t, "delete", "done") /\ Finish(t) /\ UNCHANGED <<store, asked>>
        /\ k.pc = "creating"
    BY <1>4 DEF DeleteCreated
  <2>2. OpenPage(page) /\ k.kind = "delete" /\ Oldest(t).op = "create"
    <3>1. OpenPage(tab[t]) /\ Waiting(t).kind = "delete" /\ Fits(Oldest(t), Waiting(t))
          /\ NamesListed(Oldest(t), tab[t].list) /\ AllAsked(tab[t].turns, DOMAIN asked)
      BY <2>1, AnswerIs
    <3>. QED  BY <2>1, <3>1, FitsIs
  <2>3. answer \in DOMAIN messages /\ messages[answer] = none
    BY <2>1, <2>2, AnswerIs
  <2>. PICK list : list = <<answer>>
    OBVIOUS
  <2>. PICK state : state = [page EXCEPT !.list = list, !.active = answer, !.turns = none,
                                         !.switching = FALSE]
    OBVIOUS
  <2>4. Show(t, state)
    BY <1>4 DEF DeleteCreated
  <2>5. answer \in Ids
    BY <1>2, <2>3 DEF StoreInv
  <2>6. list \in Seq(Ids)
    BY <2>5
  <2>7. Shown(state, list, answer, none)
    BY <1>1, <2>2, <2>6, ShowSwitch
  <2>8. state.turns = none /\ state.active = answer
    BY <2>7 DEF Shown
  <2>9. AllAsked(state.turns, DOMAIN asked)
        /\ (state.active \in DOMAIN messages => Kept(state.turns) = messages[state.active])
    BY <1>1, <2>3, <2>8, KeptSaved
  <2>10. ~Saving(Waiting(t))
    BY <2>2 DEF Saving
  <2>. QED  BY <2>1, <2>4, <2>9, <2>10, EndShows
<1>5. CASE SelectReturns(t)
  <2>1. Awaited(t, "select", "done") /\ Finish(t) /\ UNCHANGED <<store, asked>>
    BY <1>5 DEF SelectReturns
  <2>2. OpenPage(page) /\ k.kind = "select" /\ Oldest(t).op = "load" /\ Oldest(t).conv = k.conv
    <3>1. OpenPage(tab[t]) /\ Waiting(t).kind = "select" /\ Fits(Oldest(t), Waiting(t))
          /\ NamesListed(Oldest(t), tab[t].list) /\ AllAsked(tab[t].turns, DOMAIN asked)
      BY <2>1, AnswerIs
    <3>. QED  BY <2>1, <3>1, FitsIs
  <2>3. /\ k.conv \in DOMAIN messages /\ answer = messages[k.conv] /\ answer # None
        /\ answer \in Seq(Saved) /\ AllAsked(answer, DOMAIN asked)
    BY <2>1, <2>2, AnswerIs
  <2>. PICK state : state = [page EXCEPT !.active = k.conv, !.turns = answer, !.switching = FALSE]
    OBVIOUS
  <2>4. Show(t, state)
    BY <1>5, <2>3 DEF SelectReturns
  <2>5. answer \in Seq(Turn) /\ page.list \in Seq(Ids)
    BY <2>2, <2>3, TurnsOfSaved DEF OpenPage
  <2>6. Shown(state, page.list, k.conv, answer)
    BY <2>2, <2>5, ShowSwitch
  <2>7. state.turns = answer /\ state.active = k.conv
    BY <2>6 DEF Shown
  <2>8. AllAsked(state.turns, DOMAIN asked)
        /\ (state.active \in DOMAIN messages => Kept(state.turns) = messages[state.active])
    BY <2>3, <2>7, KeptSaved
  <2>9. ~Saving(Waiting(t))
    BY <2>2 DEF Saving
  <2>. QED  BY <2>1, <2>4, <2>8, <2>9, EndShows
<1>6. CASE DeleteLoaded(t)
  <2>1. /\ Awaited(t, "delete", "done") /\ Finish(t) /\ UNCHANGED <<store, asked>>
        /\ k.pc = "loading"
    BY <1>6 DEF DeleteLoaded
  <2>2. OpenPage(page) /\ k.kind = "delete" /\ Oldest(t).op = "load" /\ Oldest(t).conv = k.conv
    <3>1. OpenPage(tab[t]) /\ Waiting(t).kind = "delete" /\ Fits(Oldest(t), Waiting(t))
          /\ NamesListed(Oldest(t), tab[t].list) /\ AllAsked(tab[t].turns, DOMAIN asked)
      BY <2>1, AnswerIs
    <3>. QED  BY <2>1, <3>1, FitsIs
  <2>3. /\ k.conv \in DOMAIN messages /\ answer = messages[k.conv] /\ answer # None
        /\ answer \in Seq(Saved) /\ AllAsked(answer, DOMAIN asked)
    BY <2>1, <2>2, AnswerIs
  <2>. PICK state : state = [page EXCEPT !.active = k.conv, !.switching = FALSE, !.turns = answer]
    OBVIOUS
  <2>4. Show(t, state)
    BY <1>6, <2>3 DEF DeleteLoaded
  <2>5. answer \in Seq(Turn) /\ page.list \in Seq(Ids)
    BY <2>2, <2>3, TurnsOfSaved DEF OpenPage
  <2>6. Shown(state, page.list, k.conv, answer)
    BY <2>2, <2>5, ShowSwitch
  <2>7. state.turns = answer /\ state.active = k.conv
    BY <2>6 DEF Shown
  <2>8. AllAsked(state.turns, DOMAIN asked)
        /\ (state.active \in DOMAIN messages => Kept(state.turns) = messages[state.active])
    BY <2>3, <2>7, KeptSaved
  <2>9. ~Saving(Waiting(t))
    BY <2>2 DEF Saving
  <2>. QED  BY <2>1, <2>4, <2>8, <2>9, EndShows
<1>7. CASE RenameReturns(t)
  <2>1. Awaited(t, "rename", "done") /\ Finish(t) /\ UNCHANGED <<store, asked>>
    BY <1>7 DEF RenameReturns
  <2>2. /\ OpenPage(page) /\ k.kind = "rename" /\ Oldest(t).op = "rename" /\ Oldest(t).conv = k.conv
        /\ NamesListed(Oldest(t), page.list) /\ AllAsked(page.turns, DOMAIN asked)
    <3>1. OpenPage(tab[t]) /\ Waiting(t).kind = "rename" /\ Fits(Oldest(t), Waiting(t))
          /\ NamesListed(Oldest(t), tab[t].list) /\ AllAsked(tab[t].turns, DOMAIN asked)
      BY <2>1, AnswerIs
    <3>. QED  BY <2>1, <3>1, FitsIs
  <2>. PICK list : list = Touched(page.list, k.conv)
    OBVIOUS
  <2>. PICK state : state = [page EXCEPT !.list = list]
    OBVIOUS
  <2>3. Show(t, state)
    BY <1>7 DEF RenameReturns
  <2>4. k.conv \in ToSet(page.list) /\ page.list \in Seq(Ids)
    BY <2>2 DEF NamesListed, OpenPage
  <2>5. list \in Seq(Ids)
    BY <2>4, TouchedFront
  <2>6. Shown(state, list, page.active, page.turns)
    BY <2>2, <2>5, ShowList
  <2>7. state.turns = tab[t].turns /\ state.active = tab[t].active
    BY <2>6 DEF Shown
  <2>8. ~Saving(Waiting(t)) /\ AllAsked(state.turns, DOMAIN asked)
    BY <2>2, <2>7 DEF Saving
  <2>. PICK kind : kind = "rename"
    OBVIOUS
  <2>9. kind # "ask" /\ Awaited(t, kind, "done")
    BY <2>1
  <2>. QED  BY <2>1, <2>3, <2>7, <2>8, <2>9, EndStays
<1>. QED  BY <1>3, <1>4, <1>5, <1>6, <1>7

\* or go on to do so.
LEMMA DeleteShows ==
  ASSUME ShowInv, NEW t \in Tabs, DeleteReturns(t)
  PROVE  PageShown(tab'[t], calls'[t], task'[t], messages', DOMAIN asked')
<1>. PICK queue, later, hs, after, page, tables, s, k :
        /\ queue = calls[t] /\ later = calls'[t] /\ hs = task[t] /\ after = task'[t]
        /\ page = tab[t] /\ tables = messages /\ s = Oldest(t).task /\ k = Waiting(t)
  OBVIOUS
<1>. PICK left : left = Remaining(k)
  OBVIOUS
<1>1. Awaited(t, "delete", "done") /\ k.pc = "deleting" /\ UNCHANGED <<store, asked>> /\ MirrorInv
  BY DEF DeleteReturns, ShowInv
<1>2. /\ s \in Slots /\ hs[s] = k /\ k.kind = "delete" /\ page.pc = "open" /\ OpenPage(page)
      /\ k \in Tasks
  <2>1. /\ Oldest(t).task \in Slots /\ Waiting(t) = task[t][Oldest(t).task]
        /\ Waiting(t).kind = "delete" /\ tab[t].pc = "open" /\ OpenPage(tab[t])
        /\ Waiting(t) \in Tasks
    BY <1>1, ReturnedIs
  <2>. QED  BY <2>1
<1>3. /\ AllAsked(page.turns, DOMAIN asked) /\ TurnsOK(page, queue, hs, tables) /\ TabsInv
      /\ StoreInv
  BY <1>2, ShowFacts
<1>4. k \in DeleteTask
  BY <1>2, TaskKinds
<1>5. left \in Seq(Ids)
  <2>1. k.list \in Seq(Ids)
    BY <1>3, <1>4 DEF DeleteTask, StoreInv
  <2>. QED  BY <2>1, FilteredSet DEF Remaining
\* The handler goes on.
<1>6. ASSUME NEW n, n.kind # "ask", NEW c \in Calls, c.task = s, c.stage = "sent",
             Resume(t, n, <<c>>), NEW next, Show(t, next),
             next.turns = page.turns, next.active = page.active
      PROVE  PageShown(tab'[t], calls'[t], task'[t], messages', DOMAIN asked')
  <2>0. PICK more : more = <<c>>
    OBVIOUS
  <2>1. c.task = s /\ c.stage = "sent"
    BY <1>6
  <2>2. more \in Seq(Calls) /\ AllSent(more, s)
    BY ONLY <2>0, <2>1, c \in Calls DEF AllSent
  <2>3. Resume(t, n, more) /\ AllSent(more, Oldest(t).task)
    BY <1>6, <2>0, <2>2
  <2>4. /\ QueueShown(calls'[t], calls[t], Oldest(t).task, messages)
        /\ Moves(task[t], task'[t], Oldest(t).task, n)
    BY <1>1, <2>2, <2>3, ResumeShows
  <2>5. SameAsks(hs, after, s)
    <3>1. Moves(hs, after, s, n) /\ hs[s].kind # "ask" /\ n.kind # "ask"
      BY <1>2, <1>6, <2>4
    <3>. QED  BY <1>2, <3>1, MovesAsks
  <2>6. TurnsOK(next, later, after, tables)
    BY <1>3, <1>6, <2>4, <2>5, ShowStays
  <2>7. tab'[t] = next /\ messages' = tables /\ asked' = asked
    BY <1>1, <1>3, <1>6, ShowIs DEF store
  <2>. QED  BY <1>3, <1>6, <2>6, <2>7 DEF PageShown
<1>7. CASE Show(t, [tab[t] EXCEPT !.switching = TRUE])
            /\ Resume(t, [k EXCEPT !.pc = "creating"], <<Call(Oldest(t).task, "create", None, None)>>)
  <2>. PICK state, n, c : /\ state = [page EXCEPT !.switching = TRUE]
                          /\ n = [k EXCEPT !.pc = "creating"] /\ c = Call(s, "create", None, None)
    OBVIOUS
  <2>1. Show(t, state) /\ Resume(t, n, <<c>>)
    BY <1>7
  <2>2. n.kind # "ask"
    BY <1>4 DEF DeleteTask
  <2>3. c \in Calls /\ c.task = s /\ c.stage = "sent"
    BY <1>2, CallIs
  <2>4. state.turns = page.turns /\ state.active = page.active
    BY <1>2, ShowSwitching DEF Shown
  <2>. QED  BY <1>6, <2>1, <2>2, <2>3, <2>4
<1>8. CASE left # <<>> /\ Show(t, [tab[t] EXCEPT !.list = left, !.switching = TRUE])
            /\ Resume(t, [k EXCEPT !.pc = "loading", !.conv = Head(left)],
                      <<Call(Oldest(t).task, "load", Head(left), None)>>)
  <2>. PICK d : d = Head(left)
    OBVIOUS
  <2>. PICK state, n, c : /\ state = [page EXCEPT !.list = left, !.switching = TRUE]
                          /\ n = [k EXCEPT !.pc = "loading", !.conv = d]
                          /\ c = Call(s, "load", d, None)
    OBVIOUS
  <2>1. Show(t, state) /\ Resume(t, n, <<c>>)
    BY <1>8
  <2>2. n.kind # "ask"
    BY <1>4 DEF DeleteTask
  <2>3. c \in Calls /\ c.task = s /\ c.stage = "sent"
    BY <1>2, <1>5, <1>8, CallIs
  <2>4. Shown(state, left, page.active, page.turns)
    BY <1>2, <1>5, ShowList
  <2>5. state.turns = page.turns /\ state.active = page.active
    BY <2>4 DEF Shown
  <2>. QED  BY <1>6, <2>1, <2>2, <2>3, <2>5
<1>9. CASE Show(t, [tab[t] EXCEPT !.list = left]) /\ Finish(t)
  <2>. PICK state : state = [page EXCEPT !.list = left]
    OBVIOUS
  <2>1. Show(t, state) /\ Finish(t)
    BY <1>9
  <2>2. Shown(state, left, page.active, page.turns)
    BY <1>2, <1>5, ShowList
  <2>3. state.turns = tab[t].turns /\ state.active = tab[t].active
    BY <2>2 DEF Shown
  <2>4. ~Saving(Waiting(t)) /\ AllAsked(state.turns, DOMAIN asked)
    BY <1>2, <1>3, <2>3 DEF Saving
  <2>5. "delete" # "ask"
    OBVIOUS
  <2>. QED  BY <1>1, <2>1, <2>3, <2>4, <2>5, EndShows
<1>. QED  BY <1>7, <1>8, <1>9 DEF DeleteReturns

\* Every call that returns leaves what is shown right.
LEMMA ReturnShows ==
  ASSUME ShowInv, NEW t \in Tabs, Return(t)
  PROVE  PageShown(tab'[t], calls'[t], task'[t], messages', DOMAIN asked')
<1>1. ~OthersFail(t)
  BY ReturnedIs DEF OthersFail, ShowInv
<1>. QED  BY <1>1, OrphanShows, AnswersShow, OthersShow, DeleteShows DEF Return

\* Only a call that saves a message changes what is not saved yet,
LEMMA UnsavedStays ==
  ASSUME NEW queue, NEW later, NEW stage, NEW result, Staged(later, queue, stage, result),
         NEW hs, NEW list, AllFit(queue, hs, list), None \notin Slots,
         queue[1].op = "append" => stage # "done" /\ queue[1].stage # "done",
         NEW s \in Slots, hs[s].kind = "ask"
  PROVE  Unsaved(later, hs[s], s) = Unsaved(queue, hs[s], s)
<1>1. /\ later # <<>> /\ queue # <<>> /\ 1 \in DOMAIN queue /\ later[1].task = queue[1].task
      /\ later[1].stage = stage
  BY DEF Staged
<1>2. CASE Back(later, s) <=> Back(queue, s)
  BY <1>2 DEF Unsaved
<1>3. CASE ~(Back(later, s) <=> Back(queue, s))
  <2>1. queue[1].task = s /\ queue[1].op # "append"
    BY <1>1, <1>3 DEF Back
  <2>2. Fits(queue[1], hs[s])
    BY <1>1, <2>1 DEF AllFit, CallFits
  <2>3. hs[s].pc = "token"
    BY <2>1, <2>2 DEF Fits, Saving
  <2>. QED  BY <2>3 DEF Unsaved
<1>. QED  BY <1>2, <1>3

\* and the page shows what it showed.
LEMMA StagedShows ==
  ASSUME NEW queue, NEW later, NEW stage, NEW result, Staged(later, queue, stage, result),
         NEW hs, NEW page, NEW list, AllFit(queue, hs, list), None \notin Slots,
         queue[1].op = "append" => stage # "done" /\ queue[1].stage # "done",
         NEW tables, TurnsOK(page, queue, hs, tables),
         NEW others, page.active \in DOMAIN others =>
                        page.active \in DOMAIN tables /\ others[page.active] = tables[page.active],
         AnswerOK(later[1], others)
  PROVE  TurnsOK(page, later, hs, others)
<1>1. ASSUME page.active \in DOMAIN others, \A s \in Slots : hs[s].kind # "ask"
      PROVE  Kept(page.turns) = others[page.active]
  BY <1>1 DEF TurnsOK
<1>2. ASSUME page.active \in DOMAIN others, NEW s \in Slots, hs[s].kind = "ask"
      PROVE  AskShown(later, hs[s], s, page.turns, others[page.active])
  <2>1. AskShown(queue, hs[s], s, page.turns, tables[page.active])
    BY <1>2 DEF TurnsOK
  <2>2. Unsaved(later, hs[s], s) = Unsaved(queue, hs[s], s)
    BY <1>2, UnsavedStays
  <2>. QED  BY <1>2, <2>1, <2>2 DEF AskShown
<1>. QED  BY <1>1, <1>2 DEF TurnsOK

\* The call is one that saves for handler s.
Staging(c, k, s) ==
    c.task = s /\ c.stage # "done" /\ c.msg \in Saved /\ c.msg.question = k.question

\* Of a turn that is being saved the oldest of its calls is next.
LEMMA NextShown ==
  ASSUME NEW queue \in Seq(Calls), 1 \in DOMAIN queue, NEW k, NEW s, SavesOK(queue, k, s),
         Saving(k), k.question \in Questions, Staging(queue[1], k, s),
         NEW later, Back(later, s), NEW rows \in Seq(Saved),
         NEW turns, AskShown(queue, k, s, turns, rows)
  PROVE  AskShown(later, k, s, turns, Append(rows, queue[1].msg))
<1>. PICK more, ahead, left : /\ more = Append(rows, queue[1].msg) /\ ahead = Unsaved(queue, k, s)
                              /\ left = Unsaved(later, k, s)
  OBVIOUS
<1>1. rows \o ahead = more \o left
  <2>. PICK u, a, m : /\ u = Message(k.question, "user") /\ a = Message(k.question, "assistant")
                      /\ m = queue[1].msg
    OBVIOUS
  <2>1. u \in Saved /\ a \in Saved /\ queue # <<>>
    BY DEF Message, Saved
  <2>0. /\ queue[1].task = s /\ queue[1].stage # "done" /\ m \in Saved
        /\ m.question = k.question
    BY DEF Staging
  <2>2. \A role : m.role = role => m = Message(k.question, role)
    BY <2>0 DEF Saved, Message
  <2>3. CASE k.pc = "saving"
    <3>1. PICK i \in DOMAIN queue :
            /\ TurnAt(queue, s, i, "user") /\ TurnAt(queue, s, i + 1, "assistant")
            /\ \A j \in DOMAIN queue : queue[j].task = s => j \in {i, i + 1}
      BY <2>3 DEF SavesOK, TurnAt
    <3>2. i = 1
      <4>1. 1 \in {i, i + 1} /\ i \in Nat \ {0}
        BY <2>0, <3>1
      <4>. QED  BY <4>1
    <3>3. m = u
      BY <2>2, <3>1, <3>2 DEF TurnAt
    <3>4. Unsaved(queue, k, s) = <<u, a>> /\ Unsaved(later, k, s) = <<a>>
      BY <2>0, <2>3 DEF Unsaved, Back
    <3>5. rows \o <<u, a>> = Append(rows, u) \o <<a>>
      <4>. PICK one, two : one = <<u>> /\ two = <<a>>
        OBVIOUS
      <4>1. one \in Seq(Saved) /\ two \in Seq(Saved)
        BY <2>1
      <4>2. (rows \o one) \o two = rows \o (one \o two)
        BY ONLY <4>1, rows \in Seq(Saved), ConcatAssociative, SMTT(60)
      <4>3. one \o two = <<u, a>>
        BY PairIs
      <4>4. Append(rows, u) = rows \o <<u>>
        BY ONLY <2>1, rows \in Seq(Saved), AppendIsConcat
      <4>. QED  BY <4>2, <4>3, <4>4
    <3>. QED  BY <3>3, <3>4, <3>5
  <2>4. CASE k.pc = "saved one"
    <3>1. TurnAt(queue, s, 1, "assistant")
      BY <2>4 DEF SavesOK
    <3>2. m = a
      BY <2>2, <3>1 DEF TurnAt
    <3>3. Unsaved(queue, k, s) = <<a>> /\ Unsaved(later, k, s) = <<>>
      BY <2>0, <2>4 DEF Unsaved, Back
    <3>4. Append(rows, a) = rows \o <<a>>
      BY ONLY <2>1, rows \in Seq(Saved), AppendIsConcat
    <3>5. more = Append(rows, a)
      BY <3>2
    <3>6. more \in Seq(Saved)
      BY <2>1, <3>5
    <3>7. more \o <<>> = more
      BY ONLY <3>6, ConcatEmptySeq
    <3>. QED  BY <3>2, <3>3, <3>4, <3>5, <3>7
  <2>. QED  BY <2>3, <2>4 DEF Saving
<1>2. k.pc \notin {"token", "chat"}
  BY DEF Saving
<1>3. /\ Kept(turns) = rows \o ahead
      /\ Message(k.question, "error") \notin ToSet(turns)
  BY DEF AskShown
<1>4. AskShown(later, k, s, turns, more)
  <2>1. Kept(turns) = more \o Unsaved(later, k, s)
    BY <1>1, <1>3
  <2>. QED  BY <1>2, <1>3, <2>1 DEF AskShown
<1>. QED  BY <1>4

\* A message that is shown is saved.
LEMMA AppendShows ==
  ASSUME ShowInv, NEW t \in Tabs, ServeAppend(t), UNCHANGED clientVars
  PROVE  TurnsOK(tab[t], calls'[t], task[t], messages')
<1>. PICK queue, later, hs, page, tables, others :
        /\ queue = calls[t] /\ later = calls'[t] /\ hs = task[t] /\ page = tab[t]
        /\ tables = messages /\ others = messages'
  OBVIOUS
<1>. PICK s : s = queue[1].task
  OBVIOUS
<1>. PICK k, c, m : k = hs[s] /\ c = queue[1].conv /\ m = queue[1].msg
  OBVIOUS
<1>1. calls[t] # <<>> /\ page.pc = "open" /\ CallsInv /\ StoreInv /\ SavedInv /\ AskedInv
  <2>1. calls[t] # <<>>
    BY DEF ServeAppend, At
  <2>. QED  BY <2>1, MirrorFacts DEF ShowInv, MirrorInv, DashboardInv
<1>2. /\ AllFit(queue, hs, page.list) /\ AllSave(queue, hs) /\ None \notin Slots
      /\ queue \in Seq(Calls)
  BY <1>1, ShowFacts
<1>3. /\ queue[1] = Oldest(t) /\ CallOK(queue[1]) /\ 1 \in DOMAIN queue
      /\ queue[1] \in Calls /\ queue # <<>>
  BY <1>1, OldestIs
<1>4. /\ queue[1].op = "append" /\ queue[1].stage = "checked" /\ Stage(t, "done", None)
      /\ Exists(c) /\ Add(c, m)
  BY <1>3 DEF ServeAppend, At
<1>5. Staged(later, queue, "done", None)
  BY <1>1, <1>4, StageStages DEF Results, Served
<1>6. later # <<>> /\ later[1].task = s /\ later[1].stage = "done" /\ later[1].op = "append"
  BY <1>3, <1>4, <1>5 DEF Staged
<1>7. s \in Slots /\ Saving(k) /\ c = k.conv /\ m.question = k.question
  <2>1. CallFits(queue, hs, page.list, 1)
    BY <1>2, <1>3 DEF AllFit
  <2>2. s # None /\ Fits(queue[1], k)
    BY <1>4, <2>1 DEF CallFits
  <2>3. s \in Slots
    BY <1>3, <2>2 DEF Calls
  <2>. QED  BY <1>4, <2>2, <2>3 DEF Fits
<1>8. /\ k.kind = "ask" /\ k.question \in Questions /\ page.active = c
      /\ \A r \in Slots \ {s} : hs[r].kind # "ask"
      /\ page.active \in DOMAIN tables => AskShown(queue, k, s, page.turns, tables[page.active])
  <2>1. task[t][s].kind = "ask" /\ s \in Slots
    BY <1>7 DEF Saving
  <2>2. /\ task[t][s].question \in Questions /\ tab[t].active = task[t][s].conv
        /\ \A r \in Slots \ {s} : task[t][r].kind # "ask"
        /\ tab[t].active \in DOMAIN messages =>
              AskShown(calls[t], task[t][s], s, tab[t].turns, messages[tab[t].active])
    BY <2>1, AskIs
  <2>. QED  BY <1>7, <2>1, <2>2
<1>9. m \in Saved /\ m.question \in DOMAIN asked /\ asked[m.question] = c
  BY <1>3, <1>4 DEF CallOK
<1>10. c \in DOMAIN tables /\ others[c] = Append(tables[c], m) /\ tables[c] \in Seq(Saved)
  <2>1. messages'[c] = Append(messages[c], m)
    BY <1>1, <1>4, <1>9, AddKeeps DEF clientVars
  <2>. QED  BY <1>1, <1>4, <2>1 DEF Exists, StoreInv
<1>11. AskShown(later, k, s, page.turns, others[page.active])
  <2>1. PICK rows, more : rows = tables[c] /\ more = Append(rows, m)
    OBVIOUS
  <2>2. rows \in Seq(Saved) /\ others[page.active] = more
    BY <1>8, <1>10, <2>1
  <2>3. AskShown(queue, k, s, page.turns, rows)
    BY <1>8, <1>10, <2>1
  <2>4. SavesOK(queue, k, s) /\ Staging(queue[1], k, s)
    BY <1>2, <1>4, <1>7, <1>9 DEF AllSave, Staging
  <2>5. Back(later, s)
    BY <1>6 DEF Back
  <2>6. AskShown(later, k, s, page.turns, Append(rows, queue[1].msg))
    BY <1>2, <1>3, <1>7, <1>8, <2>2, <2>3, <2>4, <2>5, NextShown
  <2>. QED  BY <2>1, <2>2, <2>6
<1>12. AnswerOK(later[1], others)
  BY <1>6 DEF AnswerOK
<1>. QED  BY <1>7, <1>8, <1>11, <1>12 DEF TurnsOK

\* The server serves a call that saves no message.
LEMMA OthersServed ==
  ASSUME ShowInv, NEW t \in Tabs, tab[t].pc = "open", calls[t] # <<>>,
         NEW stage \in Served, NEW result \in Results, Stage(t, stage, result),
         Oldest(t).op = "append" => stage # "done" /\ Oldest(t).stage # "done",
         tab[t].active \in DOMAIN messages' =>
            tab[t].active \in DOMAIN messages /\ messages'[tab[t].active] = messages[tab[t].active],
         Oldest(t).op = "create" /\ stage \in {"written", "done"} =>
            result \in DOMAIN messages' /\ messages'[result] = <<>>,
         Oldest(t).op = "load" /\ stage = "done" =>
            Oldest(t).conv \in DOMAIN messages' /\ result = messages'[Oldest(t).conv]
  PROVE  TurnsOK(tab[t], calls'[t], task[t], messages')
<1>. PICK queue, later, hs, page, tables, others :
        /\ queue = calls[t] /\ later = calls'[t] /\ hs = task[t] /\ page = tab[t]
        /\ tables = messages /\ others = messages'
  OBVIOUS
<1>1. /\ AllFit(queue, hs, page.list) /\ None \notin Slots /\ CallsInv
      /\ TurnsOK(page, queue, hs, tables)
  BY ShowFacts
<1>2. queue[1] = Oldest(t)
  BY <1>1, OldestIs
<1>3. Staged(later, queue, stage, result)
  BY <1>1, StageStages
<1>4. /\ later[1].op = Oldest(t).op /\ later[1].conv = Oldest(t).conv /\ later[1].stage = stage
      /\ later[1].result = result
  BY <1>2, <1>3 DEF Staged
<1>5. AnswerOK(later[1], others)
  BY <1>4 DEF AnswerOK
<1>. QED  BY <1>1, <1>2, <1>3, <1>5, StagedShows

\* What a handler loads exists.
LEMMA LoadExists ==
  ASSUME NEW queue, NEW hs, NEW page, NEW rows \in Seq(Ids), OpenOK(page, queue, hs, rows),
         1 \in DOMAIN queue, queue[1].op = "load"
  PROVE  queue[1].conv \in ToSet(rows)
<1>1. queue[1].conv \in ToSet(page.list)
  BY DEF OpenOK, AllFit, CallFits, NamesListed
<1>2. page.list = rows
  <2>1. queue # <<>> /\ DueList(queue[1], hs[queue[1].task], page.list) = page.list
    BY DEF DueList
  <2>. QED  BY <2>1 DEF OpenOK, Due
<1>. QED  BY <1>1, <1>2

\* No step of the server but the one that saves a message changes what is shown
\* and not saved.
LEMMA ServeShows ==
  ASSUME ShowInv, NEW t \in Tabs, Serve(t), UNCHANGED clientVars, "server" \notin Faults
  PROVE  PageShown(tab'[t], calls'[t], task'[t], messages', DOMAIN asked')
<1>. PICK page, tables, others, c : /\ page = tab[t] /\ tables = messages /\ others = messages'
                                    /\ c = Oldest(t)
  OBVIOUS
<1>. PICK active : active = page.active
  OBVIOUS
<1>0. MirrorInv
  BY DEF ShowInv
<1>1. calls[t] # <<>>
  BY DEF Serve, ServeRead, ServeCheck, ServeRename, ServeAppend, ServeDelete, ServeGone,
         ServeRevalidate, ServeThrows, ServeCreate, ServeRerender, At
<1>2. page.pc = "open" /\ OpenOK(page, calls[t], task[t], Visible) /\ Visible \in Seq(Ids)
      /\ ToSet(Visible) \subseteq DOMAIN tables
  BY <1>0, <1>1, MirrorFacts
<1>3. CallsInv /\ StoreInv /\ SavedInv /\ AllAsked(page.turns, DOMAIN asked)
      /\ TurnsOK(page, calls[t], task[t], tables)
      /\ AllFit(calls[t], task[t], page.list)
  BY <1>2, ShowFacts
<1>4. calls[t][1] = c /\ 1 \in DOMAIN calls[t] /\ c \in Calls
  BY <1>1, <1>3, OldestIs
<1>5. AnswerOK(c, tables) /\ Reaches(c.stage, c.op, c.result)
  BY <1>1, <1>3, <1>4 DEF TurnsOK, AllFit, CallFits
<1>6. ASSUME c.op \in {"rename", "delete", "append"}, c.stage \in {"sent", "checked"}
      PROVE  c.conv \in DOMAIN tables
  BY <1>2, <1>4, <1>6, HeadExists
<1>7. SUFFICES TurnsOK(tab[t], calls'[t], task[t], messages')
  BY <1>3 DEF PageShown, clientVars
\* A call that saves no message is served.
<1>8. ASSUME NEW stage \in Served, NEW result \in Results, Stage(t, stage, result),
             c.op = "append" => stage # "done" /\ c.stage # "done",
             active \in DOMAIN others => active \in DOMAIN tables /\ others[active] = tables[active],
             c.op = "create" /\ stage \in {"written", "done"} =>
                result \in DOMAIN others /\ others[result] = <<>>,
             c.op = "load" /\ stage = "done" =>
                c.conv \in DOMAIN others /\ result = others[c.conv]
      PROVE  TurnsOK(tab[t], calls'[t], task[t], messages')
  BY <1>1, <1>2, <1>8, OthersServed
<1>9. CASE ServeRead(t)
  <2>1. PICK result : result = IF Exists(c.conv) THEN messages[c.conv] ELSE None
    OBVIOUS
  <2>2. Stage(t, "done", result) /\ c.op \in {"token", "load"} /\ others = tables
    BY <1>9, <2>1 DEF ServeRead, store
  <2>3. result \in Results /\ "done" \in Served
    BY <1>3, <2>1 DEF StoreInv, Exists, Results, Served
  <2>4. c.op = "load" => c.conv \in DOMAIN others /\ result = others[c.conv]
    BY <1>2, <1>4, <2>1, <2>2, LoadExists DEF Exists
  <2>. QED  BY <1>8, <2>2, <2>3, <2>4
<1>10. CASE ServeCheck(t)
  <2>1. /\ c.op \in {"rename", "delete", "append"} /\ c.stage = "sent" /\ others = tables
        /\ Stage(t, IF Exists(c.conv) THEN "checked" ELSE "failed", None)
    BY <1>10 DEF ServeCheck, At, store
  <2>2. Stage(t, "checked", None)
    BY <1>6, <2>1 DEF Exists
  <2>3. None \in Results /\ "checked" \in Served
    BY DEF Results, Served
  <2>. QED  BY <1>8, <2>1, <2>2, <2>3
<1>11. CASE ServeRename(t)
  <2>1. c.op = "rename" /\ others = tables /\ Stage(t, "written", None)
    BY <1>11 DEF ServeRename, At, Retitle
  <2>2. None \in Results /\ "written" \in Served
    BY DEF Results, Served
  <2>. QED  BY <1>8, <2>1, <2>2
<1>12. CASE ServeAppend(t)
  BY <1>12, AppendShows
<1>13. CASE ServeDelete(t)
  <2>1. c.op = "delete" /\ Drop(c.conv) /\ Stage(t, "written", None)
    BY <1>13 DEF ServeDelete, At
  <2>2. DOMAIN others \subseteq DOMAIN tables /\ \A d \in DOMAIN others : others[d] = tables[d]
    BY <1>3, <2>1, DropKeeps DEF clientVars
  <2>3. None \in Results /\ "written" \in Served
    BY DEF Results, Served
  <2>. QED  BY <1>8, <2>1, <2>2, <2>3
<1>14. CASE ServeGone(t)
  <2>1. ~Exists(c.conv) /\ c.stage = "checked"
    BY <1>14 DEF ServeGone, At
  <2>2. c.op \in {"rename", "delete", "append"}
    BY <1>5, <2>1 DEF Reaches
  <2>. QED  BY <1>6, <2>1, <2>2 DEF Exists
\* The rows are written, and the page is revalidated:
<1>15. ASSUME c.stage = "written", Stage(t, "done", c.result),
              \A d \in DOMAIN tables : d \in DOMAIN others /\ others[d] = tables[d],
              active \in DOMAIN others => active \in DOMAIN tables
       PROVE  TurnsOK(tab[t], calls'[t], task[t], messages')
  <2>1. c.op \in {"create", "rename", "delete"}
    BY <1>5, <1>15 DEF Reaches
  <2>2. c.op = "create" => c.result \in DOMAIN others /\ others[c.result] = <<>>
    BY <1>5, <1>15 DEF AnswerOK
  <2>3. c.result \in Results /\ "done" \in Served
    BY <1>4 DEF Calls, Served
  <2>4. active \in DOMAIN others => active \in DOMAIN tables /\ others[active] = tables[active]
    BY <1>15
  <2>. QED  BY <1>8, <1>15, <2>1, <2>2, <2>3, <2>4
<1>16. CASE ServeRevalidate(t)
  <2>1. c.stage = "written" /\ Stage(t, "done", c.result) /\ others = tables
    BY <1>16 DEF ServeRevalidate, At, store
  <2>. QED  BY <1>15, <2>1
<1>17. CASE ServeThrows(t)
  BY <1>17 DEF ServeThrows
\* Nothing shown is in a conversation that there was not.
<1>18. ASSUME NEW d \in Ids, Create(d)
       PROVE  /\ DOMAIN others = DOMAIN tables \cup {d}
              /\ \A e \in DOMAIN tables : e # d /\ others[e] = tables[e]
              /\ others[d] = <<>> /\ active # d
  <2>1. /\ DOMAIN messages' = DOMAIN messages \cup {d}
        /\ \A e \in DOMAIN messages : e # d /\ messages'[e] = messages[e]
    BY <1>3, <1>18, CreateKeeps DEF clientVars
  <2>2. others[d] = <<>> /\ d \notin used
    BY <1>18, <2>1 DEF Create
  <2>3. active \in used
    BY <1>2, <1>3, ShowFacts DEF TabsInv, TabOK
  <2>. QED  BY <2>1, <2>2, <2>3
<1>19. ASSUME NEW d \in Ids, ServeCreate(t, d)
       PROVE  TurnsOK(tab[t], calls'[t], task[t], messages')
  <2>1. c.op = "create" /\ Create(d) /\ Stage(t, "written", d)
    BY <1>19 DEF ServeCreate, At
  <2>2. d \in Results /\ "written" \in Served
    BY DEF Results, Served
  <2>3. /\ DOMAIN others = DOMAIN tables \cup {d} /\ others[d] = <<>>
        /\ active \in DOMAIN others => active \in DOMAIN tables /\ others[active] = tables[active]
    BY <1>18, <2>1
  <2>. QED  BY <1>8, <2>1, <2>2, <2>3
<1>20. ASSUME NEW d \in Ids, ServeRerender(t, d)
       PROVE  TurnsOK(tab[t], calls'[t], task[t], messages')
  <2>1. c.stage = "written" /\ Stage(t, "done", c.result) /\ Create(d)
    BY <1>20 DEF ServeRerender, At
  <2>2. /\ \A e \in DOMAIN tables : e \in DOMAIN others /\ others[e] = tables[e]
        /\ active \in DOMAIN others => active \in DOMAIN tables
    BY <1>18, <2>1
  <2>. QED  BY <1>15, <2>1, <2>2
<1>. QED  BY <1>9, <1>10, <1>11, <1>12, <1>13, <1>14, <1>16, <1>17, <1>19, <1>20 DEF Serve

\* Every step keeps the invariant,
LEMMA ShowKept ==
  ASSUME ShowInv, [Next]_vars, NEW t \in Tabs, Tabs = {t}, Patient, "server" \notin Faults
  PROVE  ShowInv'
<1>1. MirrorInv'
  BY MirrorKept DEF ShowInv
<1>2. PageShown(tab'[t], calls'[t], task'[t], messages', DOMAIN asked')
  <2>1. CASE UNCHANGED vars
    <3>1. tab' = tab /\ calls' = calls /\ task' = task /\ messages' = messages /\ asked' = asked
      BY <2>1 DEF vars, serverVars, clientVars, store
    <3>. QED  BY <3>1 DEF ShowInv
  <2>2. CASE Next
    <3>1. Visit(t) \/ Act(t) \/ Respond(t) \/ \E s \in Slots : Chat(t, s)
      BY <2>2 DEF Next
    <3>2. ASSUME Respond(t)
          PROVE  Return(t) \/ (Serve(t) /\ UNCHANGED clientVars)
      BY <3>2 DEF Respond
    <3>. QED  BY <3>1, <3>2, VisitShows, ActShows, ServeShows, ReturnShows, ChatShows
  <2>. QED  BY <2>1, <2>2
<1>3. ShowInv' = (MirrorInv' /\ \A u \in Tabs :
                    PageShown(tab'[u], calls'[u], task'[u], messages', DOMAIN asked'))
  BY DEF ShowInv
<1>. QED  BY <1>1, <1>2, <1>3

\* which holds at first,
LEMMA ShowStarts ==
  ASSUME Init
  PROVE  ShowInv
BY MirrorStarts DEF ShowInv, Init, PageShown

\* and at rest nothing is unsaved.
LEMMA QuietShows ==
  ASSUME ShowInv
  PROVE  ShownIsSaved
<1>. SUFFICES ASSUME NEW t \in Tabs, Quiet(t)
              PROVE  Kept(tab[t].turns) = messages[tab[t].active]
  BY DEF ShownIsSaved
<1>1. tab[t].pc = "open" /\ \A s \in Slots : task[t][s] = NoTask
  BY DEF Quiet
<1>2. tab[t].list = Visible /\ tab[t].active \in ToSet(tab[t].list)
  BY QuietMirrors DEF ShowInv, ListMirrorsServer, Visible
<1>3. ToSet(Visible) = ToSet(recent) \ rendered /\ ToSet(recent) = DOMAIN messages
  BY MirrorFacts DEF ShowInv
<1>4. tab[t].active \in DOMAIN messages
  BY <1>2, <1>3
<1>5. TurnsOK(tab[t], calls[t], task[t], messages)
  BY <1>1, ShowFacts
<1>6. \A s \in Slots : task[t][s].kind # "ask"
  BY <1>1 DEF NoTask
<1>. QED  BY <1>4, <1>5, <1>6 DEF TurnsOK

\* The invariant of what is shown.
LEMMA ShowInvariant ==
  ASSUME \E t : Tabs = {t}, Patient, "server" \notin Faults
  PROVE  Spec => []ShowInv
<1>1. ShowInv /\ [Next]_vars => ShowInv'
  BY ShowKept
<1>. QED  BY <1>1, ShowStarts, PTL DEF Spec

\* Under the same conditions a tab at rest shows the messages that are saved in
\* its active conversation, and besides them only questions whose answer never
\* came and what was said of them: what a handler shows ahead of the server is
\* saved in that order, and what it loads nothing overtakes.
THEOREM ShowsSaved ==
  ASSUME \E t : Tabs = {t}, Patient, "server" \notin Faults
  PROVE  Spec => []ShownIsSaved
BY ShowInvariant, QuietShows, PTL
=============================================================================
