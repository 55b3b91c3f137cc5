------------------------- MODULE DashboardTheorems -------------------------
(***************************************************************************)
(* Theorems about Dashboard and the actions of Conversations, for every    *)
(* number of tabs, handlers, conversations and questions, any faults and   *)
(* any owner: a message is saved where its question was asked, and, unless *)
(* the database fails, an answer follows its question.                     *)
(***************************************************************************)
EXTENDS Dashboard, ListFiltersTheorems

-----------------------------------------------------------------------------
(***************************************************************************)
(* The inductive invariant.                                                *)
(***************************************************************************)

Saved == [question : Questions, role : {"user", "assistant"}]

\* The conversations there are or were: no id is generated twice.
Listed == Seq(used) \ {<<>>}

StoreInv ==
    /\ used \subseteq Ids
    /\ DOMAIN messages \subseteq used
    /\ messages \in [DOMAIN messages -> Seq(Saved)]
    /\ recent \in Seq(used)

AskedInv ==
    /\ DOMAIN asked \subseteq Questions
    /\ asked \in [DOMAIN asked -> used]

\* What a handler and a page know of conversations was generated.
AskTask == [kind : {"ask"}, pc : {"token", "chat", "saving", "saved one"},
            question : DOMAIN asked, conv : used]

DeleteTask == [kind : {"delete"}, pc : {"deleting", "creating", "loading"},
               conv : used, list : Seq(used), active : used]

Tasks == {NoTask} \cup [kind : {"new"}] \cup [kind : {"select", "rename"}, conv : used]
            \cup AskTask \cup DeleteTask

TasksInv ==
    /\ task \in [Tabs -> [Slots -> Tasks]]
    /\ \A t \in Tabs : \A s \in Slots :
          task[t][s].kind = "ask" => task[t][s].conv = asked[task[t][s].question]

\* A page that renders or is open has a list, and what it names was generated.
TabOK(state) ==
    /\ "pc" \in DOMAIN state
    /\ "list" \in DOMAIN state => state.list \in Listed
    /\ "active" \in DOMAIN state => state.active \in used
    /\ state.pc = "rendering" => "list" \in DOMAIN state
    /\ state.pc = "open" => {"list", "active"} \subseteq DOMAIN state

TabsInv == DOMAIN tab = Tabs /\ \A t \in Tabs : TabOK(tab[t])

Results == Ids \cup {None} \cup Seq(Saved)

Calls == [task : Slots \cup {None},
          op : {"token", "load", "create", "rename", "delete", "append"},
          conv : Ids \cup {None}, msg : Saved \cup {None},
          stage : {"sent", "checked", "written", "done", "failed"}, result : Results]

\* An answer has its conversation; a message is sent where its question was asked.
CallOK(c) ==
    /\ c.op = "create" /\ c.stage \in {"written", "done"} => c.result \in used
    /\ c.op = "append" => /\ c.msg \in Saved
                          /\ c.msg.question \in DOMAIN asked
                          /\ c.conv = asked[c.msg.question]

CallsInv ==
    /\ calls \in [Tabs -> Seq(Calls)]
    /\ \A t \in Tabs : \A i \in DOMAIN calls[t] : CallOK(calls[t][i])

\* handleAsk saves both messages at once.
Saving(k) == k.kind = "ask" /\ k.pc \in {"saving", "saved one"}

\* A handler that awaits a call is in flight and awaits it alone, unless it saves.
LinkOK(t, i) ==
    LET s == calls[t][i].task
        k == task[t][s] IN
    s # None =>
        /\ k # NoTask
        /\ k.kind = "new" \/ (k.kind = "delete" /\ k.pc = "creating")
              => calls[t][i].op = "create"
        /\ ~(k.kind = "ask" /\ k.pc = "chat")
        /\ Saving(k) \/ \A j \in DOMAIN calls[t] : calls[t][j].task = s => j = i

LinksInv == \A t \in Tabs : \A i \in DOMAIN calls[t] : LinkOK(t, i)

\* What is saved was asked, and asked there.
SavedInv ==
    \A c \in DOMAIN messages : \A i \in DOMAIN messages[c] :
        /\ messages[c][i].question \in DOMAIN asked
        /\ asked[messages[c][i].question] = c

DashboardInv == /\ StoreInv /\ AskedInv /\ TasksInv /\ TabsInv /\ CallsInv /\ LinksInv
                /\ SavedInv

\* A call that may still save its message.
MaySave(c) == c.op = "append" /\ c.stage \in {"sent", "checked"}

\* The question is saved in the conversation, unless that is gone for good.
Settled(q, c) ==
    c \in DOMAIN messages => \E j \in DOMAIN messages[c] : messages[c][j] = Message(q, "user")

\* An answer that may still be saved has its question ahead of it or saved.
OrderOK(t, i) ==
    LET c == calls[t][i] IN
    MaySave(c) /\ c.msg.role = "assistant" =>
        \/ Settled(c.msg.question, c.conv)
        \/ \E j \in 1..(i - 1) : /\ MaySave(calls[t][j])
                                 /\ calls[t][j].msg = Message(c.msg.question, "user")
                                 /\ calls[t][j].conv = c.conv

OrderInv == \A t \in Tabs : \A i \in DOMAIN calls[t] : OrderOK(t, i)

-----------------------------------------------------------------------------
(***************************************************************************)
(* The tables.                                                             *)
(***************************************************************************)

\* Filtering a list of conversations leaves conversations of the list.
LEMMA WithoutOfUsed ==
  ASSUME NEW S, NEW list \in Seq(S), NEW gone
  PROVE  Without(list, gone) \in Seq(S)
<1>1. Without(list, gone) \in Seq(S \ gone)
  BY WithoutType
<1>. QED  BY <1>1

LEMMA ToFrontIs ==
  ASSUME NEW S, NEW list \in Seq(S), NEW c \in S
  PROVE  ToFront(list, c) \in Seq(S) /\ ToFront(list, c) # <<>>
<1>1. Without(list, {c}) \in Seq(S)
  BY WithoutOfUsed
<1>2. <<c>> \in Seq(S)
  OBVIOUS
<1>. QED  BY <1>1, <1>2 DEF ToFront

\* Ids are only added.
LEMMA LongerLists ==
  ASSUME used \subseteq used'
  PROVE  Seq(used) \subseteq Seq(used') /\ Listed \subseteq Listed'
BY DEF Listed

LEMMA CreateKeeps ==
  ASSUME StoreInv, SavedInv, NEW c \in Ids, Create(c), UNCHANGED asked
  PROVE  StoreInv' /\ SavedInv' /\ used \subseteq used' /\ c \in used'
         /\ DOMAIN messages' = DOMAIN messages \cup {c}
         /\ \A d \in DOMAIN messages : d # c /\ messages'[d] = messages[d]
<1>1. /\ c \notin used /\ used' = used \cup {c}
      /\ messages' = [d \in DOMAIN messages \cup {c} |-> IF d = c THEN <<>> ELSE messages[d]]
      /\ recent' = <<c>> \o recent
  BY DEF Create
<1>2. recent' \in Seq(used')
  <2>1. recent \in Seq(used')
    BY <1>1 DEF StoreInv
  <2>2. <<c>> \in Seq(used')
    BY <1>1
  <2>. QED  BY <1>1, <2>1, <2>2
<1>3. StoreInv'
  BY <1>1, <1>2 DEF StoreInv
<1>4. SavedInv'
  BY <1>1 DEF SavedInv
<1>. QED  BY <1>1, <1>3, <1>4 DEF StoreInv

LEMMA DropKeeps ==
  ASSUME StoreInv, SavedInv, NEW c, Drop(c), UNCHANGED asked
  PROVE  StoreInv' /\ SavedInv' /\ used \subseteq used'
         /\ DOMAIN messages' \subseteq DOMAIN messages
         /\ \A d \in DOMAIN messages' : messages'[d] = messages[d]
<1>1. /\ used' = used /\ recent' = Without(recent, {c})
      /\ messages' = [d \in DOMAIN messages \ {c} |-> messages[d]]
  BY DEF Drop, Restrict
<1>2. recent' \in Seq(used')
  BY <1>1, WithoutOfUsed DEF StoreInv
<1>3. StoreInv'
  BY <1>1, <1>2 DEF StoreInv
<1>4. SavedInv'
  BY <1>1 DEF SavedInv
<1>. QED  BY <1>1, <1>3, <1>4

LEMMA RetitleKeeps ==
  ASSUME StoreInv, SavedInv, NEW c, Exists(c), Retitle(c), UNCHANGED asked
  PROVE  StoreInv' /\ SavedInv'
<1>1. c \in used
  BY DEF Exists, StoreInv
<1>2. recent' \in Seq(used)
  BY <1>1, ToFrontIs DEF Retitle, StoreInv
<1>. QED  BY <1>2 DEF Retitle, StoreInv, SavedInv

\* A message is added last.
LEMMA AddKeeps ==
  ASSUME StoreInv, SavedInv, NEW c, Exists(c), NEW m \in Saved, Add(c, m), UNCHANGED asked,
         m.question \in DOMAIN asked, asked[m.question] = c
  PROVE  /\ StoreInv' /\ SavedInv'
         /\ DOMAIN messages' = DOMAIN messages
         /\ \A d \in DOMAIN messages \ {c} : messages'[d] = messages[d]
         /\ messages'[c] = Append(messages[c], m)
<1>1. /\ c \in used /\ c \in DOMAIN messages
      /\ messages' = [messages EXCEPT ![c] = Append(messages[c], m)]
      /\ recent' = ToFront(recent, c) /\ used' = used
  BY DEF Exists, StoreInv, Add
<1>2. recent' \in Seq(used)
  BY <1>1, ToFrontIs DEF StoreInv
<1>3. /\ DOMAIN messages' = DOMAIN messages
      /\ \A d \in DOMAIN messages \ {c} : messages'[d] = messages[d]
      /\ messages'[c] = Append(messages[c], m)
  BY <1>1
<1>4. messages[c] \in Seq(Saved) /\ messages'[c] \in Seq(Saved)
  BY <1>1, <1>3 DEF StoreInv
<1>5. messages' \in [DOMAIN messages -> Seq(Saved)]
  BY <1>1, <1>4 DEF StoreInv
<1>6. StoreInv'
  BY <1>1, <1>2, <1>3, <1>5 DEF StoreInv
<1>7. SavedInv'
  <2>. SUFFICES ASSUME NEW d \in DOMAIN messages', NEW i \in DOMAIN messages'[d]
                PROVE  /\ messages'[d][i].question \in DOMAIN asked
                       /\ asked[messages'[d][i].question] = d
    BY DEF SavedInv
  <2>1. CASE d # c
    BY <1>3, <2>1 DEF SavedInv
  <2>2. CASE d = c
    <3>1. i \in 1..(Len(messages[c]) + 1)
      BY <1>3, <1>4, <2>2
    <3>2. CASE i \in 1..Len(messages[c])
      <4>1. messages'[c][i] = messages[c][i] /\ i \in DOMAIN messages[c]
        BY <1>3, <1>4, <3>2
      <4>. QED  BY <1>1, <2>2, <4>1 DEF SavedInv
    <3>3. CASE i = Len(messages[c]) + 1
      <4>1. messages'[c][i] = m
        BY <1>3, <1>4, <3>3
      <4>. QED  BY <2>2, <4>1
    <3>. QED  BY <1>4, <3>1, <3>2, <3>3
  <2>. QED  BY <2>1, <2>2
<1>. QED  BY <1>3, <1>6, <1>7

-----------------------------------------------------------------------------
(***************************************************************************)
(* The queue of a tab.                                                     *)
(***************************************************************************)

\* The stages of a call that the server has begun to serve.
Served == {"checked", "written", "done", "failed"}

LEMMA OldestIs ==
  ASSUME CallsInv, NEW t \in Tabs, calls[t] # <<>>
  PROVE  /\ calls[t] \in Seq(Calls) /\ Len(calls[t]) \in Nat \ {0}
         /\ DOMAIN calls[t] = 1..Len(calls[t])
         /\ 1 \in DOMAIN calls[t]
         /\ Oldest(t) = calls[t][1] /\ Oldest(t) \in Calls
         /\ CallOK(Oldest(t))
BY DEF CallsInv, Oldest

\* Serving the oldest call gives it a stage and a result; nothing else of it
\* changes, nor anything of the others.
LEMMA StageIs ==
  ASSUME CallsInv, NEW t \in Tabs, calls[t] # <<>>,
         NEW stage \in Served, NEW result \in Results, Stage(t, stage, result)
  PROVE  /\ calls' \in [Tabs -> Seq(Calls)]
         /\ calls'[t][1].stage = stage /\ calls'[t][1].result = result
         /\ \A u \in Tabs : /\ DOMAIN calls'[u] = DOMAIN calls[u]
                            /\ \A i \in DOMAIN calls[u] :
                                  /\ calls'[u][i].task = calls[u][i].task
                                  /\ calls'[u][i].op = calls[u][i].op
                                  /\ calls'[u][i].conv = calls[u][i].conv
                                  /\ calls'[u][i].msg = calls[u][i].msg
                                  /\ u # t \/ i # 1 => calls'[u][i] = calls[u][i]
<1>1. PICK first : first = [Oldest(t) EXCEPT !.stage = stage, !.result = result]
  OBVIOUS
<1>2. /\ calls[t] \in Seq(Calls) /\ Len(calls[t]) \in Nat \ {0}
      /\ DOMAIN calls[t] = 1..Len(calls[t]) /\ Oldest(t) \in Calls
  BY OldestIs
<1>3. first \in Calls
  BY <1>1, <1>2 DEF Calls, Served
<1>4. PICK queue : queue = <<first>> \o Tail(calls[t])
  OBVIOUS
<1>5. /\ queue \in Seq(Calls) /\ Len(queue) = Len(calls[t]) /\ queue[1] = first
      /\ \A i \in 2..Len(calls[t]) : queue[i] = calls[t][i]
  <2>1. Tail(calls[t]) \in Seq(Calls) /\ Len(Tail(calls[t])) = Len(calls[t]) - 1
    BY <1>2
  <2>2. \A i \in 1..(Len(calls[t]) - 1) : Tail(calls[t])[i] = calls[t][i + 1]
    BY <1>2
  <2>3. <<first>> \in Seq(Calls) /\ Len(<<first>>) = 1 /\ <<first>>[1] = first
    BY <1>3
  <2>4. ASSUME NEW i \in 2..Len(calls[t])
        PROVE  queue[i] = calls[t][i]
    <3>1. queue[i] = Tail(calls[t])[i - 1]
      BY <1>2, <1>4, <2>1, <2>3
    <3>2. i - 1 \in 1..(Len(calls[t]) - 1) /\ (i - 1) + 1 = i
      BY <1>2
    <3>. QED  BY <2>2, <3>1, <3>2
  <2>. QED  BY <1>2, <1>4, <2>1, <2>3, <2>4
<1>6. calls' = [calls EXCEPT ![t] = queue] /\ calls \in [Tabs -> Seq(Calls)]
  BY <1>1, <1>4 DEF Stage, CallsInv
<1>7. /\ calls' \in [Tabs -> Seq(Calls)] /\ calls'[t] = queue
      /\ \A u \in Tabs \ {t} : calls'[u] = calls[u]
  BY <1>5, <1>6
<1>8. /\ first.task = calls[t][1].task /\ first.op = calls[t][1].op
      /\ first.conv = calls[t][1].conv /\ first.msg = calls[t][1].msg
      /\ first.stage = stage /\ first.result = result
  BY <1>1, <1>2, OldestIs DEF Calls
<1>9. DOMAIN queue = DOMAIN calls[t] /\ \A i \in DOMAIN calls[t] : i # 1 => queue[i] = calls[t][i]
  BY <1>2, <1>5
<1>. QED  BY <1>5, <1>7, <1>8, <1>9

\* What the client holds stays true of the tables as ids are added.
LEMMA ClientKeeps ==
  ASSUME AskedInv, TasksInv, TabsInv, used \subseteq used', UNCHANGED clientVars
  PROVE  AskedInv' /\ TasksInv' /\ TabsInv'
<1>1. AskedInv'
  BY DEF AskedInv, clientVars
<1>2. Seq(used) \subseteq Seq(used') /\ Listed \subseteq Listed'
  BY LongerLists
<1>3. Tasks \subseteq Tasks'
  BY <1>2 DEF Tasks, AskTask, DeleteTask, clientVars
<1>4. TasksInv'
  BY <1>3 DEF TasksInv, clientVars
<1>5. TabsInv'
  BY <1>2 DEF TabsInv, TabOK, clientVars
<1>. QED  BY <1>1, <1>4, <1>5

\* Who awaits what depends on the handlers and on what the calls are.
LEMMA LinksStay ==
  ASSUME LinksInv, task' = task,
         \A u \in Tabs : /\ DOMAIN calls'[u] = DOMAIN calls[u]
                        /\ \A i \in DOMAIN calls[u] : /\ calls'[u][i].task = calls[u][i].task
                                                     /\ calls'[u][i].op = calls[u][i].op
  PROVE  LinksInv'
<1>. SUFFICES ASSUME NEW u \in Tabs, NEW i \in DOMAIN calls'[u]
              PROVE  LinkOK(u, i)'
  BY DEF LinksInv
<1>. PICK s, k : s = calls[u][i].task /\ k = task[u][s]
  OBVIOUS
<1>1. i \in DOMAIN calls[u] /\ calls'[u][i].task = s /\ task'[u][s] = k
  OBVIOUS
<1>2. LinkOK(u, i)
  BY <1>1 DEF LinksInv
<1>3. s # None => Saving(k) \/ \A j \in DOMAIN calls[u] : calls[u][j].task = s => j = i
  BY <1>2 DEF LinkOK
<1>4. s # None => Saving(k) \/ \A j \in DOMAIN calls'[u] : calls'[u][j].task = s => j = i
  BY <1>3
<1>. QED  BY <1>1, <1>2, <1>4 DEF LinkOK

\* A step of the server keeps the calls and who awaits them.
LEMMA StageKeeps ==
  ASSUME CallsInv, LinksInv, NEW t \in Tabs, calls[t] # <<>>,
         NEW stage \in Served, NEW result \in Results,
         Stage(t, stage, result), used \subseteq used', UNCHANGED clientVars,
         Oldest(t).op = "create" /\ stage \in {"written", "done"} => result \in used'
  PROVE  CallsInv' /\ LinksInv'
<1>1. /\ calls' \in [Tabs -> Seq(Calls)]
      /\ calls'[t][1].stage = stage /\ calls'[t][1].result = result
      /\ \A u \in Tabs : /\ DOMAIN calls'[u] = DOMAIN calls[u]
                         /\ \A i \in DOMAIN calls[u] :
                               /\ calls'[u][i].task = calls[u][i].task
                               /\ calls'[u][i].op = calls[u][i].op
                               /\ calls'[u][i].conv = calls[u][i].conv
                               /\ calls'[u][i].msg = calls[u][i].msg
                               /\ u # t \/ i # 1 => calls'[u][i] = calls[u][i]
  BY StageIs
<1>3. Oldest(t) = calls[t][1]
  BY OldestIs
<1>5. asked' = asked /\ task' = task
  BY DEF clientVars
<1>6. ASSUME NEW u \in Tabs, NEW i \in DOMAIN calls'[u]
      PROVE  CallOK(calls[u][i])'
  <2>1. CallOK(calls[u][i])
    BY <1>1 DEF CallsInv
  <2>2. CASE u # t \/ i # 1
    BY <1>1, <1>5, <2>1, <2>2 DEF CallOK
  <2>3. CASE u = t /\ i = 1
    BY <1>1, <1>3, <1>5, <2>1, <2>3 DEF CallOK
  <2>. QED  BY <2>2, <2>3
<1>7. CallsInv'
  BY <1>1, <1>6 DEF CallsInv
<1>8. LinksInv'
  BY <1>1, <1>5, LinksStay
<1>. QED  BY <1>7, <1>8

-----------------------------------------------------------------------------
(***************************************************************************)
(* The server keeps the invariant.                                         *)
(***************************************************************************)

LEMMA ReadKeeps ==
  ASSUME DashboardInv, NEW t \in Tabs, ServeRead(t), UNCHANGED clientVars
  PROVE  DashboardInv'
<1>1. PICK result : result = IF Exists(Oldest(t).conv) THEN messages[Oldest(t).conv] ELSE None
  OBVIOUS
<1>2. /\ calls[t] # <<>> /\ Stage(t, "done", result) /\ UNCHANGED store
      /\ Oldest(t).op # "create"
  BY <1>1 DEF ServeRead, At
<1>3. result \in Results
  BY <1>1 DEF DashboardInv, StoreInv, Exists, Results
<1>4. StoreInv' /\ SavedInv' /\ used \subseteq used'
  BY <1>2 DEF DashboardInv, StoreInv, SavedInv, store, clientVars
<1>5. CallsInv' /\ LinksInv'
  BY <1>2, <1>3, <1>4, StageKeeps DEF DashboardInv, Served
<1>. QED  BY <1>4, <1>5, ClientKeeps DEF DashboardInv

\* The steps of a call that leave the tables alone.
LEMMA PassKeeps ==
  ASSUME DashboardInv, NEW t \in Tabs, calls[t] # <<>>, NEW stage \in Served,
         stage \in {"checked", "failed"}, Stage(t, stage, None), UNCHANGED <<store, clientVars>>
  PROVE  DashboardInv'
<1>1. StoreInv' /\ SavedInv' /\ used \subseteq used'
  BY DEF DashboardInv, StoreInv, SavedInv, store, clientVars
<1>2. None \in Results
  BY DEF Results
<1>3. CallsInv' /\ LinksInv'
  BY <1>1, <1>2, StageKeeps DEF DashboardInv
<1>. QED  BY <1>1, <1>3, ClientKeeps DEF DashboardInv

LEMMA CreateServed ==
  ASSUME DashboardInv, NEW t \in Tabs, NEW c \in Ids, ServeCreate(t, c), UNCHANGED clientVars
  PROVE  DashboardInv'
<1>1. calls[t] # <<>> /\ Create(c) /\ Stage(t, "written", c) /\ asked' = asked
  BY DEF ServeCreate, At, clientVars
<1>2. StoreInv' /\ SavedInv' /\ used \subseteq used' /\ c \in used'
  BY <1>1, CreateKeeps DEF DashboardInv
<1>3. CallsInv' /\ LinksInv'
  BY <1>1, <1>2, StageKeeps DEF DashboardInv, Served, Results
<1>. QED  BY <1>2, <1>3, ClientKeeps DEF DashboardInv

LEMMA RerenderKeeps ==
  ASSUME DashboardInv, NEW t \in Tabs, NEW c \in Ids, ServeRerender(t, c), UNCHANGED clientVars
  PROVE  DashboardInv'
<1>1. PICK result : result = Oldest(t).result
  OBVIOUS
<1>2. /\ calls[t] # <<>> /\ Create(c) /\ Stage(t, "done", result) /\ asked' = asked
      /\ Oldest(t).stage = "written"
  BY <1>1 DEF ServeRerender, At, clientVars
<1>3. StoreInv' /\ SavedInv' /\ used \subseteq used'
  BY <1>2, CreateKeeps DEF DashboardInv
<1>4. Oldest(t) \in Calls /\ CallOK(Oldest(t))
  BY <1>2, OldestIs DEF DashboardInv
<1>5. result \in Results /\ (Oldest(t).op = "create" => result \in used')
  BY <1>1, <1>2, <1>3, <1>4 DEF Calls, CallOK
<1>6. CallsInv' /\ LinksInv'
  BY <1>2, <1>3, <1>5, StageKeeps DEF DashboardInv, Served
<1>. QED  BY <1>3, <1>6, ClientKeeps DEF DashboardInv

LEMMA RevalidateKeeps ==
  ASSUME DashboardInv, NEW t \in Tabs, ServeRevalidate(t), UNCHANGED clientVars
  PROVE  DashboardInv'
<1>1. PICK result : result = Oldest(t).result
  OBVIOUS
<1>2. /\ calls[t] # <<>> /\ Stage(t, "done", result) /\ UNCHANGED store
      /\ Oldest(t).stage = "written"
  BY <1>1 DEF ServeRevalidate, At
<1>3. StoreInv' /\ SavedInv' /\ used \subseteq used'
  BY <1>2 DEF DashboardInv, StoreInv, SavedInv, store, clientVars
<1>4. Oldest(t) \in Calls /\ CallOK(Oldest(t))
  BY <1>2, OldestIs DEF DashboardInv
<1>5. result \in Results /\ (Oldest(t).op = "create" => result \in used')
  BY <1>1, <1>2, <1>3, <1>4 DEF Calls, CallOK
<1>6. CallsInv' /\ LinksInv'
  BY <1>2, <1>3, <1>5, StageKeeps DEF DashboardInv, Served
<1>. QED  BY <1>3, <1>6, ClientKeeps DEF DashboardInv

LEMMA RenameServed ==
  ASSUME DashboardInv, NEW t \in Tabs, ServeRename(t), UNCHANGED clientVars
  PROVE  DashboardInv'
<1>1. /\ calls[t] # <<>> /\ Stage(t, "written", None) /\ asked' = asked
      /\ Exists(Oldest(t).conv) /\ Retitle(Oldest(t).conv) /\ Oldest(t).op = "rename"
  BY DEF ServeRename, At, clientVars
<1>2. StoreInv' /\ SavedInv' /\ used \subseteq used'
  BY <1>1, RetitleKeeps DEF DashboardInv, Retitle
<1>3. CallsInv' /\ LinksInv'
  BY <1>1, <1>2, StageKeeps DEF DashboardInv, Served, Results
<1>. QED  BY <1>2, <1>3, ClientKeeps DEF DashboardInv

LEMMA DeleteServed ==
  ASSUME DashboardInv, NEW t \in Tabs, ServeDelete(t), UNCHANGED clientVars
  PROVE  DashboardInv'
<1>1. /\ calls[t] # <<>> /\ Stage(t, "written", None) /\ asked' = asked
      /\ Drop(Oldest(t).conv) /\ Oldest(t).op = "delete"
  BY DEF ServeDelete, At, clientVars
<1>2. StoreInv' /\ SavedInv' /\ used \subseteq used'
  BY <1>1, DropKeeps DEF DashboardInv
<1>3. CallsInv' /\ LinksInv'
  BY <1>1, <1>2, StageKeeps DEF DashboardInv, Served, Results
<1>. QED  BY <1>2, <1>3, ClientKeeps DEF DashboardInv

\* The message that a call saves was sent where its question was asked.
LEMMA AppendSaves ==
  ASSUME DashboardInv, NEW t \in Tabs, ServeAppend(t), UNCHANGED clientVars
  PROVE  /\ calls[t] # <<>> /\ Stage(t, "done", None) /\ asked' = asked
         /\ Exists(Oldest(t).conv) /\ Add(Oldest(t).conv, Oldest(t).msg)
         /\ Oldest(t).op = "append" /\ Oldest(t).msg \in Saved
         /\ Oldest(t).msg.question \in DOMAIN asked
         /\ asked[Oldest(t).msg.question] = Oldest(t).conv
<1>1. /\ calls[t] # <<>> /\ Stage(t, "done", None) /\ asked' = asked
      /\ Exists(Oldest(t).conv) /\ Add(Oldest(t).conv, Oldest(t).msg) /\ Oldest(t).op = "append"
  BY DEF ServeAppend, At, clientVars
<1>2. CallOK(Oldest(t))
  BY <1>1, OldestIs DEF DashboardInv
<1>. QED  BY <1>1, <1>2 DEF CallOK

LEMMA AppendServed ==
  ASSUME DashboardInv, NEW t \in Tabs, ServeAppend(t), UNCHANGED clientVars
  PROVE  DashboardInv'
<1>. PICK c, m : c = Oldest(t).conv /\ m = Oldest(t).msg
  OBVIOUS
<1>1. /\ calls[t] # <<>> /\ Stage(t, "done", None) /\ asked' = asked
      /\ Exists(c) /\ Add(c, m) /\ Oldest(t).op = "append" /\ m \in Saved
      /\ m.question \in DOMAIN asked /\ asked[m.question] = c
  BY AppendSaves
<1>2. StoreInv' /\ SavedInv' /\ used \subseteq used'
  BY <1>1, AddKeeps DEF DashboardInv, Add
<1>3. CallsInv' /\ LinksInv'
  BY <1>1, <1>2, StageKeeps DEF DashboardInv, Served, Results
<1>. QED  BY <1>2, <1>3, ClientKeeps DEF DashboardInv

LEMMA ServeKeeps ==
  ASSUME DashboardInv, NEW t \in Tabs, Serve(t), UNCHANGED clientVars
  PROVE  DashboardInv'
<1>1. CASE ServeRead(t)
  BY <1>1, ReadKeeps
<1>2. CASE ServeCheck(t)
  <2>1. PICK stage \in {"checked", "failed"} : Stage(t, stage, None)
    BY <1>2 DEF ServeCheck
  <2>. QED  BY <1>2, <2>1, PassKeeps DEF ServeCheck, At, Served
<1>3. CASE ServeRename(t)
  BY <1>3, RenameServed
<1>4. CASE ServeAppend(t)
  BY <1>4, AppendServed
<1>5. CASE ServeDelete(t)
  BY <1>5, DeleteServed
<1>6. CASE ServeGone(t)
  BY <1>6, PassKeeps DEF ServeGone, At, Served
<1>7. CASE ServeRevalidate(t)
  BY <1>7, RevalidateKeeps
<1>8. CASE ServeThrows(t)
  BY <1>8, PassKeeps DEF ServeThrows, Served
<1>9. CASE \E c \in Ids : ServeCreate(t, c) \/ (SpareId /\ ServeRerender(t, c))
  BY <1>9, CreateServed, RerenderKeeps
<1>. QED  BY <1>1, <1>2, <1>3, <1>4, <1>5, <1>6, <1>7, <1>8, <1>9 DEF Serve

-----------------------------------------------------------------------------
(***************************************************************************)
(* The client changes a queue at its ends.                                 *)
(***************************************************************************)

\* The queue without its first d calls, perhaps orphaned, and with more calls.
Follows(later, queue, d, more) ==
    /\ DOMAIN later = 1..(Len(queue) - d + Len(more))
    /\ \A i \in 1..(Len(queue) - d) :
          /\ later[i].op = queue[i + d].op /\ later[i].conv = queue[i + d].conv
          /\ later[i].msg = queue[i + d].msg /\ later[i].stage = queue[i + d].stage
          /\ later[i].result = queue[i + d].result
          /\ later[i].task \in {queue[i + d].task, None}
    /\ \A i \in 1..Len(more) : later[Len(queue) - d + i] = more[i]

\* A step on the queue of one tab.
QueueStep(t, d, more) ==
    /\ calls' \in [Tabs -> Seq(Calls)]
    /\ \A u \in Tabs \ {t} : calls'[u] = calls[u]
    /\ Follows(calls'[t], calls[t], d, more)

\* A step on one handler.
TaskStep(t, s, k) ==
    /\ DOMAIN task' = Tabs /\ \A u \in Tabs : DOMAIN task'[u] = Slots
    /\ \A u \in Tabs \ {t} : task'[u] = task[u]
    /\ \A r \in Slots \ {s} : task'[t][r] = task[t][r]
    /\ task'[t][s] = k

LEMMA TaskChanges ==
  ASSUME TasksInv, NEW t \in Tabs, NEW s \in Slots, NEW k, task' = [task EXCEPT ![t][s] = k]
  PROVE  TaskStep(t, s, k)
BY DEF TasksInv, TaskStep

LEMMA TailFollows ==
  ASSUME NEW queue \in Seq(Calls), queue # <<>>, NEW more \in Seq(Calls)
  PROVE  Tail(queue) \o more \in Seq(Calls) /\ Follows(Tail(queue) \o more, queue, 1, more)
<1>. PICK n, m : n = Len(queue) /\ m = Len(more)
  OBVIOUS
<1>1. n \in Nat \ {0} /\ m \in Nat
  OBVIOUS
<1>2. PICK rest : rest = Tail(queue)
  OBVIOUS
<1>3. /\ rest \in Seq(Calls) /\ Len(rest) = n - 1
      /\ \A i \in 1..(n - 1) : rest[i] = queue[i + 1]
  BY <1>1, <1>2
<1>4. PICK later : later = rest \o more
  OBVIOUS
<1>5. /\ later \in Seq(Calls) /\ Len(later) = n - 1 + m
      /\ \A i \in 1..(n - 1) : later[i] = rest[i]
      /\ \A i \in 1..m : later[n - 1 + i] = more[i]
  <2>. PICK l \in Nat : l = n - 1
    BY <1>1
  <2>1. /\ later \in Seq(Calls) /\ Len(later) = l + m
        /\ \A i \in 1..l : later[i] = rest[i]
        /\ \A i \in 1..m : later[l + i] = more[i]
    BY <1>1, <1>3, <1>4
  <2>. QED  BY <2>1
<1>6. DOMAIN later = 1..(n - 1 + m)
  BY <1>5
<1>7. \A i \in 1..(n - 1) : later[i] = queue[i + 1]
  BY <1>3, <1>5
<1>8. Follows(later, queue, 1, more)
  BY <1>5, <1>6, <1>7 DEF Follows
<1>. QED  BY <1>2, <1>4, <1>5, <1>8

LEMMA AwaitStep ==
  ASSUME CallsInv, TasksInv, NEW t \in Tabs, NEW s \in Slots, NEW k, NEW more \in Seq(Calls),
         Await(t, s, k, more)
  PROVE  QueueStep(t, 0, more) /\ TaskStep(t, s, k)
<1>. PICK queue, later : queue = calls[t] /\ later = queue \o more
  OBVIOUS
<1>1. queue \in Seq(Calls) /\ calls \in [Tabs -> Seq(Calls)]
  BY DEF CallsInv
<1>2. /\ later \in Seq(Calls) /\ DOMAIN later = 1..(Len(queue) + Len(more))
      /\ \A i \in 1..Len(queue) : later[i] = queue[i]
      /\ \A i \in 1..Len(more) : later[Len(queue) + i] = more[i]
  BY <1>1
<1>3. Follows(later, queue, 0, more)
  BY <1>1, <1>2 DEF Follows
<1>4. calls' = [calls EXCEPT ![t] = later] /\ task' = [task EXCEPT ![t][s] = k]
  BY DEF Await
<1>. QED  BY <1>1, <1>2, <1>3, <1>4, TaskChanges DEF QueueStep

LEMMA ResumeStep ==
  ASSUME CallsInv, TasksInv, NEW t \in Tabs, calls[t] # <<>>, Oldest(t).task # None,
         NEW k, NEW more \in Seq(Calls), Resume(t, k, more)
  PROVE  /\ QueueStep(t, 1, more) /\ Oldest(t).task \in Slots
         /\ TaskStep(t, Oldest(t).task, k)
<1>. PICK queue, later : queue = calls[t] /\ later = Tail(queue) \o more
  OBVIOUS
<1>1. queue \in Seq(Calls) /\ calls \in [Tabs -> Seq(Calls)]
  BY DEF CallsInv
<1>2. later \in Seq(Calls) /\ Follows(later, queue, 1, more)
  BY <1>1, TailFollows
<1>3. calls' = [calls EXCEPT ![t] = later] /\ task' = [task EXCEPT ![t][Oldest(t).task] = k]
  BY DEF Resume
<1>4. Oldest(t).task \in Slots
  BY OldestIs DEF Calls
<1>. QED  BY <1>1, <1>2, <1>3, <1>4, TaskChanges DEF QueueStep

LEMMA OrphanStep ==
  ASSUME CallsInv, NEW t \in Tabs, calls[t] # <<>>, calls' = [calls EXCEPT ![t] = Tail(@)]
  PROVE  QueueStep(t, 1, <<>>)
<1>. PICK queue, later : queue = calls[t] /\ later = Tail(queue) \o <<>>
  OBVIOUS
<1>1. queue \in Seq(Calls) /\ calls \in [Tabs -> Seq(Calls)] /\ <<>> \in Seq(Calls)
  BY DEF CallsInv
<1>2. later \in Seq(Calls) /\ Follows(later, queue, 1, <<>>)
  BY <1>1, TailFollows
<1>3. later = Tail(queue)
  BY <1>1
<1>4. calls' = [calls EXCEPT ![t] = later]
  BY <1>3
<1>. QED  BY <1>1, <1>2, <1>4 DEF QueueStep

LEMMA FinishStep ==
  ASSUME CallsInv, TasksInv, NEW t \in Tabs, calls[t] # <<>>, Oldest(t).task # None, Finish(t)
  PROVE  /\ QueueStep(t, 1, <<>>) /\ Oldest(t).task \in Slots
         /\ TaskStep(t, Oldest(t).task, NoTask)
         /\ \A i \in DOMAIN calls'[t] : calls'[t][i].task # Oldest(t).task
<1>. PICK queue, s, n : queue = calls[t] /\ s = Oldest(t).task /\ n = Len(queue)
  OBVIOUS
<1>1. PICK later : later = [i \in 1..(n - 1) |-> Orphaned(queue[i + 1], s)]
  OBVIOUS
<1>2. /\ queue \in Seq(Calls) /\ calls \in [Tabs -> Seq(Calls)] /\ n \in Nat \ {0}
      /\ s \in Slots /\ s # None
  BY OldestIs DEF CallsInv, Calls
<1>3. ASSUME NEW i \in 1..(n - 1)
      PROVE  /\ later[i] \in Calls
             /\ later[i].op = queue[i + 1].op /\ later[i].conv = queue[i + 1].conv
             /\ later[i].msg = queue[i + 1].msg /\ later[i].stage = queue[i + 1].stage
             /\ later[i].result = queue[i + 1].result
             /\ later[i].task \in {queue[i + 1].task, None}
             /\ later[i].task # s
  <2>1. later[i] = Orphaned(queue[i + 1], s) /\ queue[i + 1] \in Calls
    BY <1>1, <1>2
  <2>. QED  BY <1>2, <2>1, ZenonT(60) DEF Orphaned, Calls
<1>4. DOMAIN later = 1..(n - 1) /\ n - 1 \in Nat
  BY <1>1, <1>2
<1>5. later \in Seq(Calls)
  <2>1. later \in [1..(n - 1) -> Calls]
    BY <1>1, <1>3
  <2>. QED  BY <1>4, <2>1
<1>6. Follows(later, queue, 1, <<>>)
  BY <1>2, <1>3, <1>4, SMTT(60) DEF Follows
<1>7. calls' = [calls EXCEPT ![t] = later] /\ task' = [task EXCEPT ![t][s] = NoTask]
  BY <1>1 DEF Finish
<1>8. QueueStep(t, 1, <<>>) /\ calls'[t] = later
  BY <1>2, <1>5, <1>6, <1>7 DEF QueueStep
<1>. QED  BY <1>2, <1>3, <1>4, <1>7, <1>8, TaskChanges

LEMMA Offset ==
  ASSUME NEW n \in Nat, NEW m \in Nat, NEW i \in (n + 1)..(n + m)
  PROVE  \E l \in 1..m : i = n + l
<1>1. i - n \in 1..m /\ i = n + (i - n)
  OBVIOUS
<1>. QED  BY <1>1

\* Questions are only added.
AskedGrows == /\ DOMAIN asked \subseteq DOMAIN asked'
              /\ \A q \in DOMAIN asked : asked'[q] = asked[q]

LEMMA QueueCalls ==
  ASSUME CallsInv, AskedGrows, used' = used, NEW t \in Tabs, NEW d \in {0, 1},
         d <= Len(calls[t]), NEW more \in Seq(Calls), QueueStep(t, d, more),
         \A i \in 1..Len(more) : CallOK(more[i])'
  PROVE  CallsInv'
<1>. PICK n, m : n = Len(calls[t]) - d /\ m = Len(more)
  OBVIOUS
<1>1. calls[t] \in Seq(Calls) /\ n \in Nat /\ m \in Nat /\ DOMAIN calls[t] = 1..(n + d)
  BY DEF CallsInv
<1>2. /\ calls' \in [Tabs -> Seq(Calls)]
      /\ \A u \in Tabs \ {t} : calls'[u] = calls[u]
      /\ DOMAIN calls'[t] = 1..(n + m)
      /\ \A i \in 1..n : /\ calls'[t][i].op = calls[t][i + d].op
                         /\ calls'[t][i].conv = calls[t][i + d].conv
                         /\ calls'[t][i].msg = calls[t][i + d].msg
                         /\ calls'[t][i].stage = calls[t][i + d].stage
                         /\ calls'[t][i].result = calls[t][i + d].result
      /\ \A i \in 1..m : calls'[t][n + i] = more[i]
  BY DEF QueueStep, Follows
<1>3. ASSUME NEW c, CallOK(c), NEW e, e.op = c.op, e.conv = c.conv, e.msg = c.msg,
             e.stage = c.stage, e.result = c.result
      PROVE  CallOK(e)'
  BY <1>3 DEF CallOK, AskedGrows
<1>4. ASSUME NEW u \in Tabs \ {t}, NEW i \in DOMAIN calls'[u]
      PROVE  CallOK(calls[u][i])'
  <2>1. calls'[u][i] = calls[u][i] /\ CallOK(calls[u][i])
    BY <1>2 DEF CallsInv
  <2>. QED  BY <2>1 DEF CallOK, AskedGrows
<1>5. ASSUME NEW i \in DOMAIN calls'[t]
      PROVE  CallOK(calls[t][i])'
  <2>1. CASE i \in 1..n
    <3>1. i + d \in DOMAIN calls[t]
      BY <1>1, <2>1
    <3>2. CallOK(calls[t][i + d])
      BY <3>1 DEF CallsInv
    <3>. QED  BY <1>2, <2>1, <3>2 DEF CallOK, AskedGrows
  <2>2. CASE i \in (n + 1)..(n + m)
    <3>1. PICK l \in 1..m : i = n + l
      BY <1>1, <2>2, Offset
    <3>2. calls'[t][i] = more[l] /\ l \in 1..Len(more)
      BY <1>2, <3>1
    <3>. QED  BY <3>2 DEF CallOK
  <2>. QED  BY <1>1, <1>2, <2>1, <2>2
<1>. QED  BY <1>2, <1>4, <1>5 DEF CallsInv

LEMMA QueueLinks ==
  ASSUME CallsInv, LinksInv, NEW t \in Tabs, NEW d \in {0, 1}, d <= Len(calls[t]),
         NEW more \in Seq(Calls), QueueStep(t, d, more), NEW s, NEW k, TaskStep(t, s, k),
         \A i \in 1..Len(more) : more[i].task \in {s, None},
         \A i \in DOMAIN calls'[t] : calls'[t][i].task = s => LinkOK(t, i)'
  PROVE  LinksInv'
<1>. PICK n, m : n = Len(calls[t]) - d /\ m = Len(more)
  OBVIOUS
<1>1. calls[t] \in Seq(Calls) /\ n \in Nat /\ m \in Nat /\ DOMAIN calls[t] = 1..(n + d)
  BY DEF CallsInv
<1>2. /\ \A u \in Tabs \ {t} : calls'[u] = calls[u] /\ task'[u] = task[u]
      /\ DOMAIN calls'[t] = 1..(n + m)
      /\ \A i \in 1..n : /\ calls'[t][i].op = calls[t][i + d].op
                         /\ calls'[t][i].task \in {calls[t][i + d].task, None}
      /\ \A i \in 1..m : calls'[t][n + i] = more[i]
  BY DEF QueueStep, Follows, TaskStep
<1>3. ASSUME NEW u \in Tabs \ {t}, NEW i \in DOMAIN calls'[u]
      PROVE  LinkOK(u, i)'
  <2>1. LinkOK(u, i)
    BY <1>2 DEF LinksInv
  <2>. QED  BY <1>2, <2>1 DEF LinkOK
<1>4. ASSUME NEW i \in DOMAIN calls'[t]
      PROVE  LinkOK(t, i)'
  <2>. PICK r : r = calls'[t][i].task
    OBVIOUS
  <2>1. CASE r = None
    BY <2>1 DEF LinkOK
  <2>2. CASE r = s
    BY <2>2
  <2>3. CASE r # s /\ r # None
    <3>1. ASSUME NEW j \in DOMAIN calls'[t], calls'[t][j].task = r
          PROVE  j \in 1..n /\ calls[t][j + d].task = r /\ j + d \in DOMAIN calls[t]
      <4>1. j \in 1..n
        <5>. SUFFICES ASSUME j \in (n + 1)..(n + m)
                      PROVE  FALSE
          BY <1>1, <1>2
        <5>1. PICK l \in 1..m : j = n + l
          BY <1>1, Offset
        <5>2. calls'[t][j] = more[l] /\ l \in 1..Len(more)
          BY <1>2, <5>1
        <5>. QED  BY <2>3, <3>1, <5>2
      <4>2. calls'[t][j].task \in {calls[t][j + d].task, None}
        BY <1>2, <4>1
      <4>3. j + d \in 1..(n + d)
        BY <1>1, <4>1
      <4>4. j + d \in DOMAIN calls[t]
        BY <1>1, <4>3
      <4>. QED  BY <2>3, <3>1, <4>1, <4>2, <4>4
    <3>2. i \in 1..n /\ calls[t][i + d].task = r /\ i + d \in DOMAIN calls[t]
      BY <3>1
    <3>3. LinkOK(t, i + d) /\ calls[t][i + d] \in Calls
      BY <1>1, <3>2 DEF LinksInv
    <3>4. r \in Slots /\ task'[t][r] = task[t][r]
      BY <2>3, <3>2, <3>3 DEF Calls, TaskStep
    <3>5. ASSUME ~Saving(task[t][r]), NEW j \in DOMAIN calls'[t], calls'[t][j].task = r
          PROVE  j = i
      <4>1. j \in 1..n /\ calls[t][j + d].task = r /\ j + d \in DOMAIN calls[t]
        BY <3>1, <3>5
      <4>2. j + d = i + d
        BY <2>3, <3>2, <3>3, <3>5, <4>1 DEF LinkOK
      <4>. QED  BY <1>1, <3>2, <4>1, <4>2
    <3>6. calls'[t][i].op = calls[t][i + d].op
      BY <1>2, <3>2
    <3>. QED  BY <2>3, <3>2, <3>3, <3>4, <3>5, <3>6 DEF LinkOK
  <2>. QED  BY <2>1, <2>2, <2>3
<1>. QED  BY <1>3, <1>4 DEF LinksInv

\* handleAsk while it saves.
LEMMA AskLinks ==
  ASSUME CallsInv, LinksInv, NEW t \in Tabs, NEW d \in {0, 1}, d <= Len(calls[t]),
         NEW more \in Seq(Calls), QueueStep(t, d, more), NEW s, NEW k, TaskStep(t, s, k),
         \A i \in 1..Len(more) : more[i].task \in {s, None}, Saving(k)
  PROVE  LinksInv'
<1>0. k.kind = "ask" /\ k.pc \in {"saving", "saved one"} /\ NoTask.kind = "none"
  BY DEF Saving, NoTask
<1>1. /\ k # NoTask /\ ~(k.kind = "ask" /\ k.pc = "chat")
      /\ ~(k.kind = "new" \/ (k.kind = "delete" /\ k.pc = "creating"))
  BY <1>0
<1>2. task'[t][s] = k
  BY DEF TaskStep
<1>3. \A i \in DOMAIN calls'[t] : calls'[t][i].task = s => LinkOK(t, i)'
  BY <1>1, <1>2 DEF LinkOK
<1>. QED  BY <1>3, QueueLinks

\* A handler with one call, which is the last it makes.
LEMMA SoleLinks ==
  ASSUME CallsInv, LinksInv, NEW t \in Tabs, NEW d \in {0, 1}, d <= Len(calls[t]),
         NEW c \in Calls, QueueStep(t, d, <<c>>), NEW s, NEW k, TaskStep(t, s, k),
         c.task = s, k # NoTask, ~(k.kind = "ask" /\ k.pc = "chat"),
         k.kind = "new" \/ (k.kind = "delete" /\ k.pc = "creating") => c.op = "create",
         \A i \in DOMAIN calls[t] : i > d => calls[t][i].task # s \/ s = None
  PROVE  LinksInv'
<1>. PICK n : n = Len(calls[t]) - d
  OBVIOUS
<1>1. calls[t] \in Seq(Calls) /\ n \in Nat /\ DOMAIN calls[t] = 1..(n + d)
  BY DEF CallsInv
<1>2. /\ <<c>> \in Seq(Calls) /\ Len(<<c>>) = 1 /\ <<c>>[1] = c
      /\ \A i \in 1..Len(<<c>>) : <<c>>[i].task \in {s, None}
  OBVIOUS
<1>3. /\ DOMAIN calls'[t] = 1..(n + 1)
      /\ \A i \in 1..n : calls'[t][i].task \in {calls[t][i + d].task, None}
      /\ calls'[t][n + 1] = c
  BY <1>2, SMTT(60) DEF QueueStep, Follows
<1>4. ASSUME NEW i \in DOMAIN calls'[t], calls'[t][i].task = s
      PROVE  LinkOK(t, i)'
  <2>1. CASE s = None
    BY <1>4, <2>1 DEF LinkOK
  <2>2. CASE s # None
    <3>1. ASSUME NEW j \in 1..n
          PROVE  calls'[t][j].task # s
      <4>1. j + d \in DOMAIN calls[t] /\ j + d > d
        BY <1>1
      <4>. QED  BY <1>3, <2>2, <4>1
    <3>2. i = n + 1 /\ \A j \in DOMAIN calls'[t] : calls'[t][j].task = s => j = i
      <4>1. \A j \in DOMAIN calls'[t] : j \in 1..n \/ j = n + 1
        BY <1>1, <1>3
      <4>. QED  BY <1>4, <3>1, <4>1
    <3>. QED  BY <1>3, <1>4, <3>2 DEF LinkOK, TaskStep
  <2>. QED  BY <2>1, <2>2
<1>. QED  BY <1>2, <1>4, QueueLinks

\* Once the only call of a handler has returned, it awaits none.
LEMMA NoneLeft ==
  ASSUME CallsInv, NEW t \in Tabs, calls[t] # <<>>, NEW s, s # None, calls[t][1].task = s,
         LinkOK(t, 1), ~Saving(task[t][s]), QueueStep(t, 1, <<>>)
  PROVE  \A i \in DOMAIN calls'[t] : calls'[t][i].task # s
<1>. PICK n : n = Len(calls[t]) - 1
  OBVIOUS
<1>1. n \in Nat /\ DOMAIN calls[t] = 1..(n + 1) /\ 1 \in DOMAIN calls[t]
  BY OldestIs
<1>2. /\ DOMAIN calls'[t] = 1..n
      /\ \A i \in 1..n : calls'[t][i].task \in {calls[t][i + 1].task, None}
  BY <1>1 DEF QueueStep, Follows
<1>3. ASSUME NEW i \in 1..n
      PROVE  calls[t][i + 1].task # s
  <2>1. i + 1 \in DOMAIN calls[t] /\ i + 1 # 1
    BY <1>1
  <2>. QED  BY <1>1, <2>1 DEF LinkOK
<1>. QED  BY <1>2, <1>3

\* A handler that ends awaits nothing.
LEMMA FinishLinks ==
  ASSUME CallsInv, TasksInv, LinksInv, NEW t \in Tabs, calls[t] # <<>>, Oldest(t).task # None,
         Finish(t)
  PROVE  LinksInv'
<1>. PICK s : s = Oldest(t).task
  OBVIOUS
<1>1. /\ QueueStep(t, 1, <<>>) /\ TaskStep(t, s, NoTask)
      /\ \A i \in DOMAIN calls'[t] : calls'[t][i].task # s
  BY FinishStep
<1>2. 1 <= Len(calls[t]) /\ <<>> \in Seq(Calls)
  BY OldestIs
<1>3. \A i \in 1..Len(<<>>) : <<>>[i].task \in {s, None}
  OBVIOUS
<1>4. \A i \in DOMAIN calls'[t] : calls'[t][i].task = s => LinkOK(t, i)'
  BY <1>1
<1>. QED  BY <1>1, <1>2, <1>3, <1>4, QueueLinks

LEMMA OrphanLinks ==
  ASSUME CallsInv, TasksInv, LinksInv, NEW t \in Tabs, calls[t] # <<>>, QueueStep(t, 1, <<>>),
         task' = task
  PROVE  LinksInv'
<1>. PICK k : k = task[t][None]
  OBVIOUS
<1>1. TaskStep(t, None, k)
  BY DEF TaskStep, TasksInv
<1>2. 1 <= Len(calls[t]) /\ <<>> \in Seq(Calls)
  BY OldestIs
<1>3. \A i \in 1..Len(<<>>) : <<>>[i].task \in {None, None}
  OBVIOUS
<1>4. \A i \in DOMAIN calls'[t] : calls'[t][i].task = None => LinkOK(t, i)'
  BY DEF LinkOK
<1>. QED  BY <1>1, <1>2, <1>3, <1>4, QueueLinks

-----------------------------------------------------------------------------
(***************************************************************************)
(* The client keeps the invariant.                                         *)
(***************************************************************************)

LEMMA StoreStays ==
  ASSUME DashboardInv, UNCHANGED store, AskedGrows
  PROVE  StoreInv' /\ SavedInv' /\ used' = used
BY DEF DashboardInv, StoreInv, SavedInv, AskedGrows, store

LEMMA TabsKeep ==
  ASSUME TabsInv, used' = used, NEW t \in Tabs, NEW state, Show(t, state), TabOK(state)
  PROVE  TabsInv'
<1>1. /\ DOMAIN tab' = Tabs /\ tab'[t] = state
      /\ \A u \in Tabs \ {t} : tab'[u] = tab[u]
  BY DEF TabsInv, Show
<1>2. ASSUME NEW other, TabOK(other)
      PROVE  TabOK(other)'
  BY <1>2 DEF TabOK, Listed
<1>3. ASSUME NEW u \in Tabs
      PROVE  TabOK(tab[u])'
  <2>1. PICK other : other = tab'[u]
    OBVIOUS
  <2>2. TabOK(other)
    BY <1>1, <2>1 DEF TabsInv
  <2>3. TabOK(other)'
    BY <1>2, <2>2
  <2>. QED  BY <2>1, <2>3
<1>. QED  BY <1>1, <1>3 DEF TabsInv

LEMMA TaskKinds ==
  ASSUME NEW k \in Tasks
  PROVE  /\ k.kind = "ask" => k \in AskTask
         /\ k.kind = "delete" => k \in DeleteTask
         /\ k.kind \in {"select", "rename"} => k.conv \in used
<1>1. CASE k = NoTask
  BY <1>1 DEF NoTask
<1>2. CASE k \in [kind : {"new"}]
  BY <1>2
<1>3. CASE k \in [kind : {"select", "rename"}, conv : used]
  BY <1>3
<1>4. CASE k \in AskTask
  BY <1>4 DEF AskTask
<1>5. CASE k \in DeleteTask
  BY <1>5 DEF DeleteTask
<1>. QED  BY <1>1, <1>2, <1>3, <1>4, <1>5 DEF Tasks

LEMMA TasksKeep ==
  ASSUME TasksInv, AskedGrows, used' = used, NEW t \in Tabs, NEW s \in Slots, NEW k,
         k \in Tasks', k.kind = "ask" => k.conv = asked'[k.question], TaskStep(t, s, k),
         task' = [task EXCEPT ![t][s] = k]
  PROVE  TasksInv'
<1>1. Tasks \subseteq Tasks'
  BY ZenonT(60) DEF Tasks, AskTask, DeleteTask, AskedGrows
<1>2. task' \in [Tabs -> [Slots -> Tasks']]
  BY <1>1 DEF TasksInv
<1>3. ASSUME NEW u \in Tabs, NEW r \in Slots, task'[u][r].kind = "ask"
      PROVE  task'[u][r].conv = asked'[task'[u][r].question]
  <2>1. CASE u = t /\ r = s
    BY <1>3, <2>1 DEF TaskStep
  <2>2. CASE u # t \/ r # s
    <3>1. task'[u][r] = task[u][r] /\ task[u][r] \in Tasks
      BY <2>2 DEF TaskStep, TasksInv
    <3>2. task[u][r].question \in DOMAIN asked
      BY <1>3, <3>1, TaskKinds DEF AskTask
    <3>. QED  BY <1>3, <3>1, <3>2 DEF TasksInv, AskedGrows
  <2>. QED  BY <2>1, <2>2
<1>. QED  BY <1>2, <1>3 DEF TasksInv

\* Steps of a page that call nothing.
LEMMA ShowKeeps ==
  ASSUME DashboardInv, NEW t \in Tabs, NEW state, Show(t, state), TabOK(state),
         UNCHANGED <<serverVars, task, asked>>
  PROVE  DashboardInv'
<1>1. AskedGrows /\ UNCHANGED store /\ UNCHANGED <<calls, task, asked>>
  BY DEF AskedGrows, serverVars
<1>2. StoreInv' /\ SavedInv' /\ used' = used
  BY <1>1, StoreStays
<1>3. TabsInv'
  BY <1>2, TabsKeep DEF DashboardInv
<1>4. AskedInv' /\ TasksInv'
  BY <1>1, <1>2, ZenonT(60) DEF DashboardInv, AskedInv, TasksInv, Tasks, AskTask, DeleteTask
<1>5. CallsInv'
  BY <1>1, <1>2 DEF DashboardInv, CallsInv, CallOK
<1>6. LinksInv'
  <2>1. LinksInv /\ UNCHANGED <<calls, task, asked>>
    BY <1>1 DEF DashboardInv
  <2>. QED  BY ONLY <2>1 DEF LinksInv, LinkOK
<1>. QED  BY <1>2, <1>3, <1>4, <1>5, <1>6 DEF DashboardInv

\* A handler begins and awaits one call.
LEMMA StartKeeps ==
  ASSUME DashboardInv, NEW t \in Tabs, NEW s \in Slots, task[t][s] = NoTask,
         NEW k, NEW c \in Calls, Await(t, s, k, <<c>>), UNCHANGED store, AskedGrows,
         AskedInv', TabsInv', k \in Tasks', k # NoTask, ~(k.kind = "ask" /\ k.pc = "chat"),
         k.kind = "ask" => k.conv = asked'[k.question],
         k.kind = "new" \/ (k.kind = "delete" /\ k.pc = "creating") => c.op = "create",
         c.task = s, c.stage = "sent", c.op # "append"
  PROVE  DashboardInv'
<1>1. StoreInv' /\ SavedInv' /\ used' = used
  BY StoreStays
<1>2. <<c>> \in Seq(Calls)
  OBVIOUS
<1>3. QueueStep(t, 0, <<c>>) /\ TaskStep(t, s, k)
  BY <1>2, AwaitStep DEF DashboardInv
<1>4. task' = [task EXCEPT ![t][s] = k]
  BY DEF Await
<1>5. TasksInv'
  BY <1>1, <1>3, <1>4, TasksKeep DEF DashboardInv
<1>6. calls[t] \in Seq(Calls) /\ 0 <= Len(calls[t])
  BY DEF DashboardInv, CallsInv
<1>7. CallsInv'
  <2>1. \A i \in 1..Len(<<c>>) : CallOK(<<c>>[i])'
    BY DEF CallOK
  <2>. QED  BY <1>1, <1>2, <1>3, <1>6, <2>1, QueueCalls DEF DashboardInv
<1>8. LinksInv'
  <2>1. \A i \in DOMAIN calls[t] : i > 0 => calls[t][i].task # s \/ s = None
    BY DEF DashboardInv, LinksInv, LinkOK
  <2>. QED  BY <1>3, <1>6, <2>1, SoleLinks DEF DashboardInv
<1>. QED  BY <1>1, <1>5, <1>7, <1>8 DEF DashboardInv

\* A handler ends.
LEMMA FinishKeeps ==
  ASSUME DashboardInv, NEW t \in Tabs, calls[t] # <<>>, Oldest(t).task # None, Finish(t),
         UNCHANGED <<store, asked>>, TabsInv'
  PROVE  DashboardInv'
<1>. PICK s : s = Oldest(t).task
  OBVIOUS
<1>1. AskedGrows /\ StoreInv' /\ SavedInv' /\ used' = used
  BY StoreStays DEF AskedGrows
<1>2. QueueStep(t, 1, <<>>) /\ TaskStep(t, s, NoTask) /\ s \in Slots
  BY FinishStep DEF DashboardInv
<1>3. TasksInv'
  <2>1. NoTask \in Tasks' /\ NoTask.kind # "ask"
    BY DEF Tasks, NoTask
  <2>2. task' = [task EXCEPT ![t][s] = NoTask]
    BY DEF Finish
  <2>. QED  BY <1>1, <1>2, <2>1, <2>2, TasksKeep DEF DashboardInv
<1>4. CallsInv'
  <2>1. 1 <= Len(calls[t]) /\ <<>> \in Seq(Calls)
    BY OldestIs DEF DashboardInv
  <2>2. \A i \in 1..Len(<<>>) : CallOK(<<>>[i])'
    OBVIOUS
  <2>. QED  BY <1>1, <1>2, <2>1, <2>2, QueueCalls DEF DashboardInv
<1>5. LinksInv'
  BY FinishLinks DEF DashboardInv
<1>6. AskedInv'
  BY <1>1 DEF DashboardInv, AskedInv
<1>. QED  BY <1>1, <1>3, <1>4, <1>5, <1>6 DEF DashboardInv

\* handleAsk goes on to its next await.
LEMMA AskGoesOn ==
  ASSUME DashboardInv, NEW t \in Tabs, calls[t] # <<>>, Oldest(t).task # None,
         Waiting(t).kind = "ask", NEW k, k.question = Waiting(t).question,
         k.conv = Waiting(t).conv, k \in AskTask, Resume(t, k, <<>>),
         Saving(k) \/ ~Saving(Waiting(t)),
         UNCHANGED <<store, tab, asked>>
  PROVE  DashboardInv'
<1>. PICK s : s = Oldest(t).task
  OBVIOUS
<1>1. s # None /\ task[t][s].kind = "ask" /\ Waiting(t) = task[t][s]
  BY DEF Waiting
<1>2. AskedGrows /\ StoreInv' /\ SavedInv' /\ used' = used
  BY StoreStays DEF AskedGrows
<1>3. <<>> \in Seq(Calls) /\ 1 <= Len(calls[t])
  BY OldestIs DEF DashboardInv
<1>4. QueueStep(t, 1, <<>>) /\ TaskStep(t, s, k) /\ s \in Slots
  BY <1>1, <1>3, ResumeStep DEF DashboardInv
<1>5. task[t][s] \in AskTask /\ task[t][s].conv = asked[task[t][s].question]
  BY <1>1, <1>4, TaskKinds DEF DashboardInv, TasksInv
<1>6. k.kind = "ask" /\ k.conv = asked[k.question]
  BY <1>1, <1>5 DEF AskTask
<1>7. TasksInv'
  <2>1. k \in Tasks' /\ k.conv = asked'[k.question]
    BY <1>2, <1>6 DEF Tasks, AskTask
  <2>2. task' = [task EXCEPT ![t][s] = k]
    BY DEF Resume
  <2>. QED  BY <1>2, <1>4, <2>1, <2>2, TasksKeep DEF DashboardInv
<1>8. CallsInv'
  <2>1. \A i \in 1..Len(<<>>) : CallOK(<<>>[i])'
    OBVIOUS
  <2>. QED  BY <1>2, <1>3, <1>4, <2>1, QueueCalls DEF DashboardInv
<1>9. LinksInv'
  <2>1. \A i \in 1..Len(<<>>) : <<>>[i].task \in {s, None}
    OBVIOUS
  <2>2. CASE Saving(k)
    BY <1>3, <1>4, <2>1, <2>2, AskLinks DEF DashboardInv
  <2>3. CASE ~Saving(task[t][s])
    <3>1. LinkOK(t, 1) /\ calls[t][1].task = s
      BY OldestIs DEF DashboardInv, LinksInv
    <3>2. \A i \in DOMAIN calls'[t] : calls'[t][i].task # s
      BY <1>1, <1>4, <2>3, <3>1, NoneLeft DEF DashboardInv
    <3>3. \A i \in DOMAIN calls'[t] : calls'[t][i].task = s => LinkOK(t, i)'
      BY <3>2
    <3>. QED  BY <1>3, <1>4, <2>1, <3>3, QueueLinks DEF DashboardInv
  <2>. QED  BY <1>1, <2>2, <2>3
<1>10. AskedInv' /\ TabsInv'
  BY <1>2 DEF DashboardInv, AskedInv, TabsInv, TabOK, Listed
<1>. QED  BY <1>2, <1>7, <1>8, <1>9, <1>10 DEF DashboardInv

LEMMA VisitKeeps ==
  ASSUME DashboardInv, NEW t \in Tabs, Visit(t)
  PROVE  DashboardInv'
<1>1. CASE VisitFind(t)
  <2>. PICK state : state = [pc |-> "rendering", list |-> recent]
    OBVIOUS
  <2>1. Show(t, state) /\ UNCHANGED <<serverVars, task, asked>> /\ recent # <<>>
    BY <1>1 DEF VisitFind
  <2>2. TabOK(state)
    BY <2>1 DEF TabOK, Listed, DashboardInv, StoreInv
  <2>. QED  BY <2>1, <2>2, ShowKeeps
<1>2. CASE VisitFindsNone(t)
  <2>. PICK state : state = [pc |-> "creating"]
    OBVIOUS
  <2>1. Show(t, state) /\ UNCHANGED <<serverVars, task, asked>>
    BY <1>2 DEF VisitFindsNone
  <2>2. TabOK(state)
    BY DEF TabOK
  <2>. QED  BY <2>1, <2>2, ShowKeeps
<1>3. CASE VisitFails(t)
  <2>. PICK state : state = [pc |-> "closed"]
    OBVIOUS
  <2>1. Show(t, state) /\ UNCHANGED <<serverVars, task, asked>>
    BY <1>3 DEF VisitFails
  <2>2. TabOK(state)
    BY DEF TabOK
  <2>. QED  BY <2>1, <2>2, ShowKeeps
<1>4. ASSUME NEW c \in Ids, VisitCreate(t, c)
      PROVE  DashboardInv'
  <2>. PICK state : state = [pc |-> "rendering", list |-> <<c>>]
    OBVIOUS
  <2>1. Create(c) /\ Show(t, state) /\ UNCHANGED <<calls, task, asked>>
    BY <1>4 DEF VisitCreate
  <2>2. StoreInv' /\ SavedInv' /\ used \subseteq used' /\ c \in used'
    BY <2>1, CreateKeeps DEF DashboardInv
  <2>3. Seq(used) \subseteq Seq(used') /\ Listed \subseteq Listed' /\ Tasks \subseteq Tasks'
    BY <2>1, <2>2, LongerLists DEF Tasks, AskTask, DeleteTask
  <2>4. AskedInv' /\ TasksInv'
    BY <2>1, <2>2, <2>3 DEF DashboardInv, AskedInv, TasksInv
  <2>5. CallsInv' /\ LinksInv'
    <3>1. CallsInv /\ LinksInv /\ UNCHANGED <<calls, task, asked>>
      BY <2>1 DEF DashboardInv
    <3>2. CallsInv'
      BY ONLY <2>2, <3>1 DEF CallsInv, CallOK
    <3>3. LinksInv'
      BY ONLY <3>1 DEF LinksInv, LinkOK
    <3>. QED  BY <3>2, <3>3
  <2>6. TabsInv'
    <3>1. /\ DOMAIN tab' = Tabs /\ tab'[t] = state
          /\ \A u \in Tabs \ {t} : tab'[u] = tab[u]
      BY <2>1 DEF DashboardInv, TabsInv, Show
    <3>2. TabOK(tab[t])'
      BY <2>2, <3>1 DEF TabOK, Listed
    <3>3. \A u \in Tabs \ {t} : TabOK(tab[u])'
      BY <2>2, <2>3, <3>1 DEF DashboardInv, TabsInv, TabOK
    <3>. QED  BY <3>1, <3>2, <3>3 DEF TabsInv
  <2>. QED  BY <2>2, <2>4, <2>5, <2>6 DEF DashboardInv
<1>5. CASE VisitLoad(t)
  <2>. PICK state : state = [pc |-> "open", list |-> tab[t].list, active |-> Head(tab[t].list),
                             turns |-> IF Exists(Head(tab[t].list))
                                       THEN messages[Head(tab[t].list)] ELSE <<>>,
                             loading |-> FALSE, switching |-> FALSE]
    OBVIOUS
  <2>. PICK c : c = Call(None, "token", None, None)
    OBVIOUS
  <2>1. /\ tab[t].pc = "rendering" /\ Show(t, state) /\ UNCHANGED <<store, task, asked>>
        /\ calls' = [calls EXCEPT ![t] = Append(@, c)]
    BY <1>5 DEF VisitLoad
  <2>2. AskedGrows /\ StoreInv' /\ SavedInv' /\ used' = used
    BY <2>1, StoreStays DEF AskedGrows
  <2>3. tab[t].list \in Seq(used) /\ tab[t].list # <<>>
    BY <2>1 DEF DashboardInv, TabsInv, TabOK, Listed
  <2>4. TabOK(state)
    BY <2>3 DEF TabOK, Listed
  <2>5. TabsInv'
    BY <2>1, <2>2, <2>4, TabsKeep DEF DashboardInv
  <2>6. /\ c \in Calls /\ c.task = None /\ c.op = "token"
    BY DEF Call, Calls, Results
  <2>7. QueueStep(t, 0, <<c>>)
    <3>1. calls \in [Tabs -> Seq(Calls)] /\ calls[t] \in Seq(Calls)
      BY DEF DashboardInv, CallsInv
    <3>. PICK queue, later : queue = calls[t] /\ later = Append(queue, c)
      OBVIOUS
    <3>2. /\ later \in Seq(Calls) /\ DOMAIN later = 1..(Len(queue) + 1)
          /\ \A i \in 1..Len(queue) : later[i] = queue[i]
          /\ later[Len(queue) + 1] = c
      BY <2>6, <3>1
    <3>3. Follows(later, queue, 0, <<c>>)
      BY <3>1, <3>2 DEF Follows
    <3>. QED  BY <2>1, <3>1, <3>2, <3>3 DEF QueueStep
  <2>8. <<c>> \in Seq(Calls) /\ 0 <= Len(calls[t])
    BY <2>6 DEF DashboardInv, CallsInv
  <2>9. CallsInv'
    <3>1. \A i \in 1..Len(<<c>>) : CallOK(<<c>>[i])'
      BY <2>6 DEF CallOK
    <3>. QED  BY <2>2, <2>7, <2>8, <3>1, QueueCalls DEF DashboardInv
  <2>10. LinksInv'
    <3>. PICK k : k = task[t][None]
      OBVIOUS
    <3>1. TaskStep(t, None, k)
      BY <2>1 DEF TaskStep, DashboardInv, TasksInv
    <3>2. \A i \in 1..Len(<<c>>) : <<c>>[i].task \in {None, None}
      BY <2>6
    <3>3. \A i \in DOMAIN calls'[t] : calls'[t][i].task = None => LinkOK(t, i)'
      BY DEF LinkOK
    <3>. QED  BY <2>7, <2>8, <3>1, <3>2, <3>3, QueueLinks DEF DashboardInv
  <2>11. AskedInv' /\ TasksInv'
    BY <2>1, <2>2 DEF DashboardInv, AskedInv, TasksInv, Tasks, AskTask, DeleteTask
  <2>. QED  BY <2>2, <2>5, <2>9, <2>10, <2>11 DEF DashboardInv
<1>. QED  BY <1>1, <1>2, <1>3, <1>4, <1>5 DEF Visit

\* A call about a conversation the tab knows.
LEMMA CallIs ==
  ASSUME NEW s \in Slots, NEW op \in {"token", "load", "create", "rename", "delete"},
         NEW c \in Ids \cup {None}
  PROVE  /\ Call(s, op, c, None) \in Calls /\ Call(s, op, c, None).task = s
         /\ Call(s, op, c, None).op = op /\ Call(s, op, c, None).stage = "sent"
BY DEF Call, Calls, Results

LEMMA ListedKnown ==
  ASSUME DashboardInv, NEW t \in Tabs, tab[t].pc = "open"
  PROVE  /\ tab[t].list \in Listed /\ tab[t].active \in used
         /\ \A c \in ToSet(tab[t].list) : c \in used /\ c \in Ids
<1>1. tab[t].list \in Seq(used) /\ tab[t].list \in Listed /\ tab[t].active \in used
  BY DEF DashboardInv, TabsInv, TabOK, Listed
<1>. QED  BY <1>1 DEF ToSet, DashboardInv, StoreInv

LEMMA ActKeeps ==
  ASSUME DashboardInv, NEW t \in Tabs, Act(t)
  PROVE  DashboardInv'
<1>. PICK s \in Slots :
        \/ \E q \in Questions : StartAsk(t, s, q)
        \/ StartNew(t, s)
        \/ tab[t].pc = "open" /\ \E c \in ToSet(tab[t].list) :
                StartSelect(t, s, c) \/ StartRename(t, s, c) \/ StartDelete(t, s, c)
  BY DEF Act
<1>0. TabOK(tab[t])
  BY DEF DashboardInv, TabsInv
<1>1. ASSUME NEW q \in Questions, StartAsk(t, s, q)
      PROVE  DashboardInv'
  <2>. PICK k, c : /\ k = [kind |-> "ask", pc |-> "token", question |-> q, conv |-> AskIn(t)]
                   /\ c = Call(s, "token", None, None)
    OBVIOUS
  <2>. PICK state : state = [tab[t] EXCEPT !.turns = Append(@, Message(q, "user")),
                                           !.loading = TRUE]
    OBVIOUS
  <2>1. /\ tab[t].pc = "open" /\ task[t][s] = NoTask /\ q \notin DOMAIN asked
        /\ asked' = [p \in DOMAIN asked \cup {q} |-> IF p = q THEN tab[t].active ELSE asked[p]]
        /\ Show(t, state) /\ Await(t, s, k, <<c>>) /\ UNCHANGED store
    BY <1>1 DEF StartAsk, MayStart, AskCalls
  <2>2. tab[t].active \in used
    BY <2>1, ListedKnown
  <2>3. AskedGrows /\ used' = used
    BY <2>1 DEF AskedGrows, store
  <2>4. AskedInv' /\ asked'[q] = tab[t].active /\ q \in DOMAIN asked'
    BY <2>1, <2>2, <2>3 DEF DashboardInv, AskedInv
  <2>5. TabOK(state)
    BY <1>0 DEF TabOK
  <2>6. TabsInv'
    BY <2>1, <2>3, <2>5, TabsKeep DEF DashboardInv
  <2>7. /\ k \in Tasks' /\ k # NoTask /\ k.kind = "ask" /\ k.conv = asked'[k.question]
        /\ k.pc = "token"
    BY <2>2, <2>3, <2>4 DEF Tasks, AskTask, NoTask, AskIn
  <2>8. c \in Calls /\ c.task = s /\ c.op = "token" /\ c.stage = "sent"
    BY CallIs
  <2>. QED  BY <2>1, <2>3, <2>4, <2>6, <2>7, <2>8, StartKeeps
<1>2. CASE StartNew(t, s)
  <2>. PICK k, c : k = [kind |-> "new"] /\ c = Call(s, "create", None, None)
    OBVIOUS
  <2>. PICK state : state = [tab[t] EXCEPT !.switching = TRUE]
    OBVIOUS
  <2>1. /\ task[t][s] = NoTask /\ Show(t, state) /\ Await(t, s, k, <<c>>)
        /\ UNCHANGED store /\ UNCHANGED asked
    BY <1>2 DEF StartNew, MayStart
  <2>2. AskedGrows /\ used' = used /\ AskedInv'
    BY <2>1 DEF AskedGrows, store, DashboardInv, AskedInv
  <2>3. TabOK(state)
    BY <1>0 DEF TabOK
  <2>4. TabsInv'
    BY <2>1, <2>2, <2>3, TabsKeep DEF DashboardInv
  <2>5. k \in Tasks' /\ k # NoTask /\ k.kind = "new"
    BY DEF Tasks, NoTask
  <2>6. c \in Calls /\ c.task = s /\ c.op = "create" /\ c.stage = "sent"
    BY CallIs
  <2>. QED  BY <2>1, <2>2, <2>4, <2>5, <2>6, StartKeeps
<1>3. ASSUME tab[t].pc = "open", NEW d \in ToSet(tab[t].list), StartSelect(t, s, d)
      PROVE  DashboardInv'
  <2>. PICK k, c : k = [kind |-> "select", conv |-> d] /\ c = Call(s, "load", d, None)
    OBVIOUS
  <2>. PICK state : state = [tab[t] EXCEPT !.switching = TRUE]
    OBVIOUS
  <2>1. /\ task[t][s] = NoTask /\ Show(t, state) /\ Await(t, s, k, <<c>>)
        /\ UNCHANGED store /\ UNCHANGED asked
    BY <1>3 DEF StartSelect, MayStart
  <2>2. AskedGrows /\ used' = used /\ AskedInv'
    BY <2>1 DEF AskedGrows, store, DashboardInv, AskedInv
  <2>3. TabOK(state)
    BY <1>0 DEF TabOK
  <2>4. TabsInv'
    BY <2>1, <2>2, <2>3, TabsKeep DEF DashboardInv
  <2>5. d \in used /\ d \in Ids
    BY <1>3, ListedKnown
  <2>6. k \in Tasks' /\ k # NoTask /\ k.kind = "select"
    BY <2>2, <2>5 DEF Tasks, NoTask
  <2>7. c \in Calls /\ c.task = s /\ c.op = "load" /\ c.stage = "sent"
    BY <2>5, CallIs
  <2>. QED  BY <2>1, <2>2, <2>4, <2>6, <2>7, StartKeeps
<1>4. ASSUME tab[t].pc = "open", NEW d \in ToSet(tab[t].list), StartRename(t, s, d)
      PROVE  DashboardInv'
  <2>. PICK k, c : k = [kind |-> "rename", conv |-> d] /\ c = Call(s, "rename", d, None)
    OBVIOUS
  <2>1. /\ task[t][s] = NoTask /\ Await(t, s, k, <<c>>)
        /\ UNCHANGED store /\ UNCHANGED asked /\ UNCHANGED tab
    BY <1>4 DEF StartRename, MayStart
  <2>2. AskedGrows /\ used' = used /\ AskedInv'
    BY <2>1 DEF AskedGrows, store, DashboardInv, AskedInv
  <2>4. TabsInv'
    BY <2>1, <2>2 DEF DashboardInv, TabsInv, TabOK, Listed
  <2>5. d \in used /\ d \in Ids
    BY <1>4, ListedKnown
  <2>6. k \in Tasks' /\ k # NoTask /\ k.kind = "rename"
    BY <2>2, <2>5 DEF Tasks, NoTask
  <2>7. c \in Calls /\ c.task = s /\ c.op = "rename" /\ c.stage = "sent"
    BY <2>5, CallIs
  <2>. QED  BY <2>1, <2>2, <2>4, <2>6, <2>7, StartKeeps
<1>5. ASSUME tab[t].pc = "open", NEW d \in ToSet(tab[t].list), StartDelete(t, s, d)
      PROVE  DashboardInv'
  <2>. PICK k, c : /\ k = [kind |-> "delete", pc |-> "deleting", conv |-> d,
                           list |-> tab[t].list, active |-> tab[t].active]
                   /\ c = Call(s, "delete", d, None)
    OBVIOUS
  <2>1. /\ task[t][s] = NoTask /\ Await(t, s, k, <<c>>)
        /\ UNCHANGED store /\ UNCHANGED asked /\ UNCHANGED tab
    BY <1>5 DEF StartDelete, MayStart
  <2>2. AskedGrows /\ used' = used /\ AskedInv'
    BY <2>1 DEF AskedGrows, store, DashboardInv, AskedInv
  <2>4. TabsInv'
    BY <2>1, <2>2 DEF DashboardInv, TabsInv, TabOK, Listed
  <2>5. d \in used /\ d \in Ids /\ tab[t].list \in Seq(used) /\ tab[t].active \in used
    BY <1>5, ListedKnown DEF Listed
  <2>6. k \in Tasks' /\ k # NoTask /\ k.kind = "delete" /\ k.pc = "deleting"
    BY <2>2, <2>5 DEF Tasks, DeleteTask, NoTask
  <2>7. c \in Calls /\ c.task = s /\ c.op = "delete" /\ c.stage = "sent"
    BY <2>5, CallIs
  <2>. QED  BY <2>1, <2>2, <2>4, <2>6, <2>7, StartKeeps
<1>. QED  BY <1>1, <1>2, <1>3, <1>4, <1>5

\* The handler that is answered.
LEMMA AnsweredIs ==
  ASSUME DashboardInv, NEW t \in Tabs, NEW kind, NEW stage, Awaited(t, kind, stage)
  PROVE  /\ calls[t] # <<>> /\ Oldest(t).task # None /\ Oldest(t).task \in Slots
         /\ Oldest(t).stage = stage
         /\ Waiting(t).kind = kind /\ Waiting(t) \in Tasks
         /\ TabOK(tab[t])
         /\ LinkOK(t, 1) /\ CallOK(Oldest(t)) /\ Oldest(t) = calls[t][1]
<1>1. calls[t] # <<>> /\ Oldest(t).task # None /\ Waiting(t).kind = kind /\ Oldest(t).stage = stage
  BY DEF Awaited, At, Waiting
<1>2. Oldest(t) \in Calls /\ CallOK(Oldest(t)) /\ Oldest(t) = calls[t][1] /\ 1 \in DOMAIN calls[t]
  BY <1>1, OldestIs DEF DashboardInv
<1>3. Oldest(t).task \in Slots
  BY <1>1, <1>2 DEF Calls
<1>4. Waiting(t) \in Tasks
  BY <1>3 DEF Waiting, DashboardInv, TasksInv
<1>5. LinkOK(t, 1) /\ TabOK(tab[t])
  BY <1>2 DEF DashboardInv, LinksInv, TabsInv
<1>. QED  BY <1>1, <1>2, <1>3, <1>4, <1>5

\* A handler shows something and ends.
LEMMA EndKeeps ==
  ASSUME DashboardInv, NEW t \in Tabs, NEW kind, NEW stage, Awaited(t, kind, stage),
         NEW state, Show(t, state), TabOK(state), Finish(t), UNCHANGED <<store, asked>>
  PROVE  DashboardInv'
<1>1. used' = used
  BY DEF store
<1>2. TabsInv'
  BY <1>1, TabsKeep DEF DashboardInv
<1>. QED  BY <1>2, AnsweredIs, FinishKeeps

LEMMA TouchedIs ==
  ASSUME NEW list \in Listed, NEW c \in used
  PROVE  Touched(list, c) \in Listed
BY ToFrontIs DEF Touched, Listed

LEMMA FailedOK ==
  ASSUME NEW t \in Tabs, TabOK(tab[t]), NEW q
  PROVE  TabOK(Failed(t, q))
BY DEF Failed, TabOK

\* handleAsk.
LEMMA AskReturns ==
  ASSUME DashboardInv, NEW t \in Tabs,
         TokenReturns(t) \/ TokenFails(t) \/ SavedOne(t) \/ SavedBoth(t) \/ SaveFails(t)
  PROVE  DashboardInv'
<1>1. ASSUME NEW stage, Awaited(t, "ask", stage), NEW next \in {"chat", "saved one"},
             Resume(t, [Waiting(t) EXCEPT !.pc = next], <<>>), UNCHANGED <<store, tab, asked>>,
             next = "saved one" \/ Waiting(t).pc = "token"
      PROVE  DashboardInv'
  <2>1. /\ calls[t] # <<>> /\ Oldest(t).task # None /\ Waiting(t).kind = "ask"
        /\ Waiting(t) \in AskTask
    BY <1>1, AnsweredIs, TaskKinds
  <2>2. /\ [Waiting(t) EXCEPT !.pc = next] \in AskTask
        /\ [Waiting(t) EXCEPT !.pc = next].question = Waiting(t).question
        /\ [Waiting(t) EXCEPT !.pc = next].conv = Waiting(t).conv
        /\ [Waiting(t) EXCEPT !.pc = next].pc = next
    BY <2>1 DEF AskTask
  <2>3. PICK k : /\ k \in AskTask /\ k.question = Waiting(t).question /\ k.conv = Waiting(t).conv
                 /\ k.pc = next /\ Resume(t, k, <<>>)
    BY <1>1, <2>2
  <2>4. Saving(k) \/ ~Saving(Waiting(t))
    BY <1>1, <2>3 DEF Saving, AskTask
  <2>. QED  BY <1>1, <2>1, <2>3, <2>4, AskGoesOn
<1>2. CASE TokenReturns(t)
  BY <1>1, <1>2 DEF TokenReturns
<1>3. CASE TokenFails(t)
  <2>1. TabOK(Failed(t, Waiting(t).question))
    BY <1>3, AnsweredIs, FailedOK DEF TokenFails
  <2>. QED  BY <1>3, <2>1, EndKeeps DEF TokenFails
<1>4. CASE SavedOne(t)
  BY <1>1, <1>4 DEF SavedOne
<1>5. CASE SavedBoth(t)
  <2>1. TabOK(tab[t]) /\ Waiting(t) \in AskTask
    BY <1>5, AnsweredIs, TaskKinds DEF SavedBoth
  <2>2. Waiting(t).conv \in used
    BY <2>1 DEF AskTask
  <2>3. "list" \in DOMAIN tab[t] => Touched(tab[t].list, Waiting(t).conv) \in Listed
    BY <2>1, <2>2, TouchedIs DEF TabOK
  <2>4. TabOK([tab[t] EXCEPT !.list = Touched(@, Waiting(t).conv), !.loading = FALSE])
    BY <2>1, <2>3 DEF TabOK
  <2>. QED  BY <1>5, <2>4, EndKeeps DEF SavedBoth
<1>6. CASE SaveFails(t)
  <2>1. TabOK(tab[t])
    BY <1>6, AnsweredIs DEF SaveFails
  <2>2. TabOK([tab[t] EXCEPT !.loading = FALSE])
    BY <2>1 DEF TabOK
  <2>. QED  BY <1>6, <2>2, EndKeeps DEF SaveFails
<1>. QED  BY <1>2, <1>3, <1>4, <1>5, <1>6

\* handleNew, handleSelect and handleRename.
LEMMA NewKeeps ==
  ASSUME DashboardInv, NEW t \in Tabs, NewReturns(t)
  PROVE  DashboardInv'
<1>. PICK c : c = Oldest(t).result
  OBVIOUS
<1>1. Awaited(t, "new", "done")
  BY DEF NewReturns
<1>2. /\ TabOK(tab[t]) /\ LinkOK(t, 1) /\ CallOK(Oldest(t)) /\ Oldest(t) = calls[t][1]
      /\ Oldest(t).stage = "done" /\ Oldest(t).task # None /\ Waiting(t).kind = "new"
  BY <1>1, AnsweredIs
<1>3. Oldest(t).op = "create"
  BY <1>2 DEF LinkOK, Waiting
<1>4. c \in used
  BY <1>2, <1>3 DEF CallOK
<1>5. "list" \in DOMAIN tab[t] => <<c>> \o tab[t].list \in Listed
  BY <1>2, <1>4 DEF TabOK, Listed
<1>6. TabOK([tab[t] EXCEPT !.list = <<c>> \o @, !.active = c, !.turns = <<>>, !.switching = FALSE])
  BY <1>2, <1>4, <1>5 DEF TabOK
<1>. QED  BY <1>1, <1>6, EndKeeps DEF NewReturns

LEMMA SelectKeeps ==
  ASSUME DashboardInv, NEW t \in Tabs, SelectReturns(t)
  PROVE  DashboardInv'
<1>. PICK loaded : loaded = Oldest(t).result
  OBVIOUS
<1>. PICK state : state = IF loaded = None THEN [tab[t] EXCEPT !.switching = FALSE]
                          ELSE [tab[t] EXCEPT !.active = Waiting(t).conv, !.turns = loaded,
                                              !.switching = FALSE]
  OBVIOUS
<1>1. /\ Awaited(t, "select", "done") /\ Show(t, state) /\ Finish(t)
      /\ UNCHANGED <<store, asked>>
  BY DEF SelectReturns
<1>2. TabOK(tab[t]) /\ Waiting(t).conv \in used
  BY <1>1, AnsweredIs, TaskKinds
<1>3. TabOK([tab[t] EXCEPT !.switching = FALSE])
  BY <1>2 DEF TabOK
<1>4. TabOK([tab[t] EXCEPT !.active = Waiting(t).conv, !.turns = loaded, !.switching = FALSE])
  BY <1>2 DEF TabOK
<1>5. TabOK(state)
  BY <1>3, <1>4
<1>. QED  BY <1>1, <1>5, EndKeeps

LEMMA RenameKeeps ==
  ASSUME DashboardInv, NEW t \in Tabs, RenameReturns(t)
  PROVE  DashboardInv'
<1>1. Awaited(t, "rename", "done")
  BY DEF RenameReturns
<1>2. TabOK(tab[t]) /\ Waiting(t) \in Tasks /\ Waiting(t).kind = "rename"
  BY <1>1, AnsweredIs
<1>3. Waiting(t).conv \in used
  BY <1>2, TaskKinds
<1>4. "list" \in DOMAIN tab[t] => Touched(tab[t].list, Waiting(t).conv) \in Listed
  BY <1>2, <1>3, TouchedIs DEF TabOK
<1>5. TabOK([tab[t] EXCEPT !.list = Touched(@, Waiting(t).conv)])
  BY <1>2, <1>4 DEF TabOK
<1>. QED  BY <1>1, <1>5, EndKeeps DEF RenameReturns

LEMMA OthersKeep ==
  ASSUME DashboardInv, NEW t \in Tabs, OthersFail(t)
  PROVE  DashboardInv'
<1>1. PICK kind \in {"new", "select", "rename", "delete"} : Awaited(t, kind, "failed")
  BY DEF OthersFail
<1>2. TabOK(tab[t])
  BY <1>1, AnsweredIs
<1>3. TabOK([tab[t] EXCEPT !.switching =
                @ /\ (Waiting(t).kind = "rename" \/
                      (Waiting(t).kind = "delete" /\ Waiting(t).pc = "deleting"))])
  BY <1>2 DEF TabOK
<1>. QED  BY <1>1, <1>3, EndKeeps DEF OthersFail

\* handleDelete, which goes on with another call,
LEMMA DeleteGoesOn ==
  ASSUME DashboardInv, NEW t \in Tabs, Awaited(t, "delete", "done"),
         NEW k \in DeleteTask, NEW c \in Calls, Resume(t, k, <<c>>),
         c.task = Oldest(t).task, c.stage = "sent", c.op # "append",
         k.pc = "creating" => c.op = "create",
         NEW state, Show(t, state), TabOK(state), UNCHANGED <<store, asked>>
  PROVE  DashboardInv'
<1>. PICK s : s = Oldest(t).task
  OBVIOUS
<1>1. /\ calls[t] # <<>> /\ s # None /\ s \in Slots /\ task[t][s].kind = "delete"
      /\ LinkOK(t, 1) /\ calls[t][1].task = s
  BY AnsweredIs DEF Waiting
<1>2. AskedGrows /\ StoreInv' /\ SavedInv' /\ used' = used
  BY StoreStays DEF AskedGrows
<1>3. <<c>> \in Seq(Calls) /\ 1 <= Len(calls[t])
  BY <1>1, OldestIs DEF DashboardInv
<1>4. QueueStep(t, 1, <<c>>) /\ TaskStep(t, s, k)
  BY <1>1, <1>3, ResumeStep DEF DashboardInv
<1>5. k \in Tasks /\ k.kind = "delete" /\ k # NoTask
  BY DEF Tasks, DeleteTask, NoTask
<1>6. TasksInv'
  <2>1. k \in Tasks'
    BY <1>2, <1>5 DEF Tasks, AskTask, DeleteTask
  <2>2. task' = [task EXCEPT ![t][s] = k]
    BY DEF Resume
  <2>. QED  BY <1>1, <1>2, <1>4, <1>5, <2>1, <2>2, TasksKeep DEF DashboardInv
<1>7. CallsInv'
  <2>1. \A i \in 1..Len(<<c>>) : CallOK(<<c>>[i])'
    BY DEF CallOK
  <2>. QED  BY <1>2, <1>3, <1>4, <2>1, QueueCalls DEF DashboardInv
<1>8. LinksInv'
  <2>1. ~Saving(task[t][s])
    BY <1>1 DEF Saving
  <2>2. \A i \in DOMAIN calls[t] : i > 1 => calls[t][i].task # s \/ s = None
    BY <1>1, <2>1 DEF LinkOK
  <2>. QED  BY <1>1, <1>3, <1>4, <1>5, <2>2, SoleLinks DEF DashboardInv
<1>9. TabsInv'
  BY <1>2, TabsKeep DEF DashboardInv
<1>10. AskedInv'
  BY <1>2 DEF DashboardInv, AskedInv
<1>. QED  BY <1>2, <1>6, <1>7, <1>8, <1>9, <1>10 DEF DashboardInv

\* once its deletion is done, with what remains of the list it captured,
LEMMA DeleteKeeps ==
  ASSUME DashboardInv, NEW t \in Tabs, DeleteReturns(t)
  PROVE  DashboardInv'
<1>. PICK w, s, left : w = Waiting(t) /\ s = Oldest(t).task /\ left = Remaining(Waiting(t))
  OBVIOUS
<1>1. Awaited(t, "delete", "done") /\ UNCHANGED <<store, asked>>
  BY DEF DeleteReturns
<1>2. TabOK(tab[t]) /\ w \in DeleteTask /\ s \in Slots
  BY <1>1, AnsweredIs, TaskKinds
<1>3. left \in Seq(used)
  BY <1>2, WithoutOfUsed DEF Remaining, DeleteTask
<1>4. CASE /\ left = <<>>
           /\ Show(t, [tab[t] EXCEPT !.switching = TRUE])
           /\ Resume(t, [w EXCEPT !.pc = "creating"], <<Call(s, "create", None, None)>>)
  <2>1. TabOK([tab[t] EXCEPT !.switching = TRUE])
    BY <1>2 DEF TabOK
  <2>2. [w EXCEPT !.pc = "creating"] \in DeleteTask
    BY <1>2 DEF DeleteTask
  <2>. QED  BY <1>1, <1>2, <1>4, <2>1, <2>2, CallIs, DeleteGoesOn
<1>5. CASE /\ left # <<>>
           /\ Show(t, [tab[t] EXCEPT !.list = left, !.switching = TRUE])
           /\ Resume(t, [w EXCEPT !.pc = "loading", !.conv = Head(left)],
                     <<Call(s, "load", Head(left), None)>>)
  <2>1. left \in Listed /\ Head(left) \in used /\ Head(left) \in Ids
    BY <1>3, <1>5 DEF Listed, DashboardInv, StoreInv
  <2>2. TabOK([tab[t] EXCEPT !.list = left, !.switching = TRUE])
    BY <1>2, <2>1 DEF TabOK
  <2>3. PICK next : next = Head(left)
    OBVIOUS
  <2>4. /\ [w EXCEPT !.pc = "loading", !.conv = next] \in DeleteTask
        /\ [w EXCEPT !.pc = "loading", !.conv = next].pc = "loading"
    BY <1>2, <2>1, <2>3 DEF DeleteTask
  <2>5. PICK k \in DeleteTask : k.pc = "loading" /\ Resume(t, k, <<Call(s, "load", next, None)>>)
    BY <1>5, <2>3, <2>4
  <2>6. /\ Call(s, "load", next, None) \in Calls /\ Call(s, "load", next, None).task = s
        /\ Call(s, "load", next, None).op = "load" /\ Call(s, "load", next, None).stage = "sent"
    BY <1>2, <2>1, <2>3, CallIs
  <2>. QED  BY <1>1, <1>5, <2>2, <2>5, <2>6, DeleteGoesOn
<1>6. CASE Show(t, [tab[t] EXCEPT !.list = left]) /\ left # <<>> /\ Finish(t)
  <2>1. left \in Listed
    BY <1>3, <1>6 DEF Listed
  <2>2. TabOK([tab[t] EXCEPT !.list = left])
    BY <1>2, <2>1 DEF TabOK
  <2>. QED  BY <1>1, <1>6, <2>2, EndKeeps
<1>. QED  BY <1>4, <1>5, <1>6 DEF DeleteReturns

\* and with the conversation it then creates or loads.
LEMMA DeleteEnds ==
  ASSUME DashboardInv, NEW t \in Tabs, DeleteCreated(t) \/ DeleteLoaded(t)
  PROVE  DashboardInv'
<1>. PICK c : c = Oldest(t).result
  OBVIOUS
<1>1. Awaited(t, "delete", "done")
  BY DEF DeleteCreated, DeleteLoaded
<1>2. /\ TabOK(tab[t]) /\ LinkOK(t, 1) /\ CallOK(Oldest(t)) /\ Oldest(t) = calls[t][1]
      /\ Oldest(t).stage = "done" /\ Oldest(t).task # None
      /\ Waiting(t).kind = "delete" /\ Waiting(t) \in DeleteTask
  BY <1>1, AnsweredIs, TaskKinds
<1>3. CASE DeleteCreated(t)
  <2>1. Oldest(t).op = "create"
    BY <1>2, <1>3 DEF LinkOK, Waiting, DeleteCreated
  <2>2. c \in used
    BY <1>2, <2>1 DEF CallOK
  <2>3. <<c>> \in Listed
    BY <2>2 DEF Listed
  <2>4. TabOK([tab[t] EXCEPT !.list = <<c>>, !.active = c, !.turns = <<>>, !.switching = FALSE])
    BY <1>2, <2>2, <2>3 DEF TabOK
  <2>. QED  BY <1>1, <1>3, <2>4, EndKeeps DEF DeleteCreated
<1>4. CASE DeleteLoaded(t)
  <2>1. Waiting(t).conv \in used
    BY <1>2 DEF DeleteTask
  <2>2. TabOK([tab[t] EXCEPT !.active = Waiting(t).conv, !.switching = FALSE,
                             !.turns = IF c = None THEN <<>> ELSE c])
    BY <1>2, <2>1 DEF TabOK
  <2>. QED  BY <1>1, <1>4, <2>2, EndKeeps DEF DeleteLoaded
<1>. QED  BY <1>3, <1>4

\* A response that no handler waits for.
LEMMA OrphanKeeps ==
  ASSUME DashboardInv, NEW t \in Tabs, OrphanReturns(t)
  PROVE  DashboardInv'
<1>1. /\ calls[t] # <<>> /\ calls' = [calls EXCEPT ![t] = Tail(@)]
      /\ UNCHANGED store /\ UNCHANGED <<tab, task, asked>>
  BY DEF OrphanReturns, clientVars
<1>2. AskedGrows /\ StoreInv' /\ SavedInv' /\ used' = used
  BY <1>1, StoreStays DEF AskedGrows
<1>0. <<>> \in Seq(Calls) /\ 1 <= Len(calls[t])
  BY <1>1, OldestIs DEF DashboardInv
<1>3. QueueStep(t, 1, <<>>)
  BY <1>1, OrphanStep DEF DashboardInv
<1>4. CallsInv'
  <2>1. \A i \in 1..Len(<<>>) : CallOK(<<>>[i])'
    OBVIOUS
  <2>. QED  BY <1>0, <1>2, <1>3, <2>1, QueueCalls DEF DashboardInv
<1>5. LinksInv'
  BY <1>1, <1>3, OrphanLinks DEF DashboardInv
<1>6. AskedInv' /\ TasksInv' /\ TabsInv'
  BY <1>1, <1>2 DEF DashboardInv, AskedInv, TasksInv, Tasks, AskTask, DeleteTask, TabsInv,
                    TabOK, Listed
<1>. QED  BY <1>2, <1>4, <1>5, <1>6 DEF DashboardInv

LEMMA ReturnKeeps ==
  ASSUME DashboardInv, NEW t \in Tabs, Return(t)
  PROVE  DashboardInv'
BY OrphanKeeps, AskReturns, NewKeeps, SelectKeeps, RenameKeeps, DeleteKeeps, DeleteEnds,
   OthersKeep DEF Return

\* The two calls that save a question and its answer.
LEMMA TurnCallsAre ==
  ASSUME NEW s \in Slots, NEW c \in Ids, NEW q \in Questions
  PROVE  /\ TurnCalls(s, c, q) \in Seq(Calls) /\ Len(TurnCalls(s, c, q)) = 2
         /\ \A i \in 1..2 : /\ TurnCalls(s, c, q)[i].task = s
                            /\ TurnCalls(s, c, q)[i].op = "append"
                            /\ TurnCalls(s, c, q)[i].conv = c
                            /\ TurnCalls(s, c, q)[i].msg \in Saved
                            /\ TurnCalls(s, c, q)[i].msg.question = q
                            /\ TurnCalls(s, c, q)[i].stage = "sent"
         /\ TurnCalls(s, c, q)[1].msg = Message(q, "user")
<1>. PICK first, second : /\ first = Call(s, "append", c, Message(q, "user"))
                          /\ second = Call(s, "append", c, Message(q, "assistant"))
  OBVIOUS
<1>1. /\ first \in Calls /\ first.task = s /\ first.op = "append" /\ first.conv = c
      /\ first.msg \in Saved /\ first.msg.question = q /\ first.stage = "sent"
      /\ first.msg = Message(q, "user")
  BY DEF Call, Calls, Message, Saved, Results
<1>2. /\ second \in Calls /\ second.task = s /\ second.op = "append" /\ second.conv = c
      /\ second.msg \in Saved /\ second.msg.question = q /\ second.stage = "sent"
  BY DEF Call, Calls, Message, Saved, Results
<1>3. TurnCalls(s, c, q) = <<first, second>>
  BY DEF TurnCalls
<1>. QED  BY <1>1, <1>2, <1>3

\* The handler that the agent answers.
LEMMA ChatIs ==
  ASSUME DashboardInv, NEW t \in Tabs, NEW s \in Slots, task[t][s].kind = "ask"
  PROVE  /\ task[t][s] \in AskTask /\ task[t][s].conv = asked[task[t][s].question]
         /\ task[t][s].conv \in Ids /\ task[t][s].question \in Questions
         /\ task[t][s].question \in DOMAIN asked
<1>1. task[t][s] \in AskTask /\ task[t][s].conv = asked[task[t][s].question]
  BY TaskKinds DEF DashboardInv, TasksInv
<1>. QED  BY <1>1 DEF AskTask, DashboardInv, StoreInv, AskedInv

LEMMA ChatKeeps ==
  ASSUME DashboardInv, NEW t \in Tabs, NEW s \in Slots, Chat(t, s)
  PROVE  DashboardInv'
<1>. PICK k, c, q : k = task[t][s] /\ c = task[t][s].conv /\ q = task[t][s].question
  OBVIOUS
<1>1. k.kind = "ask" /\ UNCHANGED store /\ UNCHANGED asked
  BY DEF Chat, ChatAnswers, ChatFails, serverVars, store
<1>2. k \in AskTask /\ c = asked[q] /\ c \in Ids /\ q \in Questions /\ q \in DOMAIN asked
  BY <1>1, ChatIs
<1>3. AskedGrows /\ StoreInv' /\ SavedInv' /\ used' = used /\ AskedInv'
  BY <1>1, StoreStays DEF AskedGrows, DashboardInv, AskedInv
<1>4. TabOK(tab[t])
  BY DEF DashboardInv, TabsInv
<1>5. CASE ChatAnswers(t, s)
  <2>1. /\ Show(t, [tab[t] EXCEPT !.turns = Append(@, Message(q, "assistant"))])
        /\ Await(t, s, [k EXCEPT !.pc = "saving"], TurnCalls(s, c, q))
    BY <1>5 DEF ChatAnswers
  <2>2. TabOK([tab[t] EXCEPT !.turns = Append(@, Message(q, "assistant"))])
    BY <1>4 DEF TabOK
  <2>3. TabsInv'
    BY <1>3, <2>1, <2>2, TabsKeep DEF DashboardInv
  <2>4. /\ [k EXCEPT !.pc = "saving"] \in AskTask
        /\ [k EXCEPT !.pc = "saving"].question = q /\ [k EXCEPT !.pc = "saving"].conv = c
        /\ Saving([k EXCEPT !.pc = "saving"])
    BY <1>2 DEF AskTask, Saving
  <2>5. PICK next : /\ next \in AskTask /\ next.question = q /\ next.conv = c
                    /\ Saving(next) /\ Await(t, s, next, TurnCalls(s, c, q))
    BY <2>1, <2>4
  <2>6. PICK more : more = TurnCalls(s, c, q)
    OBVIOUS
  <2>7. /\ more \in Seq(Calls) /\ Len(more) = 2
        /\ \A i \in 1..2 : /\ more[i].task = s /\ more[i].op = "append" /\ more[i].conv = c
                           /\ more[i].msg \in Saved /\ more[i].msg.question = q
                           /\ more[i].stage = "sent"
    <3>1. s \in Slots /\ c \in Ids /\ q \in Questions
      BY <1>2
    <3>. QED  BY ONLY <2>6, <3>1, TurnCallsAre
  <2>8. QueueStep(t, 0, more) /\ TaskStep(t, s, next)
    BY <2>5, <2>6, <2>7, AwaitStep DEF DashboardInv
  <2>9. TasksInv'
    <3>1. next \in Tasks' /\ next.conv = asked'[next.question]
      BY <1>1, <1>2, <1>3, <2>5 DEF Tasks, AskTask
    <3>2. task' = [task EXCEPT ![t][s] = next]
      BY <2>5 DEF Await
    <3>. QED  BY <1>3, <2>8, <3>1, <3>2, TasksKeep DEF DashboardInv
  <2>10. 0 <= Len(calls[t])
    BY DEF DashboardInv, CallsInv
  <2>11. CallsInv'
    <3>1. \A i \in 1..Len(more) : CallOK(more[i])'
      BY <1>1, <1>2, <2>7 DEF CallOK
    <3>. QED  BY <1>3, <2>7, <2>8, <2>10, <3>1, QueueCalls DEF DashboardInv
  <2>12. LinksInv'
    <3>1. \A i \in 1..Len(more) : more[i].task \in {s, None}
      BY <2>7
    <3>. QED  BY <2>5, <2>7, <2>8, <2>10, <3>1, AskLinks DEF DashboardInv
  <2>. QED  BY <1>3, <2>3, <2>9, <2>11, <2>12 DEF DashboardInv
<1>6. CASE ChatFails(t, s)
  <2>1. /\ Show(t, Failed(t, q)) /\ task' = [task EXCEPT ![t][s] = NoTask]
        /\ calls' = calls
    BY <1>6 DEF ChatFails, serverVars
  <2>2. TabsInv'
    BY <1>3, <1>4, <2>1, FailedOK, TabsKeep DEF DashboardInv
  <2>3. TaskStep(t, s, NoTask)
    BY <2>1, TaskChanges DEF DashboardInv
  <2>4. TasksInv'
    <3>1. NoTask \in Tasks' /\ NoTask.kind # "ask"
      BY DEF Tasks, NoTask
    <3>. QED  BY <1>3, <2>1, <2>3, <3>1, TasksKeep DEF DashboardInv
  <2>5. CallsInv'
    BY <1>1, <1>3, <2>1 DEF DashboardInv, CallsInv, CallOK
  <2>6. LinksInv'
    <3>1. \A i \in DOMAIN calls[t] : calls[t][i].task # s \/ s = None
      BY <1>6 DEF ChatFails, DashboardInv, LinksInv, LinkOK
    <3>2. ASSUME NEW u \in Tabs, NEW i \in DOMAIN calls[u]
          PROVE  LinkOK(u, i)'
      <4>1. LinkOK(u, i) /\ calls[u][i] \in Calls
        BY DEF DashboardInv, LinksInv, CallsInv
      <4>2. CASE calls[u][i].task = None
        BY <2>1, <4>2 DEF LinkOK
      <4>3. CASE calls[u][i].task # None
        <5>1. u # t \/ calls[u][i].task # s
          BY <3>1, <4>3
        <5>2. task'[u][calls[u][i].task] = task[u][calls[u][i].task]
          BY <2>3, <4>1, <4>3, <5>1 DEF TaskStep, Calls
        <5>. QED  BY <2>1, <4>1, <5>2 DEF LinkOK
      <4>. QED  BY <4>2, <4>3
    <3>. QED  BY <2>1, <3>2 DEF LinksInv
  <2>. QED  BY <1>3, <2>2, <2>4, <2>5, <2>6 DEF DashboardInv
<1>. QED  BY <1>5, <1>6 DEF Chat


-----------------------------------------------------------------------------
(***************************************************************************)
(* A message is saved where its question was asked.                        *)
(***************************************************************************)

LEMMA DashboardStarts ==
  ASSUME Init
  PROVE  DashboardInv
<1>1. StoreInv /\ AskedInv /\ SavedInv
  BY DEF Init, StoreInv, AskedInv, SavedInv
<1>2. TasksInv
  BY DEF Init, TasksInv, Tasks, NoTask
<1>3. TabsInv
  BY DEF Init, TabsInv, TabOK
<1>4. CallsInv /\ LinksInv
  BY DEF Init, CallsInv, LinksInv
<1>. QED  BY <1>1, <1>2, <1>3, <1>4 DEF DashboardInv

LEMMA DashboardStutters ==
  ASSUME DashboardInv, UNCHANGED vars
  PROVE  DashboardInv'
<1>1. UNCHANGED <<messages, recent, used, rendered, calls, tab, task, asked>>
  BY DEF vars, serverVars, clientVars, store
<1>2. AskedGrows /\ UNCHANGED store
  BY <1>1 DEF AskedGrows, store
<1>3. StoreInv' /\ SavedInv' /\ used' = used
  BY <1>2, StoreStays
<1>4. AskedInv' /\ TasksInv' /\ TabsInv'
  BY <1>1 DEF DashboardInv, AskedInv, TasksInv, Tasks, AskTask, DeleteTask, TabsInv, TabOK, Listed
<1>5. CallsInv' /\ LinksInv'
  BY <1>1, LinksStay DEF DashboardInv, CallsInv, CallOK
<1>. QED  BY <1>3, <1>4, <1>5 DEF DashboardInv

LEMMA DashboardKept ==
  ASSUME DashboardInv, [Next]_vars
  PROVE  DashboardInv'
<1>1. ASSUME NEW t \in Tabs, Visit(t) \/ Act(t) \/ Respond(t) \/ \E s \in Slots : Chat(t, s)
      PROVE  DashboardInv'
  BY <1>1, VisitKeeps, ActKeeps, ServeKeeps, ReturnKeeps, ChatKeeps DEF Respond
<1>. QED  BY <1>1, DashboardStutters DEF Next

LEMMA DashboardInvariant == Spec => []DashboardInv
<1>1. Init => DashboardInv
  BY DashboardStarts
<1>2. DashboardInv /\ [Next]_vars => DashboardInv'
  BY DashboardKept
<1>. QED  BY <1>1, <1>2, PTL DEF Spec

\* Whatever the owner switches to, deletes or creates while handleAsk awaits,
\* both messages of a turn are saved in the conversation the question was
\* asked in: the conversation the closure captured travels with every call.
THEOREM SavedWhereItWasAsked == Spec => []SavedWhereAsked
<1>1. DashboardInv => SavedWhereAsked
  BY DEF DashboardInv, SavedInv, SavedWhereAsked
<1>. QED  BY <1>1, DashboardInvariant, PTL


-----------------------------------------------------------------------------
(***************************************************************************)
(* An answer follows its question: the steps of the server.                *)
(***************************************************************************)

\* What was saved stays, and at its place, until its conversation is deleted.
MessagesGrow ==
    \A c \in DOMAIN messages' : c \in used =>
        /\ c \in DOMAIN messages
        /\ \A j \in DOMAIN messages[c] : j \in DOMAIN messages'[c] /\ messages'[c][j] = messages[c][j]

LEMMA SettledStays ==
  ASSUME MessagesGrow, NEW q, NEW c \in used, Settled(q, c)
  PROVE  Settled(q, c)'
BY DEF MessagesGrow, Settled

\* A message that may be saved belongs to a conversation there is or was.
LEMMA SavedInUsed ==
  ASSUME DashboardInv, NEW t \in Tabs, NEW i \in DOMAIN calls[t], MaySave(calls[t][i])
  PROVE  /\ calls[t][i].conv \in used /\ calls[t][i].msg \in Saved
         /\ calls[t][i].msg.question \in Questions
<1>1. CallOK(calls[t][i])
  BY DEF DashboardInv, CallsInv
<1>. QED  BY <1>1 DEF CallOK, MaySave, DashboardInv, AskedInv

\* Serving a call keeps the order, provided that a question which is not to be
\* saved any more is saved or its conversation gone.
LEMMA ServeOrder ==
  ASSUME DashboardInv, OrderInv, NEW t \in Tabs, calls[t] # <<>>,
         NEW stage \in Served, NEW result \in Results, Stage(t, stage, result), MessagesGrow,
         stage = "checked" => Oldest(t).stage = "sent",
         NEW left, left = Oldest(t),
         ASSUME NEW q, MaySave(left), stage # "checked", left.msg = Message(q, "user")
         PROVE  Settled(q, left.conv)'
  PROVE  OrderInv'
<1>1. /\ calls' \in [Tabs -> Seq(Calls)]
      /\ calls'[t][1].stage = stage
      /\ \A u \in Tabs : /\ DOMAIN calls'[u] = DOMAIN calls[u]
                         /\ \A i \in DOMAIN calls[u] :
                               /\ calls'[u][i].op = calls[u][i].op
                               /\ calls'[u][i].conv = calls[u][i].conv
                               /\ calls'[u][i].msg = calls[u][i].msg
                               /\ u # t \/ i # 1 => calls'[u][i] = calls[u][i]
  BY StageIs DEF DashboardInv
<1>2. left = calls[t][1] /\ 1 \in DOMAIN calls[t]
  BY OldestIs DEF DashboardInv
<1>3. ASSUME NEW u \in Tabs, NEW i \in DOMAIN calls'[u]
      PROVE  OrderOK(u, i)'
  <2>. PICK c, e : c = calls[u][i] /\ e = calls'[u][i]
    OBVIOUS
  <2>1. i \in DOMAIN calls[u] /\ e.op = c.op /\ e.conv = c.conv /\ e.msg = c.msg
    BY <1>1
  <2>. SUFFICES ASSUME e.op = "append", e.stage \in {"sent", "checked"}, e.msg.role = "assistant"
                PROVE  \/ Settled(e.msg.question, e.conv)'
                       \/ \E j \in 1..(i - 1) :
                             /\ calls'[u][j].op = "append"
                             /\ calls'[u][j].stage \in {"sent", "checked"}
                             /\ calls'[u][j].msg = Message(e.msg.question, "user")
                             /\ calls'[u][j].conv = e.conv
    BY DEF OrderOK, MaySave, Message
  <2>2. MaySave(c)
    <3>1. CASE u # t \/ i # 1
      BY <1>1, <2>1, <3>1 DEF MaySave
    <3>2. CASE u = t /\ i = 1
      BY <1>1, <1>2, <2>1, <3>2 DEF MaySave, Served
    <3>. QED  BY <3>1, <3>2
  <2>3. c.conv \in used
    BY <2>1, <2>2, SavedInUsed
  <2>4. CASE Settled(c.msg.question, c.conv)
    <3>1. Settled(c.msg.question, c.conv)'
      BY <2>3, <2>4, SettledStays
    <3>. QED  BY <2>1, <3>1
  <2>5. CASE ~Settled(c.msg.question, c.conv)
    <3>1. PICK j \in 1..(i - 1) : /\ MaySave(calls[u][j])
                                  /\ calls[u][j].msg = Message(c.msg.question, "user")
                                  /\ calls[u][j].conv = c.conv
      BY <2>1, <2>2, <2>5 DEF OrderInv, OrderOK
    <3>2. j \in DOMAIN calls[u]
      BY <2>1, <3>1 DEF DashboardInv, CallsInv
    <3>3. CASE u # t \/ j # 1 \/ stage = "checked"
      <4>1. calls'[u][j].op = "append" /\ calls'[u][j].stage \in {"sent", "checked"}
        BY <1>1, <3>1, <3>2, <3>3 DEF MaySave
      <4>. QED  BY <1>1, <2>1, <3>1, <3>2, <4>1
    <3>4. CASE u = t /\ j = 1 /\ stage # "checked"
      <4>1. MaySave(left) /\ left.msg = Message(c.msg.question, "user") /\ left.conv = c.conv
        BY <1>2, <3>1, <3>4
      <4>2. Settled(c.msg.question, c.conv)'
        BY <3>4, <4>1
      <4>. QED  BY <2>1, <4>2
    <3>. QED  BY <3>3, <3>4
  <2>. QED  BY <2>4, <2>5
<1>. QED  BY <1>3 DEF OrderInv


FollowInv == DashboardInv /\ OrderInv /\ AnswerFollowsQuestion

\* The tables change so that no answer loses its question.
LEMMA FollowGrows ==
  ASSUME StoreInv, AnswerFollowsQuestion, NEW gone,
         DOMAIN messages' \ gone \subseteq DOMAIN messages,
         \A c \in DOMAIN messages' \ gone : messages'[c] = messages[c],
         \A c \in DOMAIN messages' \cap gone : messages'[c] = <<>>
  PROVE  AnswerFollowsQuestion'
<1>. SUFFICES ASSUME NEW c \in DOMAIN messages', NEW i \in DOMAIN messages'[c],
                     messages'[c][i].role = "assistant"
              PROVE  \E j \in 1..(i - 1) :
                        messages'[c][j] = Message(messages'[c][i].question, "user")
  BY DEF AnswerFollowsQuestion, Message
<1>1. CASE c \in gone
  BY <1>1
<1>2. CASE c \notin gone
  BY <1>2 DEF AnswerFollowsQuestion
<1>. QED  BY <1>1, <1>2

\* The steps that leave the tables alone and the message unsaved for a reason.
LEMMA PassFollows ==
  ASSUME FollowInv, NEW t \in Tabs, calls[t] # <<>>,
         NEW stage \in Served, NEW result \in Results, Stage(t, stage, result), UNCHANGED store,
         stage = "checked" => Oldest(t).stage = "sent",
         MaySave(Oldest(t)) /\ stage # "checked" => ~Exists(Oldest(t).conv)
  PROVE  OrderInv' /\ AnswerFollowsQuestion'
<1>. PICK left : left = Oldest(t)
  OBVIOUS
<1>1. MessagesGrow /\ messages' = messages
  BY DEF MessagesGrow, store
<1>2. AnswerFollowsQuestion'
  BY <1>1 DEF FollowInv, AnswerFollowsQuestion
<1>3. ASSUME NEW q, MaySave(left), stage # "checked", left.msg = Message(q, "user")
      PROVE  Settled(q, left.conv)'
  BY <1>1, <1>3 DEF Settled, Exists
<1>. QED  BY <1>1, <1>2, <1>3, ServeOrder DEF FollowInv

\* The steps that write conversations.
LEMMA WriteFollows ==
  ASSUME FollowInv, NEW t \in Tabs, calls[t] # <<>>,
         NEW stage \in {"written", "done"}, NEW result \in Results, Stage(t, stage, result),
         MessagesGrow, AnswerFollowsQuestion', ~MaySave(Oldest(t))
  PROVE  OrderInv' /\ AnswerFollowsQuestion'
<1>. PICK left : left = Oldest(t)
  OBVIOUS
<1>1. ASSUME NEW q, MaySave(left), stage # "checked", left.msg = Message(q, "user")
      PROVE  Settled(q, left.conv)'
  BY <1>1
<1>2. stage \in Served /\ stage # "checked"
  BY DEF Served
<1>. QED  BY <1>1, <1>2, ServeOrder DEF FollowInv

LEMMA CreateFollows ==
  ASSUME FollowInv, NEW c \in Ids, Create(c)
  PROVE  MessagesGrow /\ AnswerFollowsQuestion'
<1>1. /\ c \notin used
      /\ messages' = [d \in DOMAIN messages \cup {c} |-> IF d = c THEN <<>> ELSE messages[d]]
  BY DEF Create
<1>2. /\ DOMAIN messages' = DOMAIN messages \cup {c} /\ messages'[c] = <<>>
      /\ \A d \in DOMAIN messages : d # c => messages'[d] = messages[d]
      /\ c \notin used
  BY <1>1
<1>3. MessagesGrow
  BY <1>2 DEF MessagesGrow
<1>4. AnswerFollowsQuestion'
  <2>1. DOMAIN messages' \ {c} \subseteq DOMAIN messages
    BY <1>2
  <2>2. \A d \in DOMAIN messages' \ {c} : messages'[d] = messages[d]
    BY <1>2
  <2>3. \A d \in DOMAIN messages' \cap {c} : messages'[d] = <<>>
    BY <1>2
  <2>. QED  BY <2>1, <2>2, <2>3, FollowGrows DEF FollowInv, DashboardInv
<1>. QED  BY <1>3, <1>4

LEMMA DropFollows ==
  ASSUME FollowInv, NEW c, Drop(c)
  PROVE  MessagesGrow /\ AnswerFollowsQuestion'
<1>1. messages' = [d \in DOMAIN messages \ {c} |-> messages[d]]
  BY DEF Drop, Restrict
<1>2. MessagesGrow
  BY <1>1 DEF MessagesGrow
<1>3. AnswerFollowsQuestion'
  <2>1. DOMAIN messages' \ {} \subseteq DOMAIN messages
    BY <1>1
  <2>2. \A d \in DOMAIN messages' \ {} : messages'[d] = messages[d]
    BY <1>1
  <2>3. \A d \in DOMAIN messages' \cap {} : messages'[d] = <<>>
    OBVIOUS
  <2>. QED  BY <2>1, <2>2, <2>3, FollowGrows DEF FollowInv, DashboardInv
<1>. QED  BY <1>2, <1>3

\* The question is saved, or the answer behind it.
LEMMA AppendFollows ==
  ASSUME FollowInv, NEW t \in Tabs, ServeAppend(t), UNCHANGED clientVars
  PROVE  OrderInv' /\ AnswerFollowsQuestion'
<1>. PICK c, m, left, n : /\ c = Oldest(t).conv /\ m = Oldest(t).msg /\ left = Oldest(t)
                          /\ n = Len(messages[c])
  OBVIOUS
<1>1. /\ calls[t] # <<>> /\ Stage(t, "done", None) /\ asked' = asked
      /\ Exists(c) /\ Add(c, m) /\ Oldest(t).op = "append" /\ m \in Saved
      /\ m.question \in DOMAIN asked /\ asked[m.question] = c
  BY AppendSaves DEF FollowInv
<1>2. /\ StoreInv' /\ DOMAIN messages' = DOMAIN messages
      /\ \A d \in DOMAIN messages \ {c} : messages'[d] = messages[d]
      /\ messages'[c] = Append(messages[c], m)
  BY <1>1, AddKeeps DEF FollowInv, DashboardInv
<1>3. c \in DOMAIN messages /\ messages[c] \in Seq(Saved) /\ n \in Nat
  BY <1>1 DEF Exists, FollowInv, DashboardInv, StoreInv
<1>4. /\ DOMAIN messages[c] = 1..n /\ DOMAIN messages'[c] = 1..(n + 1)
      /\ \A j \in 1..n : messages'[c][j] = messages[c][j]
      /\ messages'[c][n + 1] = m
  BY <1>1, <1>2, <1>3
<1>5. MessagesGrow
  BY <1>2, <1>3, <1>4, SMTT(60) DEF MessagesGrow
<1>6. Oldest(t).stage = "checked" /\ MaySave(left) /\ left = calls[t][1] /\ 1 \in DOMAIN calls[t]
  BY <1>1, OldestIs DEF ServeAppend, At, MaySave, FollowInv, DashboardInv
<1>7. ASSUME m.role = "assistant"
      PROVE  \E j \in 1..n : messages[c][j] = Message(m.question, "user")
  <2>1. OrderOK(t, 1)
    BY <1>6 DEF FollowInv, OrderInv
  <2>2. Settled(m.question, c)
    BY <1>6, <1>7, <2>1 DEF OrderOK
  <2>. QED  BY <1>3, <1>4, <2>2 DEF Settled
<1>8. AnswerFollowsQuestion'
  <2>. SUFFICES ASSUME NEW d \in DOMAIN messages', NEW i \in DOMAIN messages'[d],
                       messages'[d][i].role = "assistant"
                PROVE  \E j \in 1..(i - 1) :
                          messages'[d][j] = Message(messages'[d][i].question, "user")
    BY DEF AnswerFollowsQuestion, Message
  <2>1. CASE d # c
    BY <1>2, <2>1 DEF FollowInv, AnswerFollowsQuestion
  <2>2. CASE d = c /\ i \in 1..n
    <3>1. messages[c][i].role = "assistant" /\ messages'[d][i] = messages[c][i]
      BY <1>4, <2>2
    <3>2. PICK j \in 1..(i - 1) : messages[c][j] = Message(messages[c][i].question, "user")
      BY <1>3, <1>4, <2>2, <3>1 DEF FollowInv, AnswerFollowsQuestion
    <3>3. j \in 1..n
      BY <1>3, <2>2, <3>2
    <3>. QED  BY <1>4, <2>2, <3>1, <3>2, <3>3
  <2>3. CASE d = c /\ i = n + 1
    <3>1. PICK j \in 1..n : messages[c][j] = Message(m.question, "user")
      BY <1>4, <1>7, <2>3
    <3>2. j \in 1..(i - 1)
      BY <1>3, <2>3, <3>1
    <3>. QED  BY <1>4, <2>3, <3>1, <3>2
  <2>. QED  BY <1>3, <1>4, <2>1, <2>2, <2>3
<1>9. OrderInv'
  <2>1. ASSUME NEW q, MaySave(left), "done" # "checked", left.msg = Message(q, "user")
        PROVE  Settled(q, left.conv)'
    <3>1. messages'[c][n + 1] = Message(q, "user") /\ n + 1 \in DOMAIN messages'[c]
      BY <1>3, <1>4, <2>1
    <3>. QED  BY <3>1 DEF Settled, Message
  <2>2. "done" \in Served /\ "done" # "checked" /\ None \in Results
    BY DEF Served, Results
  <2>. QED  BY <1>1, <1>5, <2>1, <2>2, ServeOrder DEF FollowInv
<1>. QED  BY <1>8, <1>9


LEMMA ServeFollows ==
  ASSUME FollowInv, "server" \notin Faults, NEW t \in Tabs, Serve(t), UNCHANGED clientVars
  PROVE  OrderInv' /\ AnswerFollowsQuestion'
<1>0. None \in Results /\ Served = {"checked", "written", "done", "failed"}
  BY DEF Results, Served
<1>1. CASE ServeRead(t)
  <2>1. PICK result : result = IF Exists(Oldest(t).conv) THEN messages[Oldest(t).conv] ELSE None
    OBVIOUS
  <2>2. /\ calls[t] # <<>> /\ Stage(t, "done", result) /\ UNCHANGED store
        /\ ~MaySave(Oldest(t))
    BY <1>1, <2>1 DEF ServeRead, At, MaySave
  <2>3. result \in Results
    BY <2>1 DEF FollowInv, DashboardInv, StoreInv, Exists, Results
  <2>. QED  BY <1>0, <2>2, <2>3, PassFollows
<1>2. CASE ServeCheck(t)
  <2>1. calls[t] # <<>> /\ UNCHANGED store /\ Oldest(t).stage = "sent"
    BY <1>2 DEF ServeCheck, At
  <2>2. CASE Exists(Oldest(t).conv)
    <3>1. Stage(t, "checked", None)
      BY <1>2, <2>2 DEF ServeCheck
    <3>. QED  BY <1>0, <2>1, <3>1, PassFollows
  <2>3. CASE ~Exists(Oldest(t).conv)
    <3>1. Stage(t, "failed", None)
      BY <1>2, <2>3 DEF ServeCheck
    <3>. QED  BY <1>0, <2>1, <2>3, <3>1, PassFollows
  <2>. QED  BY <2>2, <2>3
<1>3. CASE ServeRename(t)
  <2>1. /\ calls[t] # <<>> /\ Stage(t, "written", None) /\ ~MaySave(Oldest(t))
        /\ messages' = messages
    BY <1>3 DEF ServeRename, At, MaySave, Retitle
  <2>2. MessagesGrow /\ AnswerFollowsQuestion'
    BY <2>1 DEF MessagesGrow, FollowInv, AnswerFollowsQuestion
  <2>. QED  BY <1>0, <2>1, <2>2, WriteFollows
<1>4. CASE ServeAppend(t)
  BY <1>4, AppendFollows
<1>5. CASE ServeDelete(t)
  <2>1. /\ calls[t] # <<>> /\ Stage(t, "written", None) /\ ~MaySave(Oldest(t))
        /\ Drop(Oldest(t).conv)
    BY <1>5 DEF ServeDelete, At, MaySave
  <2>2. MessagesGrow /\ AnswerFollowsQuestion'
    BY <2>1, DropFollows
  <2>. QED  BY <1>0, <2>1, <2>2, WriteFollows
<1>6. CASE ServeGone(t)
  <2>1. /\ calls[t] # <<>> /\ Stage(t, "failed", None) /\ UNCHANGED store
        /\ ~Exists(Oldest(t).conv)
    BY <1>6 DEF ServeGone, At
  <2>. QED  BY <1>0, <2>1, PassFollows
<1>7. CASE ServeRevalidate(t)
  <2>1. PICK result : result = Oldest(t).result
    OBVIOUS
  <2>2. /\ calls[t] # <<>> /\ Stage(t, "done", result) /\ UNCHANGED store
        /\ ~MaySave(Oldest(t))
    BY <1>7, <2>1 DEF ServeRevalidate, At, MaySave
  <2>3. result \in Results
    BY <2>1, <2>2, OldestIs DEF FollowInv, DashboardInv, Calls
  <2>. QED  BY <1>0, <2>2, <2>3, PassFollows
<1>8. CASE ServeThrows(t)
  BY <1>8 DEF ServeThrows
<1>9. ASSUME NEW c \in Ids, ServeCreate(t, c)
      PROVE  OrderInv' /\ AnswerFollowsQuestion'
  <2>1. /\ calls[t] # <<>> /\ Stage(t, "written", c) /\ Create(c) /\ ~MaySave(Oldest(t))
    BY <1>9 DEF ServeCreate, At, MaySave
  <2>2. MessagesGrow /\ AnswerFollowsQuestion'
    BY <2>1, CreateFollows
  <2>3. c \in Results
    BY DEF Results
  <2>. QED  BY <2>1, <2>2, <2>3, WriteFollows
<1>10. ASSUME NEW c \in Ids, ServeRerender(t, c)
       PROVE  OrderInv' /\ AnswerFollowsQuestion'
  <2>1. PICK result : result = Oldest(t).result
    OBVIOUS
  <2>2. /\ calls[t] # <<>> /\ Stage(t, "done", result) /\ Create(c) /\ ~MaySave(Oldest(t))
    BY <1>10, <2>1 DEF ServeRerender, At, MaySave
  <2>3. MessagesGrow /\ AnswerFollowsQuestion'
    BY <2>2, CreateFollows
  <2>4. result \in Results
    BY <2>1, <2>2, OldestIs DEF FollowInv, DashboardInv, Calls
  <2>. QED  BY <2>2, <2>3, <2>4, WriteFollows
<1>. QED  BY <1>1, <1>2, <1>3, <1>4, <1>5, <1>6, <1>7, <1>8, <1>9, <1>10 DEF Serve

-----------------------------------------------------------------------------
(***************************************************************************)
(* An answer follows its question: the steps of the client.                *)
(***************************************************************************)

\* The calls a handler adds: an answer is sent behind its question.
InOrder(more) ==
    \A i \in 1..Len(more) : MaySave(more[i]) /\ more[i].msg.role = "assistant" =>
        \E j \in 1..(i - 1) : /\ MaySave(more[j])
                              /\ more[j].msg = Message(more[i].msg.question, "user")
                              /\ more[j].conv = more[i].conv

LEMMA QueueOrder ==
  ASSUME FollowInv, NEW t \in Tabs, NEW d \in {0, 1}, d <= Len(calls[t]),
         d = 1 => ~MaySave(calls[t][1]), NEW more \in Seq(Calls), InOrder(more),
         QueueStep(t, d, more), messages' = messages
  PROVE  OrderInv' /\ AnswerFollowsQuestion'
<1>. PICK n, m : n = Len(calls[t]) - d /\ m = Len(more)
  OBVIOUS
<1>1. calls[t] \in Seq(Calls) /\ n \in Nat /\ m \in Nat /\ DOMAIN calls[t] = 1..(n + d)
  BY DEF FollowInv, DashboardInv, CallsInv
<1>2. /\ \A u \in Tabs \ {t} : calls'[u] = calls[u]
      /\ DOMAIN calls'[t] = 1..(n + m)
      /\ \A i \in 1..n : /\ calls'[t][i].op = calls[t][i + d].op
                         /\ calls'[t][i].conv = calls[t][i + d].conv
                         /\ calls'[t][i].msg = calls[t][i + d].msg
                         /\ calls'[t][i].stage = calls[t][i + d].stage
      /\ \A i \in 1..m : calls'[t][n + i] = more[i]
  BY DEF QueueStep, Follows
<1>3. AnswerFollowsQuestion'
  BY DEF FollowInv, AnswerFollowsQuestion
<1>4. ASSUME NEW u \in Tabs \ {t}, NEW i \in DOMAIN calls'[u]
      PROVE  OrderOK(u, i)'
  <2>1. OrderOK(u, i)
    BY <1>2 DEF FollowInv, OrderInv
  <2>. QED  BY <1>2, <2>1 DEF OrderOK, MaySave, Settled, Message
<1>5. ASSUME NEW i \in DOMAIN calls'[t], NEW e, e = calls'[t][i],
             e.op = "append", e.stage \in {"sent", "checked"}, e.msg.role = "assistant"
      PROVE  \/ Settled(e.msg.question, e.conv)
             \/ \E j \in 1..(i - 1) : /\ calls'[t][j].op = "append"
                                      /\ calls'[t][j].stage \in {"sent", "checked"}
                                      /\ calls'[t][j].msg = Message(e.msg.question, "user")
                                      /\ calls'[t][j].conv = e.conv
  <2>1. CASE i \in 1..n
    <3>. PICK p, c : p = i + d /\ c = calls[t][p]
      OBVIOUS
    <3>0. /\ e.op = c.op /\ e.stage = c.stage /\ e.msg = c.msg /\ e.conv = c.conv
          /\ p \in DOMAIN calls[t]
      <4>1. p \in DOMAIN calls[t]
        BY <1>1, <2>1
      <4>2. /\ e.op = calls[t][i + d].op /\ e.stage = calls[t][i + d].stage
            /\ e.msg = calls[t][i + d].msg /\ e.conv = calls[t][i + d].conv
        BY <1>2, <1>5, <2>1
      <4>. QED  BY <4>1, <4>2
    <3>1. p \in DOMAIN calls[t] /\ MaySave(c) /\ e.msg = c.msg /\ e.conv = c.conv
      BY <1>5, <3>0 DEF MaySave
    <3>2. CASE ~Settled(c.msg.question, c.conv)
      <4>0. OrderOK(t, p) /\ c.msg.role = "assistant"
        BY <1>5, <3>1 DEF FollowInv, OrderInv
      <4>1. PICK l \in 1..(p - 1) : /\ MaySave(calls[t][l])
                                  /\ calls[t][l].msg = Message(c.msg.question, "user")
                                  /\ calls[t][l].conv = c.conv
        BY <3>1, <3>2, <4>0 DEF OrderOK
      <4>2. d = 1 => l # 1
        BY <4>1
      <4>3. l - d \in 1..(i - 1) /\ l - d \in 1..n /\ (l - d) + d = l
        <5>1. n \in Nat /\ d \in {0, 1}
          BY <1>1
        <5>2. l \in 1..(p - 1) /\ p = i + d
          BY <4>1
        <5>. QED  BY ONLY <2>1, <4>2, <5>1, <5>2
      <4>4. PICK j \in 1..(i - 1) : j \in 1..n /\ j + d = l
        BY <4>3
      <4>5. /\ calls'[t][j].op = calls[t][l].op /\ calls'[t][j].conv = calls[t][l].conv
            /\ calls'[t][j].msg = calls[t][l].msg /\ calls'[t][j].stage = calls[t][l].stage
        BY <1>2, <4>4
      <4>6. /\ calls'[t][j].op = "append" /\ calls'[t][j].stage \in {"sent", "checked"}
            /\ calls'[t][j].msg = Message(e.msg.question, "user") /\ calls'[t][j].conv = e.conv
        BY ONLY <3>1, <4>1, <4>5 DEF MaySave
      <4>. QED  BY <4>4, <4>6
    <3>. QED  BY <3>1, <3>2
  <2>2. CASE i \in (n + 1)..(n + m)
    <3>1. PICK l \in 1..m : i = n + l
      BY <1>1, <2>2, Offset
    <3>2. e = more[l] /\ l \in 1..Len(more)
      BY <1>2, <1>5, <3>1
    <3>3. PICK j \in 1..(l - 1) : /\ MaySave(more[j])
                                  /\ more[j].msg = Message(e.msg.question, "user")
                                  /\ more[j].conv = e.conv
      BY <1>5, <3>2 DEF InOrder, MaySave
    <3>4. j \in 1..m /\ n + j \in 1..(i - 1)
      BY <1>1, <3>1, <3>3
    <3>5. calls'[t][n + j] = more[j]
      BY <1>2, <3>4
    <3>. QED  BY <3>3, <3>4, <3>5 DEF MaySave
  <2>. QED  BY <1>1, <1>2, <2>1, <2>2
<1>6. ASSUME NEW i \in DOMAIN calls'[t]
      PROVE  OrderOK(t, i)'
  BY <1>5 DEF OrderOK, MaySave, Settled, Message
<1>. QED  BY <1>3, <1>4, <1>6 DEF OrderInv


\* A step of the client changes the queue of its tab at its ends, or not at all.
ClientStep(t) ==
    \/ MessagesGrow /\ AnswerFollowsQuestion' /\ calls' = calls
    \/ /\ messages' = messages
       /\ \E d \in {0, 1} : \E more \in Seq(Calls) :
             /\ d <= Len(calls[t]) /\ InOrder(more) /\ QueueStep(t, d, more)
             /\ d = 1 => ~MaySave(calls[t][1])

LEMMA ClientFollows ==
  ASSUME FollowInv, NEW t \in Tabs, ClientStep(t)
  PROVE  OrderInv' /\ AnswerFollowsQuestion'
<1>1. CASE MessagesGrow /\ AnswerFollowsQuestion' /\ calls' = calls
  <2>. SUFFICES ASSUME NEW u \in Tabs, NEW i \in DOMAIN calls[u]
                PROVE  OrderOK(u, i)'
    BY <1>1 DEF OrderInv
  <2>1. OrderOK(u, i)
    BY DEF FollowInv, OrderInv
  <2>. PICK c : c = calls[u][i]
    OBVIOUS
  <2>2. CASE MaySave(c) /\ Settled(c.msg.question, c.conv)
    <3>1. Settled(c.msg.question, c.conv)'
      BY <1>1, <2>2, SavedInUsed, SettledStays DEF FollowInv
    <3>. QED  BY <1>1, <3>1 DEF OrderOK
  <2>3. CASE ~(MaySave(c) /\ Settled(c.msg.question, c.conv))
    BY <1>1, <2>1, <2>3 DEF OrderOK, MaySave, Message
  <2>. QED  BY <2>2, <2>3
<1>2. CASE ~(MessagesGrow /\ AnswerFollowsQuestion' /\ calls' = calls)
  <2>1. messages' = messages
    BY <1>2 DEF ClientStep
  <2>2. PICK d \in {0, 1} : \E more \in Seq(Calls) :
             /\ d <= Len(calls[t]) /\ InOrder(more) /\ QueueStep(t, d, more)
             /\ d = 1 => ~MaySave(calls[t][1])
    BY <1>2 DEF ClientStep
  <2>3. PICK more \in Seq(Calls) :
             /\ d <= Len(calls[t]) /\ InOrder(more) /\ QueueStep(t, d, more)
             /\ d = 1 => ~MaySave(calls[t][1])
    BY <2>2
  <2>. QED  BY <2>1, <2>3, QueueOrder
<1>. QED  BY <1>1, <1>2

LEMMA NoneInOrder == <<>> \in Seq(Calls) /\ InOrder(<<>>)
BY DEF InOrder

LEMMA OneInOrder ==
  ASSUME NEW c \in Calls, c.op # "append"
  PROVE  <<c>> \in Seq(Calls) /\ InOrder(<<c>>)
BY DEF InOrder, MaySave

LEMMA TurnInOrder ==
  ASSUME NEW s \in Slots, NEW c \in Ids, NEW q \in Questions
  PROVE  TurnCalls(s, c, q) \in Seq(Calls) /\ InOrder(TurnCalls(s, c, q))
<1>. PICK more : more = TurnCalls(s, c, q)
  OBVIOUS
<1>1. /\ more \in Seq(Calls) /\ Len(more) = 2
      /\ \A i \in 1..2 : /\ more[i].op = "append" /\ more[i].conv = c
                         /\ more[i].msg.question = q /\ more[i].stage = "sent"
      /\ more[1].msg = Message(q, "user")
  BY TurnCallsAre
<1>2. more[1].msg.role = "user"
  BY <1>1 DEF Message
<1>3. MaySave(more[1])
  BY <1>1 DEF MaySave
<1>4. ASSUME NEW i \in 1..2, more[i].msg.role = "assistant"
      PROVE  /\ 1 \in 1..(i - 1) /\ more[1].msg = Message(more[i].msg.question, "user")
             /\ more[1].conv = more[i].conv
  BY <1>1, <1>2, <1>4
<1>. QED  BY <1>1, <1>3, <1>4 DEF InOrder

LEMMA StillFollows ==
  ASSUME FollowInv, messages' = messages
  PROVE  MessagesGrow /\ AnswerFollowsQuestion'
BY DEF MessagesGrow, FollowInv, AnswerFollowsQuestion

LEMMA EndsStep ==
  ASSUME FollowInv, NEW t \in Tabs, NEW d \in {0, 1}, d <= Len(calls[t]),
         d = 1 => ~MaySave(calls[t][1]), NEW more \in Seq(Calls), InOrder(more),
         QueueStep(t, d, more), messages' = messages
  PROVE  ClientStep(t)
BY DEF ClientStep

\* A handler that begins, or the owner's page.
LEMMA BeginsStep ==
  ASSUME FollowInv, NEW t \in Tabs, NEW s \in Slots, NEW k, NEW more \in Seq(Calls),
         InOrder(more), Await(t, s, k, more), UNCHANGED store
  PROVE  ClientStep(t)
<1>1. QueueStep(t, 0, more)
  BY AwaitStep DEF FollowInv, DashboardInv
<1>2. 0 <= Len(calls[t])
  BY DEF FollowInv, DashboardInv, CallsInv
<1>. QED  BY <1>1, <1>2 DEF ClientStep, store

\* A handler that is answered.
LEMMA AnsweredStep ==
  ASSUME FollowInv, NEW t \in Tabs, NEW kind, NEW stage \in {"done", "failed"},
         Awaited(t, kind, stage), UNCHANGED store,
         Finish(t) \/ \E k : \E more \in Seq(Calls) : InOrder(more) /\ Resume(t, k, more)
  PROVE  ClientStep(t)
<1>1. /\ calls[t] # <<>> /\ Oldest(t).task # None /\ Oldest(t).stage = stage
      /\ Oldest(t) = calls[t][1]
  BY AnsweredIs DEF FollowInv
<1>2. 1 <= Len(calls[t]) /\ ~MaySave(calls[t][1])
  BY <1>1, OldestIs DEF MaySave, FollowInv, DashboardInv
<1>3. CASE Finish(t)
  <2>1. QueueStep(t, 1, <<>>)
    BY <1>1, <1>3, FinishStep DEF FollowInv, DashboardInv
  <2>. QED  BY <1>2, <2>1, NoneInOrder DEF ClientStep, store
<1>4. CASE ~Finish(t)
  <2>1. PICK k : \E more \in Seq(Calls) : InOrder(more) /\ Resume(t, k, more)
    BY <1>4
  <2>2. PICK more \in Seq(Calls) : InOrder(more) /\ Resume(t, k, more)
    BY <2>1
  <2>3. QueueStep(t, 1, more)
    BY <1>1, <2>2, ResumeStep DEF FollowInv, DashboardInv
  <2>. QED  BY <1>2, <2>2, <2>3 DEF ClientStep, store
<1>. QED  BY <1>3, <1>4

LEMMA VisitFollows ==
  ASSUME FollowInv, NEW t \in Tabs, Visit(t)
  PROVE  ClientStep(t)
<1>1. CASE VisitFind(t) \/ VisitFindsNone(t) \/ VisitFails(t)
  <2>1. messages' = messages /\ calls' = calls
    BY <1>1 DEF VisitFind, VisitFindsNone, VisitFails, serverVars, store
  <2>. QED  BY <2>1, StillFollows DEF ClientStep
<1>2. ASSUME NEW c \in Ids, VisitCreate(t, c)
      PROVE  ClientStep(t)
  BY <1>2, CreateFollows DEF VisitCreate, ClientStep
<1>3. CASE VisitLoad(t)
  <2>. PICK queue, c : queue = calls[t] /\ c = Call(None, "token", None, None)
    OBVIOUS
  <2>1. c \in Calls /\ c.op = "token"
    BY DEF Call, Calls, Results
  <2>2. calls' = [calls EXCEPT ![t] = Append(queue, c)] /\ messages' = messages
    BY <1>3 DEF VisitLoad, store
  <2>3. QueueStep(t, 0, <<c>>)
    <3>1. calls \in [Tabs -> Seq(Calls)] /\ queue \in Seq(Calls)
      BY DEF FollowInv, DashboardInv, CallsInv
    <3>. PICK later : later = Append(queue, c)
      OBVIOUS
    <3>2. /\ later \in Seq(Calls) /\ DOMAIN later = 1..(Len(queue) + 1)
          /\ \A i \in 1..Len(queue) : later[i] = queue[i]
          /\ later[Len(queue) + 1] = c
      BY <2>1, <3>1
    <3>3. Follows(later, queue, 0, <<c>>)
      BY <3>1, <3>2 DEF Follows
    <3>. QED  BY <2>2, <3>1, <3>2, <3>3 DEF QueueStep
  <2>4. 0 <= Len(calls[t])
    BY DEF FollowInv, DashboardInv, CallsInv
  <2>5. <<c>> \in Seq(Calls) /\ InOrder(<<c>>)
    BY <2>1, OneInOrder
  <2>6. messages' = messages
    BY <2>2
  <2>7. 0 \in {0, 1} /\ ~(0 = 1)
    OBVIOUS
  <2>. QED  BY <2>3, <2>4, <2>5, <2>6, <2>7, EndsStep
<1>. QED  BY <1>1, <1>2, <1>3 DEF Visit


LEMMA ActFollows ==
  ASSUME FollowInv, NEW t \in Tabs, Act(t)
  PROVE  ClientStep(t)
<1>. PICK s \in Slots :
        \/ \E q \in Questions : StartAsk(t, s, q)
        \/ StartNew(t, s)
        \/ tab[t].pc = "open" /\ \E c \in ToSet(tab[t].list) :
                StartSelect(t, s, c) \/ StartRename(t, s, c) \/ StartDelete(t, s, c)
  BY DEF Act
<1>1. ASSUME NEW k, NEW c \in Ids \cup {None},
             NEW op \in {"token", "load", "create", "rename", "delete"},
             Await(t, s, k, <<Call(s, op, c, None)>>), UNCHANGED store
      PROVE  ClientStep(t)
  <2>1. Call(s, op, c, None) \in Calls /\ Call(s, op, c, None).op # "append"
    BY CallIs
  <2>2. <<Call(s, op, c, None)>> \in Seq(Calls) /\ InOrder(<<Call(s, op, c, None)>>)
    BY <2>1, OneInOrder
  <2>. QED  BY <1>1, <2>2, BeginsStep
<1>2. ASSUME NEW q \in Questions, StartAsk(t, s, q)
      PROVE  ClientStep(t)
  BY <1>1, <1>2 DEF StartAsk, AskCalls
<1>3. CASE StartNew(t, s)
  BY <1>1, <1>3 DEF StartNew
<1>4. ASSUME tab[t].pc = "open", NEW d \in ToSet(tab[t].list),
             StartSelect(t, s, d) \/ StartRename(t, s, d) \/ StartDelete(t, s, d)
      PROVE  ClientStep(t)
  <2>1. d \in Ids
    BY <1>4, ListedKnown DEF FollowInv
  <2>2. UNCHANGED store
    BY <1>4 DEF StartSelect, StartRename, StartDelete
  <2>3. CASE StartSelect(t, s, d)
    BY <1>1, <2>1, <2>2, <2>3 DEF StartSelect
  <2>4. CASE StartRename(t, s, d)
    BY <1>1, <2>1, <2>2, <2>4 DEF StartRename
  <2>5. CASE StartDelete(t, s, d)
    BY <1>1, <2>1, <2>2, <2>5 DEF StartDelete
  <2>. QED  BY <1>4, <2>3, <2>4, <2>5
<1>. QED  BY <1>2, <1>3, <1>4

LEMMA DeleteFollows ==
  ASSUME FollowInv, NEW t \in Tabs, DeleteReturns(t)
  PROVE  ClientStep(t)
<1>. PICK w, s, left : w = Waiting(t) /\ s = Oldest(t).task /\ left = Remaining(Waiting(t))
  OBVIOUS
<1>1. Awaited(t, "delete", "done") /\ UNCHANGED store
  BY DEF DeleteReturns
<1>2. w \in DeleteTask /\ s \in Slots
  BY <1>1, AnsweredIs, TaskKinds DEF FollowInv
<1>3. left \in Seq(used) /\ used \subseteq Ids
  BY <1>2, WithoutOfUsed DEF Remaining, DeleteTask, FollowInv, DashboardInv, StoreInv
<1>4. ASSUME NEW k, NEW c \in Ids \cup {None}, NEW op \in {"load", "create"},
             Resume(t, k, <<Call(s, op, c, None)>>)
      PROVE  ClientStep(t)
  <2>1. Call(s, op, c, None) \in Calls /\ Call(s, op, c, None).op # "append"
    BY <1>2, CallIs
  <2>2. <<Call(s, op, c, None)>> \in Seq(Calls) /\ InOrder(<<Call(s, op, c, None)>>)
    BY <2>1, OneInOrder
  <2>. QED  BY <1>1, <1>4, <2>2, AnsweredStep
<1>5. CASE Resume(t, [w EXCEPT !.pc = "creating"], <<Call(s, "create", None, None)>>)
  BY <1>4, <1>5
<1>6. CASE /\ left # <<>>
           /\ Resume(t, [w EXCEPT !.pc = "loading", !.conv = Head(left)],
                     <<Call(s, "load", Head(left), None)>>)
  <2>1. Head(left) \in Ids
    BY <1>3, <1>6
  <2>. QED  BY <1>4, <1>6, <2>1
<1>7. CASE Finish(t)
  BY <1>1, <1>7, AnsweredStep
<1>. QED  BY <1>5, <1>6, <1>7 DEF DeleteReturns

LEMMA ReturnFollows ==
  ASSUME FollowInv, NEW t \in Tabs, Return(t)
  PROVE  ClientStep(t)
<1>1. ASSUME NEW kind, NEW stage \in {"done", "failed"}, Awaited(t, kind, stage),
             UNCHANGED store, Finish(t)
      PROVE  ClientStep(t)
  BY <1>1, AnsweredStep
<1>2. ASSUME NEW kind, NEW k, Awaited(t, kind, "done"), UNCHANGED store, Resume(t, k, <<>>)
      PROVE  ClientStep(t)
  BY <1>2, NoneInOrder, AnsweredStep
<1>3. CASE OrphanReturns(t)
  <2>1. /\ calls[t] # <<>> /\ calls' = [calls EXCEPT ![t] = Tail(@)] /\ UNCHANGED store
        /\ Oldest(t).stage \in {"done", "failed"}
    BY <1>3 DEF OrphanReturns
  <2>2. QueueStep(t, 1, <<>>)
    BY <2>1, OrphanStep DEF FollowInv, DashboardInv
  <2>3. 1 <= Len(calls[t]) /\ ~MaySave(calls[t][1])
    BY <2>1, OldestIs DEF MaySave, FollowInv, DashboardInv
  <2>. QED  BY <2>1, <2>2, <2>3, NoneInOrder DEF ClientStep, store
<1>4. CASE TokenReturns(t)
  BY <1>2, <1>4 DEF TokenReturns
<1>5. CASE TokenFails(t)
  BY <1>1, <1>5 DEF TokenFails
<1>6. CASE SavedOne(t)
  BY <1>2, <1>6 DEF SavedOne
<1>7. CASE SavedBoth(t)
  BY <1>1, <1>7 DEF SavedBoth
<1>8. CASE SaveFails(t)
  BY <1>1, <1>8 DEF SaveFails
<1>9. CASE NewReturns(t)
  BY <1>1, <1>9 DEF NewReturns
<1>10. CASE SelectReturns(t)
  BY <1>1, <1>10 DEF SelectReturns
<1>11. CASE RenameReturns(t)
  BY <1>1, <1>11 DEF RenameReturns
<1>12. CASE DeleteReturns(t)
  BY <1>12, DeleteFollows
<1>13. CASE DeleteCreated(t)
  BY <1>1, <1>13 DEF DeleteCreated
<1>14. CASE DeleteLoaded(t)
  BY <1>1, <1>14 DEF DeleteLoaded
<1>15. CASE OthersFail(t)
  BY <1>1, <1>15 DEF OthersFail
<1>. QED  BY <1>3, <1>4, <1>5, <1>6, <1>7, <1>8, <1>9, <1>10, <1>11, <1>12, <1>13, <1>14,
             <1>15 DEF Return

LEMMA ChatFollows ==
  ASSUME FollowInv, NEW t \in Tabs, NEW s \in Slots, Chat(t, s)
  PROVE  ClientStep(t)
<1>. PICK k : k = task[t][s]
  OBVIOUS
<1>1. CASE ChatAnswers(t, s)
  <2>1. /\ k.kind = "ask" /\ UNCHANGED store
        /\ Await(t, s, [k EXCEPT !.pc = "saving"], TurnCalls(s, k.conv, k.question))
    BY <1>1 DEF ChatAnswers
  <2>2. k.conv \in Ids /\ k.question \in Questions
    BY <2>1, ChatIs DEF FollowInv
  <2>3. PICK next : Await(t, s, next, TurnCalls(s, k.conv, k.question))
    BY <2>1
  <2>. QED  BY <2>1, <2>2, <2>3, TurnInOrder, BeginsStep
<1>2. CASE ChatFails(t, s)
  <2>1. messages' = messages /\ calls' = calls
    BY <1>2 DEF ChatFails, serverVars, store
  <2>. QED  BY <2>1, StillFollows DEF ClientStep
<1>. QED  BY <1>1, <1>2 DEF Chat

LEMMA FollowKept ==
  ASSUME FollowInv, "server" \notin Faults, [Next]_vars
  PROVE  FollowInv'
<1>1. DashboardInv'
  BY DashboardKept DEF FollowInv
<1>2. ASSUME NEW t \in Tabs, Visit(t) \/ Act(t) \/ Respond(t) \/ \E s \in Slots : Chat(t, s)
      PROVE  OrderInv' /\ AnswerFollowsQuestion'
  <2>1. ClientStep(t) \/ (Serve(t) /\ UNCHANGED clientVars)
    BY <1>2, VisitFollows, ActFollows, ReturnFollows, ChatFollows DEF Respond
  <2>. QED  BY <2>1, ClientFollows, ServeFollows
<1>3. ASSUME UNCHANGED vars
      PROVE  OrderInv' /\ AnswerFollowsQuestion'
  <2>1. messages' = messages /\ calls' = calls
    BY <1>3 DEF vars, serverVars, store
  <2>2. AnswerFollowsQuestion' /\ MessagesGrow
    BY <2>1, StillFollows
  <2>3. OrderInv'
    BY <2>1 DEF FollowInv, OrderInv, OrderOK, MaySave, Settled, Message
  <2>. QED  BY <2>2, <2>3
<1>. QED  BY <1>1, <1>2, <1>3 DEF Next, FollowInv

\* While the database answers, every saved answer follows its question: the
\* two calls of a turn are sent in that order and served in order, and a
\* question that is not saved takes the answer's conversation with it, for
\* good.  (If a query may reject, the question alone may be lost.)
THEOREM AnswersFollow ==
  ASSUME "server" \notin Faults
  PROVE  Spec => []AnswerFollowsQuestion
<1>1. Init => FollowInv
  <2>1. ASSUME Init
        PROVE  OrderInv /\ AnswerFollowsQuestion
    BY <2>1 DEF Init, OrderInv, AnswerFollowsQuestion
  <2>. QED  BY <2>1, DashboardStarts DEF FollowInv
<1>2. FollowInv /\ [Next]_vars => FollowInv'
  BY FollowKept
<1>3. FollowInv => AnswerFollowsQuestion
  BY DEF FollowInv
<1>. QED  BY <1>1, <1>2, <1>3, PTL DEF Spec
=============================================================================
