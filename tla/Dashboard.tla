----------------------------- MODULE Dashboard -----------------------------
(***************************************************************************)
(* The dashboard: the page app/dashboard/page.tsx that renders the saved   *)
(* conversations and the client components/DashboardClient.tsx that calls  *)
(* the actions of Conversations.  A client handler runs to its next await  *)
(* in one step, and goes on with the state that its closure captured.      *)
(***************************************************************************)
EXTENDS Conversations

CONSTANTS
    Slots,               \* slots for the handlers of a tab in flight at once
    Questions,           \* what the owner may ask, each once
    Patient              \* the owner lets nothing overlap with a deletion

\* A message as the client shows it.
Turn == [question : Questions, role : {"user", "assistant", "error"}]

\* No list of messages and no slot is null.
ASSUME DashboardAssumption ==
    Patient \in BOOLEAN /\ None \notin Seq(Turn) /\ None \notin Slots

VARIABLES
    tab,        \* the React state of each tab
    task,       \* the handlers in flight and what their closures hold
    asked       \* ghost: the conversation each question was asked in

clientVars == <<tab, task, asked>>
vars == <<serverVars, clientVars>>

NoTask == [kind |-> "none"]

Init == /\ messages = [c \in {} |-> <<>>]
        /\ recent = <<>>
        /\ calls = [t \in Tabs |-> <<>>]
        /\ used = {}
        /\ rendered = {}
        /\ tab = [t \in Tabs |-> [pc |-> "closed"]]
        /\ task = [t \in Tabs |-> [s \in Slots |-> NoTask]]
        /\ asked = [q \in {} |-> None]

Running(t, kind) == {s \in Slots : task[t][s].kind = kind}

\* A bound: ids are kept for the handlers and pages that have yet to create.
SpareId == Cardinality(Ids \ used) >
    Cardinality(UNION {{t} \X (Running(t, "new") \cup Running(t, "delete")) : t \in Tabs})
      + Cardinality({t \in Tabs : tab[t].pc = "creating"})

Show(t, state) == tab' = [tab EXCEPT ![t] = state]

-----------------------------------------------------------------------------
\* DashboardPage: ensureInitialConversation, then loadConversation.

VisitFind(t) ==
    /\ tab[t].pc = "closed"
    /\ recent # <<>>
    /\ Show(t, [pc |-> "rendering", list |-> recent])
    /\ UNCHANGED <<serverVars, task, asked>>

VisitFindsNone(t) ==
    /\ tab[t].pc = "closed"
    /\ recent = <<>>
    /\ SpareId
    /\ Show(t, [pc |-> "creating"])
    /\ UNCHANGED <<serverVars, task, asked>>

VisitCreate(t, c) ==
    /\ tab[t].pc = "creating"
    /\ Create(c)
    /\ Show(t, [pc |-> "rendering", list |-> <<c>>])
    /\ UNCHANGED <<rendered, calls, task, asked>>

\* The client mounts, and asks for a token to list the tools with.
VisitLoad(t) ==
    LET list == tab[t].list
        c == Head(list) IN
    /\ tab[t].pc = "rendering"
    /\ calls' = [calls EXCEPT ![t] = Append(@, Call(None, "token", None, None))]
    /\ Show(t, [pc |-> "open", list |-> list, active |-> c,
                turns |-> IF Exists(c) THEN messages[c] ELSE <<>>,
                loading |-> FALSE, switching |-> FALSE])
    /\ UNCHANGED <<store, task, asked>>

\* A query rejects: the owner sees an error page and may come back.
VisitFails(t) ==
    /\ "server" \in Faults
    /\ tab[t].pc \in {"creating", "rendering"}
    /\ Show(t, [pc |-> "closed"])
    /\ UNCHANGED <<serverVars, task, asked>>

-----------------------------------------------------------------------------
\* The owner acts.

Busy(t) == tab[t].loading \/ tab[t].switching

MayStart(t, s) ==
    /\ tab[t].pc = "open"
    /\ task[t][s] = NoTask
    /\ Patient => Running(t, "delete") = {}

\* The handler in slot s awaits these calls.
Await(t, s, k, more) ==
    /\ task' = [task EXCEPT ![t][s] = k]
    /\ calls' = [calls EXCEPT ![t] = @ \o more]

\* The conversation handleAsk captures.
AskIn_Newest(t) == Head(tab[t].list)       \* mutant: the first of the list
AskIn(t) == tab[t].active

\* handleAsk; chat() first has an action mint a token.
AskCalls(s, c, q) == <<Call(s, "token", None, None)>>

StartAsk(t, s, q) ==
    /\ MayStart(t, s) /\ ~Busy(t)
    /\ q \notin DOMAIN asked
    /\ asked' = [p \in DOMAIN asked \cup {q} |-> IF p = q THEN tab[t].active ELSE asked[p]]
    /\ Show(t, [tab[t] EXCEPT !.turns = Append(@, Message(q, "user")), !.loading = TRUE])
    /\ Await(t, s, [kind |-> "ask", pc |-> "token", question |-> q, conv |-> AskIn(t)],
             AskCalls(s, AskIn(t), q))
    /\ UNCHANGED store

\* handleNew.
StartNew(t, s) ==
    /\ MayStart(t, s) /\ ~Busy(t)
    /\ SpareId
    /\ Show(t, [tab[t] EXCEPT !.switching = TRUE])
    /\ Await(t, s, [kind |-> "new"], <<Call(s, "create", None, None)>>)
    /\ UNCHANGED <<store, asked>>

\* handleSelect.
StartSelect(t, s, c) ==
    /\ MayStart(t, s) /\ ~Busy(t)
    /\ c # tab[t].active
    /\ Show(t, [tab[t] EXCEPT !.switching = TRUE])
    /\ Await(t, s, [kind |-> "select", conv |-> c], <<Call(s, "load", c, None)>>)
    /\ UNCHANGED <<store, asked>>

\* handleRename has no guard: its input may lose the focus at any time.
StartRename(t, s, c) ==
    /\ MayStart(t, s)
    /\ Await(t, s, [kind |-> "rename", conv |-> c], <<Call(s, "rename", c, None)>>)
    /\ UNCHANGED <<store, tab, asked>>

\* handleDelete: the button is disabled while the tab is busy, but the tab is
\* not busy until the server has deleted.
StartDelete(t, s, c) ==
    /\ MayStart(t, s) /\ ~Busy(t)
    /\ Patient => \A r \in Slots : task[t][r] = NoTask
    /\ SpareId
    /\ Await(t, s, [kind |-> "delete", pc |-> "deleting", conv |-> c,
                    list |-> tab[t].list, active |-> tab[t].active],
             <<Call(s, "delete", c, None)>>)
    /\ UNCHANGED <<store, tab, asked>>

-----------------------------------------------------------------------------
\* The agent answers (external), and both messages are saved.

TurnCalls_Swapped(s, c, q) ==              \* mutant: the answer is sent first
    <<Call(s, "append", c, Message(q, "assistant")), Call(s, "append", c, Message(q, "user"))>>
TurnCalls(s, c, q) ==
    <<Call(s, "append", c, Message(q, "user")), Call(s, "append", c, Message(q, "assistant"))>>

ChatAnswers(t, s) ==
    LET k == task[t][s] IN
    /\ k.kind = "ask" /\ k.pc = "chat"
    /\ Show(t, [tab[t] EXCEPT !.turns = Append(@, Message(k.question, "assistant"))])
    /\ Await(t, s, [k EXCEPT !.pc = "saving"], TurnCalls(s, k.conv, k.question))
    /\ UNCHANGED <<store, asked>>

\* An answer that never came is shown as an error and not saved.
Failed(t, q) == [tab[t] EXCEPT !.turns = Append(@, Message(q, "error")), !.loading = FALSE]

ChatFails(t, s) ==
    LET k == task[t][s] IN
    /\ "chat" \in Faults
    /\ k.kind = "ask" /\ k.pc = "chat"
    /\ Show(t, Failed(t, k.question))
    /\ task' = [task EXCEPT ![t][s] = NoTask]
    /\ UNCHANGED <<serverVars, asked>>

-----------------------------------------------------------------------------
\* A response arrives: the handler that waits for it runs to its next await.

\* The handler goes on as k and calls `more`; the answered call is gone.
Resume(t, k, more) ==
    /\ task' = [task EXCEPT ![t][Oldest(t).task] = k]
    /\ calls' = [calls EXCEPT ![t] = Tail(@) \o more]

\* The handler ends; what else it has called, nobody waits for.
Orphaned(c, s) == IF c.task = s THEN [c EXCEPT !.task = None] ELSE c

Finish(t) ==
    LET s == Oldest(t).task IN
    /\ task' = [task EXCEPT ![t][s] = NoTask]
    /\ calls' = [calls EXCEPT ![t] = [i \in 1..(Len(@) - 1) |-> Orphaned(@[i + 1], s)]]

\* The handler that waits for the oldest call, which has been answered so.
Awaited(t, kind, stage) ==
    /\ At(t, stage)
    /\ Oldest(t).task # None
    /\ task[t][Oldest(t).task].kind = kind

Waiting(t) == task[t][Oldest(t).task]

OrphanReturns(t) ==
    /\ calls[t] # <<>> /\ Oldest(t).task = None
    /\ Oldest(t).stage \in {"done", "failed"}
    /\ calls' = [calls EXCEPT ![t] = Tail(@)]
    /\ UNCHANGED <<store, clientVars>>

TokenReturns(t) ==
    /\ Awaited(t, "ask", "done") /\ Waiting(t).pc = "token"
    /\ Resume(t, [Waiting(t) EXCEPT !.pc = "chat"], <<>>)
    /\ UNCHANGED <<store, tab, asked>>

TokenFails(t) ==
    /\ Awaited(t, "ask", "failed") /\ Waiting(t).pc = "token"
    /\ Show(t, Failed(t, Waiting(t).question))
    /\ Finish(t)
    /\ UNCHANGED <<store, asked>>

\* touchConversation: a listed conversation moves to the front.
Touched_InPlace(list, c) == list           \* mutant: not sorted again
Touched(list, c) == IF c \in ToSet(list) THEN ToFront(list, c) ELSE list

\* Promise.all: the first of the two, then the second.
SavedOne(t) ==
    /\ Awaited(t, "ask", "done") /\ Waiting(t).pc = "saving"
    /\ Resume(t, [Waiting(t) EXCEPT !.pc = "saved one"], <<>>)
    /\ UNCHANGED <<store, tab, asked>>

SavedBoth(t) ==
    /\ Awaited(t, "ask", "done") /\ Waiting(t).pc = "saved one"
    /\ Show(t, [tab[t] EXCEPT !.list = Touched(@, Waiting(t).conv), !.loading = FALSE])
    /\ Finish(t)
    /\ UNCHANGED <<store, asked>>

\* Either rejects: it is logged, and the tab is no longer loading.
SaveFails_NoFinally(t) ==                  \* mutant: the tab stays loading
    /\ Awaited(t, "ask", "failed") /\ Waiting(t).pc # "token"
    /\ Finish(t)
    /\ UNCHANGED <<store, tab, asked>>
SaveFails(t) ==
    /\ Awaited(t, "ask", "failed") /\ Waiting(t).pc # "token"
    /\ Show(t, [tab[t] EXCEPT !.loading = FALSE])
    /\ Finish(t)
    /\ UNCHANGED <<store, asked>>

NewReturns_Only(t) ==                      \* mutant: setConversations([conv])
    LET c == Oldest(t).result IN
    /\ Awaited(t, "new", "done")
    /\ Show(t, [tab[t] EXCEPT !.list = <<c>>, !.active = c, !.turns = <<>>,
                              !.switching = FALSE])
    /\ Finish(t)
    /\ UNCHANGED <<store, asked>>
NewReturns(t) ==
    LET c == Oldest(t).result IN
    /\ Awaited(t, "new", "done")
    /\ Show(t, [tab[t] EXCEPT !.list = <<c>> \o @, !.active = c, !.turns = <<>>,
                              !.switching = FALSE])
    /\ Finish(t)
    /\ UNCHANGED <<store, asked>>

\* loadConversation may answer null: then nothing is switched.
SelectReturns(t) ==
    LET loaded == Oldest(t).result IN
    /\ Awaited(t, "select", "done")
    /\ Show(t, IF loaded = None THEN [tab[t] EXCEPT !.switching = FALSE]
               ELSE [tab[t] EXCEPT !.active = Waiting(t).conv, !.turns = loaded,
                                   !.switching = FALSE])
    /\ Finish(t)
    /\ UNCHANGED <<store, asked>>

RenameReturns(t) ==
    /\ Awaited(t, "rename", "done")
    /\ Show(t, [tab[t] EXCEPT !.list = Touched(@, Waiting(t).conv)])
    /\ Finish(t)
    /\ UNCHANGED <<store, asked>>

\* What remains is computed from the list the closure captured.
Remaining(k) == Without(k.list, {k.conv})

DeleteReturns(t) ==
    LET k == Waiting(t)
        left == Remaining(k) IN
    /\ Awaited(t, "delete", "done") /\ k.pc = "deleting"
    /\ \/ /\ left = <<>>
          /\ Show(t, [tab[t] EXCEPT !.switching = TRUE])
          /\ Resume(t, [k EXCEPT !.pc = "creating"],
                    <<Call(Oldest(t).task, "create", None, None)>>)
       \/ /\ left # <<>> /\ k.conv = k.active
          /\ Show(t, [tab[t] EXCEPT !.list = left, !.switching = TRUE])
          /\ Resume(t, [k EXCEPT !.pc = "loading", !.conv = Head(left)],
                    <<Call(Oldest(t).task, "load", Head(left), None)>>)
       \/ /\ left # <<>> /\ k.conv # k.active
          /\ Show(t, [tab[t] EXCEPT !.list = left])
          /\ Finish(t)
    /\ UNCHANGED <<store, asked>>

DeleteCreated(t) ==
    LET c == Oldest(t).result IN
    /\ Awaited(t, "delete", "done") /\ Waiting(t).pc = "creating"
    /\ Show(t, [tab[t] EXCEPT !.list = <<c>>, !.active = c, !.turns = <<>>, !.switching = FALSE])
    /\ Finish(t)
    /\ UNCHANGED <<store, asked>>

DeleteLoaded(t) ==
    LET loaded == Oldest(t).result IN
    /\ Awaited(t, "delete", "done") /\ Waiting(t).pc = "loading"
    /\ Show(t, [tab[t] EXCEPT !.active = Waiting(t).conv, !.switching = FALSE,
                              !.turns = IF loaded = None THEN <<>> ELSE loaded])
    /\ Finish(t)
    /\ UNCHANGED <<store, asked>>

\* handleNew and handleSelect log the error, handleRename too; handleDelete
\* returns if the deletion failed and rejects if what follows it did.
OthersFail(t) ==
    /\ \E kind \in {"new", "select", "rename", "delete"} : Awaited(t, kind, "failed")
    /\ Show(t, [tab[t] EXCEPT !.switching =
                    @ /\ (Waiting(t).kind = "rename" \/
                          (Waiting(t).kind = "delete" /\ Waiting(t).pc = "deleting"))])
    /\ Finish(t)
    /\ UNCHANGED <<store, asked>>

-----------------------------------------------------------------------------
Serve(t) ==
    \/ ServeRead(t) \/ ServeCheck(t) \/ ServeRename(t) \/ ServeAppend(t)
    \/ ServeDelete(t) \/ ServeGone(t) \/ ServeRevalidate(t) \/ ServeThrows(t)
    \/ \E c \in Ids : ServeCreate(t, c) \/ (SpareId /\ ServeRerender(t, c))

Return(t) ==
    \/ OrphanReturns(t) \/ TokenReturns(t) \/ TokenFails(t)
    \/ SavedOne(t) \/ SavedBoth(t) \/ SaveFails(t)
    \/ NewReturns(t) \/ SelectReturns(t) \/ RenameReturns(t)
    \/ DeleteReturns(t) \/ DeleteCreated(t) \/ DeleteLoaded(t) \/ OthersFail(t)

Visit(t) ==
    \/ VisitFind(t) \/ VisitFindsNone(t) \/ VisitLoad(t) \/ VisitFails(t)
    \/ \E c \in Ids : VisitCreate(t, c)

\* The steps that follow on their own once the owner has acted.
Respond(t) == (Serve(t) /\ UNCHANGED clientVars) \/ Return(t)

Chat(t, s) == ChatAnswers(t, s) \/ ChatFails(t, s)

Act(t) ==
    \E s \in Slots :
        \/ \E q \in Questions : StartAsk(t, s, q)
        \/ StartNew(t, s)
        \/ tab[t].pc = "open" /\ \E c \in ToSet(tab[t].list) :
                \/ StartSelect(t, s, c) \/ StartRename(t, s, c) \/ StartDelete(t, s, c)

Next == \E t \in Tabs : Visit(t) \/ Act(t) \/ Respond(t) \/ \E s \in Slots : Chat(t, s)

Spec == Init /\ [][Next]_vars

\* The event loops of server and browser serve what is pending, and a call of
\* the agent ends; the owner owes nothing.
FairSpec == Spec /\ \A t \in Tabs : /\ WF_vars(Respond(t))
                                   /\ \A s \in Slots : WF_vars(Chat(t, s))

-----------------------------------------------------------------------------
(***************************************************************************)
(* Properties.                                                             *)
(***************************************************************************)

\* The type invariant.
TypeOK ==
    /\ StoreTypeOK
    /\ \A t \in Tabs : tab[t].pc = "open" =>
          /\ tab[t].list \in Seq(Ids) /\ tab[t].list # <<>>
          /\ tab[t].active \in Ids
          /\ tab[t].turns \in Seq(Turn)
          /\ {tab[t].loading, tab[t].switching} \subseteq BOOLEAN
    /\ \A t \in Tabs : \A i \in DOMAIN calls[t] :
          /\ calls[t][i].task # None => task[t][calls[t][i].task] # NoTask
          /\ i > 1 => calls[t][i].stage = "sent"

\* Nothing is under way in an open tab.
Quiet(t) == /\ tab[t].pc = "open"
            /\ calls[t] = <<>>
            /\ \A s \in Slots : task[t][s] = NoTask

\* A message is saved in the conversation that was active when the question
\* was asked, whatever the owner switched to, deleted or created meanwhile.
SavedWhereAsked ==
    \A c \in DOMAIN messages : \A i \in DOMAIN messages[c] :
        asked[messages[c][i].question] = c

\* Every saved answer follows its question, though the two are saved by
\* separate calls that Promise.all starts together.
AnswerFollowsQuestion ==
    \A c \in DOMAIN messages : \A i \in DOMAIN messages[c] :
        messages[c][i].role = "assistant" =>
            \E j \in 1..(i - 1) : messages[c][j] = Message(messages[c][i].question, "user")

\* The only tab, once quiet, lists every conversation there is, in the order of
\* the server, and its active one among them; except for one that the page
\* created when it was rendered into the response to a deletion, which the
\* client's state does not take up: until a reload the tab lacks it.
ListMirrorsServer ==
    \A t \in Tabs : Quiet(t) =>
        /\ tab[t].list = Without(recent, rendered)
        /\ tab[t].active \in ToSet(tab[t].list)

\* Of what is shown, the questions whose answer never came and what was said of
\* them, and the rest.
Lost(turns) == {m \in Turn : Message(m.question, "error") \in ToSet(turns)}
Kept(turns) == Without(turns, Lost(turns))

\* The only tab, once quiet, shows what is saved in the active conversation,
\* and besides it only the questions whose answer never came.
ShownIsSaved ==
    \A t \in Tabs : Quiet(t) => Kept(tab[t].turns) = messages[tab[t].active]

\* "Never leave the user with zero conversations to select": once quiet, the
\* list has a conversation that exists.
OneToSelect ==
    \A t \in Tabs : Quiet(t) => \E c \in ToSet(tab[t].list) : Exists(c)

\* The controls come back: no failure leaves the tab disabled for ever.
ControlsReturn ==
    \A t \in Tabs : (tab[t].pc = "open" /\ Busy(t)) ~> (tab[t].pc = "open" /\ ~Busy(t))
=============================================================================
