----------------------- MODULE AgentSessionsTheorems -----------------------
(***************************************************************************)
(* Theorems about the programs that import the agent, for any number of    *)
(* sessions, threads, tools and interactions: the process logs in to Odoo  *)
(* at most once per worker, mock data never fail, what is not configured   *)
(* stays shut; however the runs of the page are cut short, a question is   *)
(* asked once and has its answer below it; no answer has a figure that is  *)
(* older than its question; the caches of the page are filled, kept and    *)
(* cleared in time; and requests that do not overlap are limited as the    *)
(* contract says.                                                          *)
(***************************************************************************)
EXTENDS AgentSessions, FiniteSetTheorems, TLAPS

-----------------------------------------------------------------------------
(***************************************************************************)
(* The invariants.                                                         *)
(***************************************************************************)

\* The workers between the test of the uid and the login it leads to.
LoggingIn == {w \in Workers : worker[w].at = "connecting"}

\* A login, and one that is under way, is a worker that found no uid.
LoginInv ==
    /\ ~connected => logins = 0
    /\ logins + Cardinality(LoggingIn) <= Cardinality(Workers)

\* What a backend that is not Odoo, or a configuration that is refused, rules
\* out for a worker's job.
JobOK(job) ==
    /\ env.backend = "mock" => /\ job.at \notin {"connecting", "calling"}
                               /\ job.at = "done" => ~job.raised
    /\ env.config = "refused" => job.at # "connecting"

GatewayInv ==
    /\ \A w \in Workers : JobOK(worker[w])
    /\ env.config = "refused" => logins = 0

\* A thread works for a request that passed the token and the limiter.
AdmissionInv ==
    /\ thread = [t \in Threads |-> thread[t]]
    /\ \A t \in Threads : /\ worker[t] # Resting => post[t].status = "routed"
                          /\ thread[t] # Idle => post[t].status = "limited"
                          /\ post[t] # Free => env.secret
    /\ ~env.secret => admitted = <<>>

\* The run has put its question in the conversation.
Submitted(p) ==
    \/ p.at \in {"asking", "answered", "rendered"}
    \/ p.at = "export" /\ p.reply # None

\* A reply is held from the answer to the end of the run.
ReplyOK(p) ==
    /\ p.at \in {"answered", "rendered"} => p.reply # None
    /\ p.reply # None => p.at \in {"answered", "export", "rendered"}

\* The questions of a conversation, by their numbers.
UserIds(turns) == {turns[i].id : i \in {j \in DOMAIN turns : turns[j].role = "user"}}

\* Every question once, every answer below its question.
TalkOK(turns) ==
    /\ \A i, j \in DOMAIN turns :
          turns[i].role = "user" /\ turns[j].role = "user" /\ turns[i].id = turns[j].id => i = j
    /\ \A i \in DOMAIN turns : turns[i].role = "assistant" =>
          i > 1 /\ turns[i - 1].role = "user" /\ turns[i - 1].id = turns[i].id

\* The last turn is the question with this number.
EndsWith(turns, id) ==
    /\ turns # <<>>
    /\ turns[Len(turns)].role = "user" /\ turns[Len(turns)].id = id

\* A question that waits is in one place only, and not in the conversation.
Apart(last, talked, a, b, c, d, e) ==
    /\ \A n \in talked \cup a \cup b \cup c \cup d \cup e : n <= last
    /\ talked \cap (a \cup b \cup c \cup d \cup e) = {}
    /\ a \cap (b \cup c \cup d \cup e) = {}
    /\ b \cap (c \cup d \cup e) = {}
    /\ c \cap (d \cup e) = {}
    /\ d \cap e = {}

Ids(entry) == IF entry = None THEN {} ELSE {entry.id}
Held(p, entry) == IF Submitted(p) THEN {} ELSE Ids(entry)

\* The places where a question of a session waits: two in the interaction
\* that no run has taken up, one in the session's state, two in the run.
WaitingOK(turns, last, want, p) ==
    Apart(last, UserIds(turns), Ids(want.ask), Ids(want.typed), Ids(p.pending),
          Held(p, p.query), Held(p, p.want.typed))

\* A session; the question of a run that has put it stays the last turn.
PageOK(turns, last, want, p) ==
    /\ ReplyOK(p)
    /\ TalkOK(turns)
    /\ WaitingOK(turns, last, want, p)
    /\ Submitted(p) => p.query # None /\ EndsWith(turns, p.query.id)

PageInv == \A s \in Sessions : PageOK(talk[s], asked[s], wanted[s], page[s])

\* A client's conversation; the request that is served has a number of its own.
ClientOK(t) ==
    /\ TalkOK(talk[t])
    /\ \A n \in UserIds(talk[t]) : n <= asked[t] /\ (post[t] # Free => n < asked[t])

ThreadInv == \A t \in Threads : ClientOK(t)

-----------------------------------------------------------------------------
(***************************************************************************)
(* Type correctness.                                                       *)
(***************************************************************************)

\* What the parts of route_query make of a job is a job.
LEMMA RunningType ==
  ASSUME NEW by, NEW tool \in Tools, NEW question,
         \/ by \in {"rules", "model"} /\ question \in Questions
         \/ by = "page" /\ question = None
  PROVE  Running(by, tool, question) \in Jobs
BY GatewayAssumption DEF Running, Jobs, Reading

LEMMA DoneType ==
  ASSUME NEW tool \in ReplyTools, NEW figures \in SUBSET Nat, NEW raised \in BOOLEAN
  PROVE  Done(tool, figures, raised) \in Jobs
BY DEF Done, Jobs, Replies

LEMMA ByRulesType ==
  ASSUME NEW question \in Questions
  PROVE  ByRules(question) \in Jobs
BY DEF ByRules, Jobs, Naming

LEMMA ChosenType ==
  ASSUME NEW question \in Questions
  PROVE  Chosen(question) \in Jobs
<1>1. CASE question \in Tools
  BY <1>1, RunningType DEF Chosen
<1>2. CASE question \notin Tools
  BY <1>2, DoneType DEF Chosen, ReplyTools
<1>. QED  BY <1>1, <1>2

LEMMA RaisedType ==
  ASSUME NEW job, job.by = "model" => job.question \in Questions
  PROVE  Raised(job) \in Jobs
<1>1. Done(None, {}, TRUE) \in Jobs
  BY DoneType DEF ReplyTools
<1>. QED  BY <1>1, ByRulesType DEF Raised

\* Where a job is says what it holds.
ReadingJobs ==
  Reading({"rules", "model"}, Questions) \cup Reading({"page"}, {None}) \cup Naming

LEMMA JobByPlace ==
  ASSUME NEW job \in Jobs
  PROVE  /\ job.at = "model" => job.question \in Questions /\ job.seen \in SUBSET Nat
         /\ job.at \in {"reading", "connecting", "calling"} => job \in ReadingJobs
         /\ job.at = "done" => job \in Replies
         /\ job.at = "resting" => job = Resting
BY DEF Jobs, Resting, Replies, ReadingJobs, Reading, Naming

LEMMA ReadingType ==
  ASSUME NEW job \in ReadingJobs
  PROVE  /\ job \in Jobs /\ Raised(job) \in Jobs
         /\ job.tool \in Tools \/ (job.tool = None /\ job.question \in Questions)
         /\ job.left \in Nat \ {0} /\ job.figures \in SUBSET Nat
         /\ \A place \in {"reading", "connecting", "calling"} : [job EXCEPT !.at = place] \in ReadingJobs
         /\ \A n \in Nat \ {0}, seen \in SUBSET Nat :
               job.tool # None => [job EXCEPT !.at = "reading", !.left = n, !.figures = seen] \in ReadingJobs
<1>1. job.by = "model" => job.question \in Questions
  BY DEF ReadingJobs, Reading, Naming
<1>2. Raised(job) \in Jobs
  BY <1>1, RaisedType
<1>3. job \in Jobs /\ job.left \in Nat \ {0} /\ job.figures \in SUBSET Nat
  BY DEF ReadingJobs, Jobs, Reading, Naming
<1>4. job.tool \in Tools \/ (job.tool = None /\ job.question \in Questions)
  BY DEF ReadingJobs, Reading, Naming
<1>5. ASSUME NEW place \in {"reading", "connecting", "calling"}
      PROVE  [job EXCEPT !.at = place] \in ReadingJobs
  <2>1. CASE job \in Naming
    BY <2>1 DEF ReadingJobs, Naming
  <2>2. CASE job \notin Naming
    BY <2>2 DEF ReadingJobs, Reading
  <2>. QED  BY <2>1, <2>2
<1>6. ASSUME NEW n \in Nat \ {0}, NEW seen \in SUBSET Nat, job.tool # None
      PROVE  [job EXCEPT !.at = "reading", !.left = n, !.figures = seen] \in ReadingJobs
  <2>1. job \notin Naming
    BY <1>6 DEF Naming
  <2>. QED  BY <2>1 DEF ReadingJobs, Reading
<1>. QED  BY <1>2, <1>3, <1>4, <1>5, <1>6

\* The part of SessionsTypeOK about the gateway.
GatewayTypes ==
    /\ env \in Environments /\ books \in Nat /\ connected \in BOOLEAN /\ logins \in Nat
    /\ worker \in [Workers -> Jobs]

LEMMA SetsType ==
  ASSUME NEW w \in Workers, NEW job \in Jobs, worker \in [Workers -> Jobs], Sets(w, job)
  PROVE  worker' \in [Workers -> Jobs]
BY DEF Sets

LEMMA GotType ==
  ASSUME GatewayTypes, NEW w \in Workers, worker[w] \in ReadingJobs
  PROVE  Got(w) \in Jobs
<1>. DEFINE job == worker[w]
            figures == job.figures \cup {books}
<1>1. figures \in SUBSET Nat
  BY ReadingType DEF GatewayTypes
<1>4. CASE job.tool = None
  <2>1. Chosen(job.question) \in Jobs
    BY <1>4, ReadingType, ChosenType, SessionsAssumption
  <2>. QED  BY <1>4, <2>1 DEF Got
<1>2. CASE job.tool # None /\ job.left = 1
  <2>1. Done(job.tool, figures, FALSE) \in Jobs
    BY <1>1, <1>2, ReadingType, DoneType DEF ReplyTools
  <2>. QED  BY <1>2, <2>1 DEF Got
<1>3. CASE job.tool # None /\ job.left # 1
  <2>1. job.left - 1 \in Nat \ {0}
    <3>1. job.left \in Nat \ {0}
      BY ReadingType
    <3>. QED  BY <1>3, <3>1
  <2>2. [job EXCEPT !.at = "reading", !.left = job.left - 1, !.figures = figures] \in ReadingJobs
    BY <1>1, <1>3, <2>1, ReadingType
  <2>3. [job EXCEPT !.at = "reading", !.left = job.left - 1, !.figures = figures] \in Jobs
    BY <2>2, ReadingType
  <2>. QED  BY <1>3, <2>3 DEF Got
<1>. QED  BY <1>2, <1>3, <1>4

LEMMA AnsweringTypes ==
  ASSUME GatewayTypes, NEW w \in Workers, Answering(w)
  PROVE  GatewayTypes'
<1>. USE DEF GatewayTypes
<1>1. worker[w] \in Jobs
  OBVIOUS
<1>2. CASE ModelTalks(w)
  <2>1. PICK figures \in {{}, worker[w].seen} : Sets(w, Done("assistant", figures, FALSE))
    BY <1>2 DEF ModelTalks
  <2>2. figures \in SUBSET Nat
    BY <1>1, <1>2, JobByPlace DEF ModelTalks
  <2>3. Done("assistant", figures, FALSE) \in Jobs
    BY <2>2, DoneType DEF ReplyTools
  <2>. QED  BY <1>2, <2>1, <2>3, SetsType DEF ModelTalks
<1>3. CASE ModelCalls(w)
  <2>1. PICK tool \in Tools : Sets(w, Running("model", tool, worker[w].question))
    BY <1>3 DEF ModelCalls
  <2>2. Running("model", tool, worker[w].question) \in Jobs
    BY <1>1, <1>3, JobByPlace, RunningType DEF ModelCalls
  <2>. QED  BY <1>3, <2>1, <2>2, SetsType DEF ModelCalls
<1>4. CASE ModelFails(w)
  <2>1. Raised([by |-> "model", question |-> worker[w].question]) \in Jobs
    BY <1>1, <1>4, JobByPlace, RaisedType DEF ModelFails
  <2>. QED  BY <1>4, <2>1, SetsType DEF ModelFails
<1>5. CASE StartRead(w)
  <2>1. worker[w] \in ReadingJobs
    BY <1>1, <1>5, JobByPlace DEF StartRead
  <2>2. Got(w) \in Jobs /\ Connecting(w) \in Jobs /\ [worker[w] EXCEPT !.at = "calling"] \in Jobs
    BY <2>1, GotType, ReadingType DEF Connecting
  <2>. QED  BY <1>5, <2>2, SetsType DEF StartRead
<1>6. CASE Login(w)
  <2>1. [worker[w] EXCEPT !.at = "calling"] \in Jobs
    BY <1>1, <1>6, JobByPlace, ReadingType DEF Login
  <2>. QED  BY <1>6, <2>1, SetsType DEF Login, Keep
<1>7. CASE LoginFails(w) \/ CallFails(w)
  <2>1. Raised(worker[w]) \in Jobs
    BY <1>1, <1>7, JobByPlace, ReadingType DEF LoginFails, CallFails
  <2>. QED  BY <1>7, <2>1, SetsType DEF LoginFails, CallFails
<1>8. CASE Called(w)
  <2>1. Got(w) \in Jobs
    BY <1>1, <1>8, JobByPlace, GotType DEF Called
  <2>. QED  BY <1>8, <2>1, SetsType DEF Called
<1>. QED  BY <1>2, <1>3, <1>4, <1>5, <1>6, <1>7, <1>8 DEF Answering

\* The part of SessionsTypeOK about the sessions.
PageTypes ==
    /\ program \in {"api", "page"}
    /\ talk \in [Workers -> Seq(Messages)] /\ asked \in [Workers -> Nat]
    /\ post \in [Threads -> Requests \cup {Free}]
    /\ page \in [Sessions -> Pages] /\ wanted \in [Sessions -> Wants]
    /\ cache \in [{"data", "lists", "export"} -> (SUBSET Nat) \cup {None}]

LEMMA TypeParts ==
    /\ SessionsTypeOK <=> GatewayTypes /\ PageTypes
    /\ SessionsTypeOK' <=> GatewayTypes' /\ PageTypes'
BY DEF SessionsTypeOK, GatewayTypes, PageTypes

\* What the model is sent of a conversation.
LEMMA CarriedType ==
  ASSUME NEW turns \in Seq(Messages), NEW kinds
  PROVE  Carried(turns, kinds) \in SUBSET Nat
<1>1. ASSUME NEW i \in DOMAIN turns, turns[i].role = "assistant"
      PROVE  turns[i].figures \in SUBSET Nat
  <2>1. turns[i] \in Messages
    OBVIOUS
  <2>. QED  BY <1>1, <2>1 DEF Messages
<1>. QED  BY <1>1 DEF Carried

LEMMA RouteQueryTypes ==
  ASSUME GatewayTypes, NEW w \in Workers, NEW question \in Questions, NEW seen \in SUBSET Nat,
         RouteQuery(w, question, seen), UNCHANGED <<env, books, connected, logins>>
  PROVE  GatewayTypes'
<1>1. [at |-> "model", question |-> question, seen |-> seen] \in Jobs
  BY DEF Jobs
<1>2. ByRules(question) \in Jobs
  BY ByRulesType
<1>. QED  BY <1>1, <1>2, SetsType DEF RouteQuery, GatewayTypes

\* Messages keep their type as they are made, from entries and replies.
LEMMA UserType ==
  ASSUME NEW n \in Nat, NEW question \in Questions
  PROVE  User(n, question) \in Messages
BY DEF User, Messages

LEMMA AssistantType ==
  ASSUME NEW n \in Nat, NEW reply \in Replies, NEW since \in Nat
  PROVE  Assistant(n, reply, since) \in Messages
BY DEF Assistant, Messages, Replies

\* The service.
LEMMA PostTypes ==
  ASSUME SessionsTypeOK, NEW t \in Threads, NEW q \in Questions, NEW token \in {"valid", "expired"},
         Post(t, q, token)
  PROVE  SessionsTypeOK'
<1>1. [status |-> "limited", question |-> q, token |-> "valid", since |-> books] \in Requests
  BY DEF SessionsTypeOK, Requests
<1>2. asked' \in [Workers -> Nat]
  BY SessionsAssumption DEF SessionsTypeOK, Post
<1>3. post' \in [Threads -> Requests \cup {Free}]
  BY <1>1 DEF SessionsTypeOK, Post, Authenticated
<1>. QED  BY <1>2, <1>3 DEF SessionsTypeOK, Post, gatewayVars

LEMMA LimitTypes ==
  ASSUME SessionsTypeOK, AdmissionInv, NEW t \in Threads, Limit(t)
  PROVE  SessionsTypeOK'
<1>1. thread[t] # Idle
  BY DEF Limit, FilterEnd, Refuse, Admit, RegisterStart, RegisterEnd, Idle
<1>2. post[t] \in Requests
  BY <1>1 DEF SessionsTypeOK, AdmissionInv, Free
<1>3. [post[t] EXCEPT !.status = "admitted"] \in Requests
  BY <1>2 DEF Requests
<1>4. post' \in [Threads -> Requests \cup {Free}]
  BY <1>3 DEF SessionsTypeOK, Limit
<1>. QED  BY <1>4 DEF SessionsTypeOK, Limit, gatewayVars

LEMMA RouteTypes ==
  ASSUME SessionsTypeOK, NEW t \in Threads, Route(t)
  PROVE  SessionsTypeOK'
<1>1. post[t] \in Requests
  BY DEF SessionsTypeOK, Route, Free
<1>2. post[t].question \in Questions /\ [post[t] EXCEPT !.status = "routed"] \in Requests
  BY <1>1 DEF Requests
<1>3. post' \in [Threads -> Requests \cup {Free}]
  BY <1>2 DEF SessionsTypeOK, Route
<1>4. t \in Workers /\ talk[t] \in Seq(Messages)
  BY SessionsAssumption DEF SessionsTypeOK
<1>5. GatewayTypes'
  BY <1>2, <1>4, CarriedType, RouteQueryTypes, TypeParts DEF Route
<1>6. PageTypes'
  BY <1>3, TypeParts DEF PageTypes, Route
<1>. QED  BY <1>5, <1>6, TypeParts

LEMMA RespondTypes ==
  ASSUME SessionsTypeOK, NEW t \in Threads, Respond(t)
  PROVE  SessionsTypeOK'
<1>1. post[t] \in Requests
  BY DEF SessionsTypeOK, Respond, Free
<1>2. post[t].question \in Questions /\ post[t].since \in Nat
  BY <1>1 DEF Requests
<1>3. t \in Workers /\ talk[t] \in Seq(Messages) /\ asked[t] \in Nat /\ worker[t] \in Jobs
  BY SessionsAssumption DEF SessionsTypeOK
<1>4. worker[t] \in Replies
  BY <1>3, JobByPlace DEF Respond
<1>5. /\ User(asked[t], post[t].question) \in Messages
      /\ Assistant(asked[t], worker[t], post[t].since) \in Messages
  BY <1>2, <1>3, <1>4, UserType, AssistantType
<1>6. talk[t] \o <<User(asked[t], post[t].question), Assistant(asked[t], worker[t], post[t].since)>>
        \in Seq(Messages)
  BY <1>3, <1>5
<1>7. talk' \in [Workers -> Seq(Messages)]
  BY <1>6 DEF SessionsTypeOK, Respond
<1>8. worker' \in [Workers -> Jobs]
  BY <1>3 DEF SessionsTypeOK, Respond, Sets, Jobs
<1>. QED  BY <1>7, <1>8 DEF SessionsTypeOK, Respond

\* An interaction, and a run of the page up to its next call of Streamlit.
LEMMA InteractionTypes ==
  ASSUME SessionsTypeOK, NEW s \in Sessions, NEW want \in Wants, Interaction(s, want)
  PROVE  SessionsTypeOK'
<1>1. asked' \in [Workers -> Nat]
  BY SessionsAssumption DEF SessionsTypeOK, Interaction
<1>2. wanted' \in [Sessions -> Wants]
  BY DEF SessionsTypeOK, Interaction
<1>. QED  BY <1>1, <1>2 DEF SessionsTypeOK, Interaction, gatewayVars

Interacts(s) == \/ \E q \in Questions : Click(s, q) \/ Type(s, q)
                \/ ClearChat(s) \/ Refresh(s)
                \/ \E view \in Views : Navigate(s, view)

LEMMA InteractsTypes ==
  ASSUME SessionsTypeOK, NEW s \in Sessions, Interacts(s)
  PROVE  SessionsTypeOK'
<1>1. wanted[s] \in Wants /\ s \in Workers
  BY SessionsAssumption DEF SessionsTypeOK
<1>2. ASSUME NEW q \in Questions, Click(s, q) \/ Type(s, q)
      PROVE  SessionsTypeOK'
  <2>1. Entry(s, q) \in Entries
    BY <1>1 DEF SessionsTypeOK, Entry, Entries
  <2>2. /\ [wanted[s] EXCEPT !.ask = Entry(s, q)] \in Wants
        /\ [wanted[s] EXCEPT !.typed = Entry(s, q)] \in Wants
    BY <1>1, <2>1 DEF Wants
  <2>. QED  BY <1>2, <2>2, InteractionTypes DEF Click, Type
<1>3. CASE ClearChat(s) \/ Refresh(s)
  <2>1. /\ [wanted[s] EXCEPT !.clear = TRUE] \in Wants
        /\ [wanted[s] EXCEPT !.refresh = TRUE] \in Wants
    BY <1>1 DEF Wants
  <2>. QED  BY <1>3, <2>1, InteractionTypes DEF ClearChat, Refresh
<1>4. ASSUME NEW view \in Views, Navigate(s, view)
      PROVE  SessionsTypeOK'
  <2>1. [wanted[s] EXCEPT !.view = view] \in Wants
    BY <1>1 DEF Wants
  <2>. QED  BY <1>4, <2>1, InteractionTypes DEF Navigate
<1>. QED  BY <1>2, <1>3, <1>4 DEF Interacts

\* A step of a run changes the page of its session to another one.
LEMMA TurnsType ==
  ASSUME PageTypes, NEW s \in Sessions, NEW p \in Pages, Turns(s, p)
  PROVE  page' \in [Sessions -> Pages]
BY DEF PageTypes, Turns

LEMMA NothingType == Nothing \in Wants
BY DEF Nothing, Wants

LEMMA EndedType ==
  ASSUME NEW p \in Pages
  PROVE  /\ Ended(p) \in Pages
         /\ \A place \in {"idle", "top"} : [Ended(p) EXCEPT !.at = place] \in Pages
BY NothingType DEF Ended, Pages

LEMMA BeginTypes ==
  ASSUME SessionsTypeOK, NEW s \in Sessions, Begin(s)
  PROVE  SessionsTypeOK'
<1>. DEFINE ended == Ended(page[s])
            ask == IF wanted[s].ask # None THEN wanted[s].ask ELSE ended.pending
            view == IF wanted[s].view # None THEN wanted[s].view ELSE ended.view
            begun == [ended EXCEPT !.at = "top", !.want = wanted[s], !.pending = ask, !.view = view]
<1>1. ended \in Pages /\ wanted[s] \in Wants
  BY EndedType DEF SessionsTypeOK
<1>2. ask \in Entries \cup {None} /\ view \in Views
  BY <1>1 DEF Pages, Wants
<1>3. begun \in Pages
  <2>. HIDE DEF ended, ask, view
  <2>. QED  BY <1>1, <1>2 DEF Pages
<1>4. Turns(s, begun)
  BY DEF Begin
<1>5. page' \in [Sessions -> Pages]
  <2>. HIDE DEF begun
  <2>. QED  BY <1>3, <1>4 DEF SessionsTypeOK, Turns
<1>6. wanted' \in [Sessions -> Wants]
  BY NothingType DEF SessionsTypeOK, Begin
<1>. QED  BY <1>5, <1>6 DEF SessionsTypeOK, Begin, gatewayVars

LEMMA SidebarTypes ==
  ASSUME SessionsTypeOK, NEW s \in Sessions, Sidebar(s)
  PROVE  SessionsTypeOK'
<1>1. page[s] \in Pages
  BY DEF SessionsTypeOK
<1>. DEFINE p == [Popped(page[s]) EXCEPT
                    !.view = IF page[s].pending # None THEN "assistant" ELSE Popped(page[s]).view]
<1>2. p \in Pages
  BY <1>1 DEF Popped, Pages, Views
<1>3. \/ talk' = [talk EXCEPT ![s] = <<>>] /\ Turns(s, [Ended(p) EXCEPT !.at = "top"])
      \/ talk' = talk /\ Turns(s, [p EXCEPT !.at = "view"])
  BY DEF Sidebar
<1>. HIDE DEF p
<1>4. [p EXCEPT !.at = "view"] \in Pages
  BY <1>2 DEF Pages
<1>5. page' \in [Sessions -> Pages]
  BY <1>2, <1>3, <1>4, EndedType, TurnsType, TypeParts
<1>6. talk' \in [Workers -> Seq(Messages)]
  <2>1. talk \in [Workers -> Seq(Messages)] /\ <<>> \in Seq(Messages)
    BY DEF SessionsTypeOK
  <2>. QED  BY <1>3, <2>1
<1>. QED  BY <1>5, <1>6 DEF SessionsTypeOK, Sidebar, RunOnly

LEMMA ViewTypes ==
  ASSUME SessionsTypeOK, NEW s \in Sessions, View(s)
  PROVE  SessionsTypeOK'
<1>1. page[s] \in Pages
  BY DEF SessionsTypeOK
<1>2. PICK place \in {"data", "export", "ready"}, seen \in [at : Nat, alone : BOOLEAN] \cup {None} :
        Turns(s, [page[s] EXCEPT !.at = place, !.refreshed = seen])
  <2>. DEFINE dashboard == page[s].view = "dashboard"
              place == IF dashboard THEN "data" ELSE IF Statements(talk[s]) # {} THEN "export" ELSE "ready"
              seen == IF dashboard /\ page[s].want.refresh
                      THEN [at |-> books, alone |-> ~\E r \in Sessions : Loading(r)] ELSE None
  <2>1. Turns(s, [page[s] EXCEPT !.at = place, !.refreshed = seen])
    BY DEF View
  <2>2. seen \in [at : Nat, alone : BOOLEAN] \cup {None}
    BY DEF SessionsTypeOK
  <2>3. place \in {"data", "export", "ready"}
    OBVIOUS
  <2>. HIDE DEF place, seen
  <2>. QED  BY <2>1, <2>2, <2>3
<1>3. [page[s] EXCEPT !.at = place, !.refreshed = seen] \in Pages
  BY <1>1 DEF Pages
<1>4. page' \in [Sessions -> Pages]
  BY <1>2, <1>3, TurnsType, TypeParts
<1>5. cache' \in [{"data", "lists", "export"} -> (SUBSET Nat) \cup {None}]
  BY DEF SessionsTypeOK, View, Cleared
<1>. QED  BY <1>4, <1>5 DEF SessionsTypeOK, View, RunOnly

LEMMA FetchedType ==
  ASSUME NEW p \in Pages, p.at \in {"data", "lists", "export"}, NEW figures \in SUBSET Nat
  PROVE  Fetched(p, figures) \in Pages
<1>. DEFINE shown == IF p.at = "export" THEN p.shown ELSE p.shown \cup figures
            place == CASE p.at = "data" -> "lists"
                       [] p.at = "lists" -> "ready"
                       [] p.at = "export" -> IF p.reply # None THEN "rendered" ELSE "ready"
<1>1. shown \in SUBSET Nat
  BY DEF Pages
<1>2. place \in {"lists", "ready", "rendered"}
  OBVIOUS
<1>3. Fetched(p, figures) = [p EXCEPT !.shown = shown, !.at = place]
  BY DEF Fetched
<1>. HIDE DEF shown, place
<1>. QED  BY <1>1, <1>2, <1>3 DEF Pages

LEMMA FetchTypes ==
  ASSUME SessionsTypeOK, NEW s \in Sessions, Fetch(s)
  PROVE  SessionsTypeOK'
<1>1. page[s] \in Pages /\ s \in Workers
  BY SessionsAssumption DEF SessionsTypeOK
<1>2. CASE cache[page[s].at] # None
  <2>1. cache[page[s].at] \in SUBSET Nat
    BY <1>2 DEF SessionsTypeOK, Fetch, At
  <2>2. Fetched(page[s], cache[page[s].at]) \in Pages
    BY <1>1, <2>1, FetchedType DEF Fetch, At
  <2>3. page' \in [Sessions -> Pages]
    BY <1>2, <2>2, TurnsType, TypeParts DEF Fetch
  <2>. QED  BY <1>2, <2>3 DEF SessionsTypeOK, Fetch, RunOnly
<1>3. CASE cache[page[s].at] = None
  <2>1. Running("page", Statement, None) \in Jobs
    BY SessionsAssumption, RunningType
  <2>2. Computation \in Jobs
    BY GatewayAssumption, SessionsAssumption, <2>1 DEF Computation, Running, Jobs, Reading
  <2>3. worker' \in [Workers -> Jobs]
    BY <1>1, <1>3, <2>2, SetsType DEF SessionsTypeOK, Fetch
  <2>. QED  BY <1>3, <2>3 DEF SessionsTypeOK, Fetch, RunOnly
<1>. QED  BY <1>2, <1>3

LEMMA RestingType ==
  ASSUME worker \in [Workers -> Jobs], NEW w \in Workers, Sets(w, Resting)
  PROVE  worker' \in [Workers -> Jobs]
BY DEF Sets, Jobs

LEMMA CachedTypes ==
  ASSUME SessionsTypeOK, NEW s \in Sessions, Cached(s)
  PROVE  SessionsTypeOK'
<1>1. page[s] \in Pages /\ s \in Workers /\ worker[s] \in Jobs
  BY SessionsAssumption DEF SessionsTypeOK
<1>2. worker[s] \in Replies
  BY <1>1, JobByPlace DEF Cached
<1>3. worker[s].figures \in SUBSET Nat
  BY <1>2 DEF Replies
<1>4. Stopped(page[s]) \in Pages /\ Fetched(page[s], worker[s].figures) \in Pages
  BY <1>1, <1>3, EndedType, FetchedType DEF Stopped, Cached, At
<1>5. page' \in [Sessions -> Pages]
  BY <1>4, TurnsType, TypeParts DEF Cached
<1>6. cache' \in [{"data", "lists", "export"} -> (SUBSET Nat) \cup {None}]
  BY <1>3 DEF SessionsTypeOK, Cached
<1>7. worker' \in [Workers -> Jobs]
  BY <1>1, RestingType DEF SessionsTypeOK, Cached
<1>. QED  BY <1>5, <1>6, <1>7 DEF SessionsTypeOK, Cached, RunOnly

\* What Submit puts in the conversation.
Input(p) == IF p.want.typed # None THEN p.want.typed ELSE p.query

LEMMA InputType ==
  ASSUME NEW p \in Pages
  PROVE  Input(p) \in Entries \cup {None}
<1>1. p.want \in Wants /\ p.query \in Entries \cup {None}
  BY DEF Pages
<1>2. p.want.typed \in Entries \cup {None}
  BY <1>1 DEF Wants
<1>. QED  BY <1>1, <1>2 DEF Input

\* The page once the question is in the conversation.
Asking(p, input) == [p EXCEPT !.at = "asking", !.view = "assistant", !.query = input,
                              !.again = p.view = "dashboard"]

LEMMA SubmitCases ==
  ASSUME NEW s \in Sessions, Submit(s)
  PROVE  LET input == Input(page[s])
         IN \/ /\ input = None
               /\ Turns(s, Ended(page[s])) /\ UNCHANGED <<worker, talk>>
            \/ /\ input # None
               /\ talk' = [talk EXCEPT ![s] = Append(@, User(input.id, input.question))]
               /\ Turns(s, Asking(page[s], input))
               /\ RouteQuery(s, input.question, Carried(talk[s], KeptByPage))
BY DEF Submit, Input, Asking, Put

LEMMA SubmitTypes ==
  ASSUME SessionsTypeOK, NEW s \in Sessions, Submit(s)
  PROVE  SessionsTypeOK'
<1>. DEFINE input == Input(page[s])
<1>1. page[s] \in Pages /\ s \in Workers /\ talk[s] \in Seq(Messages)
  BY SessionsAssumption DEF SessionsTypeOK
<1>2. input \in Entries \cup {None}
  BY <1>1, InputType
<1>3. RunOnly /\ cache' = cache
  BY DEF Submit
<1>4. CASE /\ input = None
           /\ Turns(s, Ended(page[s])) /\ UNCHANGED <<worker, talk>>
  <2>1. page' \in [Sessions -> Pages]
    BY <1>1, <1>4, EndedType, TurnsType, TypeParts
  <2>. QED  BY <1>3, <1>4, <2>1 DEF SessionsTypeOK, RunOnly
<1>5. CASE /\ input # None
           /\ talk' = [talk EXCEPT ![s] = Append(@, User(input.id, input.question))]
           /\ Turns(s, Asking(page[s], input))
           /\ RouteQuery(s, input.question, Carried(talk[s], KeptByPage))
  <2>. HIDE DEF input
  <2>1. input \in Entries /\ input.id \in Nat /\ input.question \in Questions
    BY <1>2, <1>5 DEF Entries
  <2>2. Append(talk[s], User(input.id, input.question)) \in Seq(Messages)
    BY <1>1, <2>1, UserType
  <2>3. Asking(page[s], input) \in Pages
    BY <1>1, <2>1 DEF Asking, Pages, Views
  <2>4. page' \in [Sessions -> Pages]
    BY <1>5, <2>3, TurnsType, TypeParts
  <2>5. talk' \in [Workers -> Seq(Messages)]
    BY <1>1, <1>5, <2>2 DEF SessionsTypeOK
  <2>6. GatewayTypes'
    BY <1>1, <1>3, <1>5, <2>1, CarriedType, RouteQueryTypes, TypeParts DEF RunOnly
  <2>7. PageTypes'
    BY <1>3, <2>4, <2>5, TypeParts DEF PageTypes, RunOnly
  <2>. QED  BY <2>6, <2>7, TypeParts
<1>. QED  BY <1>4, <1>5, SubmitCases

LEMMA AnsweredTypes ==
  ASSUME SessionsTypeOK, NEW s \in Sessions, Answered(s)
  PROVE  SessionsTypeOK'
<1>1. page[s] \in Pages /\ s \in Workers /\ worker[s] \in Jobs
  BY SessionsAssumption DEF SessionsTypeOK
<1>2. worker[s] \in Replies
  BY <1>1, JobByPlace DEF Answered
<1>3. ASSUME NEW place \in {"answered", "rendered"}
      PROVE  [page[s] EXCEPT !.at = place, !.reply = worker[s]] \in Pages
  BY <1>1, <1>2 DEF Pages
<1>4. page' \in [Sessions -> Pages]
  BY <1>3, TurnsType, TypeParts DEF Answered
<1>5. worker' \in [Workers -> Jobs]
  BY <1>1, RestingType DEF SessionsTypeOK, Answered
<1>. QED  BY <1>4, <1>5 DEF SessionsTypeOK, Answered, RunOnly

LEMMA RenderTypes ==
  ASSUME SessionsTypeOK, NEW s \in Sessions, Render(s)
  PROVE  SessionsTypeOK'
<1>1. [page[s] EXCEPT !.at = "export"] \in Pages
  BY ZenonT(60) DEF SessionsTypeOK, Pages
<1>2. page' \in [Sessions -> Pages]
  BY <1>1, TurnsType, TypeParts DEF Render
<1>. QED  BY <1>2 DEF SessionsTypeOK, Render, RunOnly

LEMMA JoinTypes ==
  ASSUME SessionsTypeOK, PageInv, NEW s \in Sessions, Join(s)
  PROVE  SessionsTypeOK'
<1>1. page[s] \in Pages /\ s \in Workers /\ talk[s] \in Seq(Messages)
  BY SessionsAssumption DEF SessionsTypeOK
<1>2. page[s].reply # None /\ page[s].query # None
  BY DEF Join, At, PageInv, PageOK, ReplyOK, Submitted
<1>3. page[s].reply \in Replies /\ page[s].query \in Entries
  BY <1>1, <1>2 DEF Pages
<1>4. Assistant(page[s].query.id, page[s].reply, page[s].query.since) \in Messages
  BY <1>3, AssistantType DEF Entries
<1>5. talk' \in [Workers -> Seq(Messages)]
  BY <1>1, <1>4 DEF SessionsTypeOK, Join
<1>6. page' \in [Sessions -> Pages]
  BY <1>1, EndedType, TurnsType, TypeParts DEF Join
<1>. QED  BY <1>5, <1>6 DEF SessionsTypeOK, Join, RunOnly

LEMMA InitTypes == SessionsInit => SessionsTypeOK
<1>. SUFFICES ASSUME SessionsInit
              PROVE  SessionsTypeOK
  OBVIOUS
<1>1. \A s \in Sessions : page[s] \in Pages
  BY NothingType DEF SessionsInit, Pages, Views
<1>2. page \in [Sessions -> Pages]
  BY <1>1 DEF SessionsInit
<1>3. worker \in [Workers -> Jobs] /\ books \in Nat /\ logins \in Nat /\ connected \in BOOLEAN
  BY DEF SessionsInit, GatewayInit, Jobs
<1>4. talk \in [Workers -> Seq(Messages)] /\ asked \in [Workers -> Nat]
  BY DEF SessionsInit
<1>. QED  BY <1>2, <1>3, <1>4, NothingType DEF SessionsInit, GatewayInit, SessionsTypeOK

LEMMA NextTypes ==
  ASSUME SessionsTypeOK, AdmissionInv, PageInv, [SessionsNext]_sessionsVars
  PROVE  SessionsTypeOK'
<1>1. ASSUME NEW t \in Threads, NEW q \in Questions, NEW token \in {"valid", "expired"}, Post(t, q, token)
      PROVE  SessionsTypeOK'
  BY <1>1, PostTypes
<1>2. ASSUME NEW t \in Threads, Limit(t) \/ Route(t) \/ Respond(t)
      PROVE  SessionsTypeOK'
  BY <1>2, LimitTypes, RouteTypes, RespondTypes
<1>3. CASE ClockTicks
  BY <1>3 DEF SessionsTypeOK, ClockTicks, gatewayVars, pageVars
<1>4. ASSUME NEW s \in Sessions, Interacts(s) \/ Begin(s)
      PROVE  SessionsTypeOK'
  BY <1>4, InteractsTypes, BeginTypes
<1>5. ASSUME NEW s \in Sessions, Script(s)
      PROVE  SessionsTypeOK'
  BY <1>5, SidebarTypes, ViewTypes, FetchTypes, CachedTypes, SubmitTypes, AnsweredTypes,
     RenderTypes, JoinTypes DEF Script
<1>6. ASSUME NEW w \in Workers, Agent(w)
      PROVE  SessionsTypeOK'
  <2>1. GatewayTypes'
    BY <1>6, AnsweringTypes, TypeParts DEF Agent
  <2>2. PageTypes'
    BY <1>6, TypeParts DEF PageTypes, Agent, pageVars
  <2>. QED  BY <2>1, <2>2, TypeParts
<1>7. CASE World
  BY <1>7 DEF SessionsTypeOK, World, BooksChange, pageVars
<1>8. CASE UNCHANGED sessionsVars
  BY <1>8 DEF SessionsTypeOK, sessionsVars, gatewayVars, pageVars
<1>. QED  BY <1>1, <1>2, <1>3, <1>4, <1>5, <1>6, <1>7, <1>8 DEF SessionsNext, Interacts, Views

-----------------------------------------------------------------------------
(***************************************************************************)
(* The gateway.                                                            *)
(***************************************************************************)

\* A job that is not at a call of Odoo's, and did not raise.
Calm(job) == job.at \notin {"connecting", "calling"} /\ (job.at = "done" => ~job.raised)

\* What the rules, a tool that starts and a reply that is complete are; an
\* exception is not calm, unless it came from the model.
LEMMA CalmJobs ==
  ASSUME NEW by, NEW tool, NEW question, NEW figures
  PROVE  /\ Calm(Resting) /\ Calm(Running(by, tool, question)) /\ Calm(Done(tool, figures, FALSE))
         /\ Calm(ByRules(question)) /\ Calm(Chosen(question))
BY DEF Calm, Resting, Running, Done, ByRules, Chosen

LEMMA RaisedJobs ==
  ASSUME NEW job
  PROVE  /\ Raised(job).at \notin {"connecting", "calling"}
         /\ job.by = "model" => Calm(Raised(job))
<1>1. Calm(ByRules(job.question))
  BY CalmJobs
<1>. QED  BY <1>1 DEF Raised, Done, Calm

LEMMA GotCalm ==
  ASSUME NEW w \in Workers, worker[w] \in ReadingJobs
  PROVE  Calm(Got(w))
<1>1. CASE worker[w].tool = None
  BY <1>1, CalmJobs DEF Got
<1>2. CASE worker[w].tool # None /\ worker[w].left = 1
  BY <1>2 DEF Got, Done, Calm
<1>3. CASE worker[w].tool # None /\ worker[w].left # 1
  BY <1>3 DEF Got, Calm, ReadingJobs, Reading, Naming
<1>. QED  BY <1>1, <1>2, <1>3

\* A job without a login leaves the count of the logins right.
LEMMA LoginSet ==
  ASSUME worker \in [Workers -> Jobs], LoginInv, NEW w \in Workers, NEW job, Sets(w, job),
         job.at # "connecting", logins \in Nat, UNCHANGED <<connected, logins>>
  PROVE  LoginInv'
<1>1. LoggingIn' \in SUBSET LoggingIn
  BY DEF LoggingIn, Sets
<1>2. IsFiniteSet(LoggingIn)
  BY GatewayAssumption, FS_Subset DEF LoggingIn
<1>3. /\ Cardinality(LoggingIn') <= Cardinality(LoggingIn)
      /\ Cardinality(LoggingIn) \in Nat /\ Cardinality(LoggingIn') \in Nat
      /\ Cardinality(Workers) \in Nat
  BY <1>1, <1>2, GatewayAssumption, FS_Subset, FS_CardinalityType
<1>. QED  BY <1>3 DEF LoginInv

LEMMA LoginStep ==
  ASSUME GatewayTypes, LoginInv, NEW w \in Workers, Answering(w)
  PROVE  LoginInv'
<1>. USE DEF GatewayTypes
<1>1. worker[w] \in Jobs
  OBVIOUS
<1>2. CASE ModelTalks(w) \/ ModelCalls(w) \/ ModelFails(w)
  <2>1. PICK job : Sets(w, job) /\ job.at # "connecting"
    BY <1>2, CalmJobs, RaisedJobs, ZenonT(60) DEF ModelTalks, ModelCalls, ModelFails, Calm
  <2>. QED  BY <1>2, <2>1, LoginSet DEF ModelTalks, ModelCalls, ModelFails
<1>3. CASE LoginFails(w) \/ CallFails(w) \/ Called(w)
  <2>1. PICK job : Sets(w, job) /\ job.at # "connecting"
    BY <1>1, <1>3, GotCalm, JobByPlace, RaisedJobs DEF LoginFails, CallFails, Called, Calm
  <2>. QED  BY <1>3, <2>1, LoginSet DEF LoginFails, CallFails, Called
<1>4. CASE StartRead(w)
  <2>1. worker[w] \in ReadingJobs
    BY <1>1, <1>4, JobByPlace DEF StartRead
  <2>2. CASE connected \/ env.backend = "mock" \/ env.config # "ok"
    <3>1. PICK job : Sets(w, job) /\ job.at # "connecting"
      <4>1. [worker[w] EXCEPT !.at = "calling"].at = "calling"
        BY <2>1 DEF ReadingJobs, Reading, Naming
      <4>. QED  BY <1>4, <2>1, <2>2, <4>1, GotCalm, RaisedJobs DEF StartRead, Connecting, Calm
    <3>. QED  BY <1>4, <3>1, LoginSet DEF StartRead
  <2>3. CASE ~connected
    <3>1. LoggingIn' \in SUBSET Workers /\ logins' = 0 /\ connected' = connected
      BY <1>4, <2>3 DEF StartRead, LoginInv, LoggingIn
    <3>2. Cardinality(LoggingIn') <= Cardinality(Workers) /\ Cardinality(LoggingIn') \in Nat
      BY <3>1, GatewayAssumption, FS_Subset, FS_CardinalityType
    <3>. QED  BY <3>1, <3>2 DEF LoginInv
  <2>. QED  BY <2>2, <2>3
<1>5. CASE Login(w)
  <2>1. [worker[w] EXCEPT !.at = "calling"].at = "calling"
    BY <1>1, <1>5, JobByPlace DEF Login, ReadingJobs, Reading, Naming
  <2>2. LoggingIn' = LoggingIn \ {w} /\ w \in LoggingIn
    BY <1>5, <2>1 DEF Login, Sets, LoggingIn
  <2>3. IsFiniteSet(LoggingIn)
    BY GatewayAssumption, FS_Subset DEF LoggingIn
  <2>4. Cardinality(LoggingIn') = Cardinality(LoggingIn) - 1 /\ Cardinality(LoggingIn) \in Nat
    BY <2>2, <2>3, FS_RemoveElement, FS_CardinalityType
  <2>5. Cardinality(Workers) \in Nat
    BY GatewayAssumption, FS_CardinalityType
  <2>. QED  BY <1>5, <2>4, <2>5 DEF Login, LoginInv, Keep
<1>. QED  BY <1>2, <1>3, <1>4, <1>5 DEF Answering

LEMMA GatewayStep ==
  ASSUME GatewayTypes, GatewayInv, NEW w \in Workers, Answering(w)
  PROVE  GatewayInv'
<1>. USE DEF GatewayTypes
<1>1. worker[w] \in Jobs /\ JobOK(worker[w])
  BY DEF GatewayInv
<1>2. env' = env
  BY DEF Answering, ModelTalks, ModelCalls, ModelFails, StartRead, Login, LoginFails, Called, CallFails
<1>3. ASSUME NEW job, Sets(w, job), JobOK(job), logins' = logins
      PROVE  GatewayInv'
  <2>1. \A v \in Workers : worker'[v] = IF v = w THEN job ELSE worker[v]
    BY <1>3 DEF Sets
  <2>2. \A v \in Workers : JobOK(worker[v])'
    BY <1>2, <1>3, <2>1 DEF GatewayInv, JobOK
  <2>. QED  BY <1>2, <1>3, <2>2 DEF GatewayInv
<1>4. ASSUME NEW job, Calm(job)
      PROVE  JobOK(job)
  BY <1>4 DEF Calm, JobOK
<1>5. CASE ModelTalks(w) \/ ModelCalls(w) \/ ModelFails(w)
  <2>1. PICK job : Sets(w, job) /\ Calm(job)
    BY <1>5, CalmJobs, RaisedJobs DEF ModelTalks, ModelCalls, ModelFails
  <2>2. logins' = logins
    BY <1>5 DEF ModelTalks, ModelCalls, ModelFails
  <2>. QED  BY <1>3, <1>4, <2>1, <2>2
<1>6. CASE LoginFails(w) \/ CallFails(w)
  <2>1. Sets(w, Raised(worker[w])) /\ logins' = logins
    BY <1>6 DEF LoginFails, CallFails
  <2>2. JobOK(Raised(worker[w]))
    BY <1>1, <1>6, RaisedJobs DEF LoginFails, CallFails, JobOK
  <2>. QED  BY <1>3, <2>1, <2>2
<1>7. CASE Called(w)
  <2>1. Sets(w, Got(w)) /\ logins' = logins /\ Calm(Got(w))
    BY <1>1, <1>7, JobByPlace, GotCalm DEF Called
  <2>. QED  BY <1>3, <1>4, <2>1
<1>8. CASE Login(w)
  <2>1. [worker[w] EXCEPT !.at = "calling"].at = "calling"
    BY <1>1, <1>8, JobByPlace DEF Login, ReadingJobs, Reading, Naming
  <2>2. env.backend # "mock" /\ env.config # "refused"
    BY <1>1, <1>8 DEF Login, JobOK
  <2>3. \A v \in Workers : JobOK(worker[v])'
    BY <1>2, <1>8, <2>1, <2>2 DEF Login, Sets, JobOK, GatewayInv
  <2>. QED  BY <1>2, <2>2, <2>3 DEF GatewayInv
<1>9. CASE StartRead(w)
  <2>1. worker[w] \in ReadingJobs /\ logins' = logins
    BY <1>1, <1>9, JobByPlace DEF StartRead
  <2>2. \A place \in {"calling", "connecting"} : [worker[w] EXCEPT !.at = place].at = place
    BY <2>1 DEF ReadingJobs, Reading, Naming
  <2>3. CASE env.backend = "mock"
    BY <1>3, <1>4, <1>9, <2>1, <2>3, GotCalm DEF StartRead
  <2>4. CASE env.backend # "mock" /\ connected
    BY <1>3, <1>9, <2>1, <2>2, <2>4 DEF StartRead, JobOK
  <2>5. CASE env.backend # "mock" /\ ~connected
    <3>1. JobOK(Connecting(w))
      BY <2>2, <2>5, RaisedJobs DEF Connecting, JobOK
    <3>. QED  BY <1>3, <1>9, <2>1, <2>5, <3>1 DEF StartRead
  <2>. QED  BY <2>3, <2>4, <2>5
<1>. QED  BY <1>5, <1>6, <1>7, <1>8, <1>9 DEF Answering

\* Outside of the agent a worker is given a calm job, or rests.
OutsideStep(w) ==
    /\ \E job : Sets(w, job) /\ Calm(job)
    /\ UNCHANGED <<env, connected, logins>>

LEMMA OutsideSafe ==
  ASSUME GatewayTypes, LoginInv, GatewayInv, NEW w \in Workers, OutsideStep(w)
  PROVE  LoginInv' /\ GatewayInv'
<1>1. PICK job : Sets(w, job) /\ Calm(job)
  BY DEF OutsideStep
<1>2. LoginInv'
  BY <1>1, LoginSet DEF GatewayTypes, OutsideStep, Calm
<1>3. \A v \in Workers : worker'[v] = IF v = w THEN job ELSE worker[v]
  BY <1>1 DEF Sets, GatewayTypes
<1>4. \A v \in Workers : JobOK(worker[v])'
  BY <1>1, <1>3 DEF GatewayInv, JobOK, Calm, OutsideStep
<1>. QED  BY <1>2, <1>4 DEF GatewayInv, OutsideStep

LEMMA GatewayStutter ==
  ASSUME LoginInv, GatewayInv, UNCHANGED <<env, connected, logins, worker>>
  PROVE  LoginInv' /\ GatewayInv'
BY DEF LoginInv, GatewayInv, LoggingIn, JobOK

LEMMA RouteQueryOutside ==
  ASSUME NEW w \in Workers, NEW question, NEW seen, RouteQuery(w, question, seen),
         UNCHANGED <<env, connected, logins>>
  PROVE  OutsideStep(w)
<1>1. Calm([at |-> "model", question |-> question, seen |-> seen]) /\ Calm(ByRules(question))
  BY CalmJobs DEF Calm
<1>. QED  BY <1>1 DEF RouteQuery, OutsideStep

LEMMA ComputationCalm == Calm(Computation)
BY DEF Calm, Computation, Running

LEMMA GatewayNext ==
  ASSUME SessionsTypeOK, LoginInv, GatewayInv, [SessionsNext]_sessionsVars
  PROVE  LoginInv' /\ GatewayInv'
<1>1. GatewayTypes
  BY TypeParts
<1>2. ASSUME NEW t \in Threads,
             Limit(t) \/ \E q \in Questions, token \in {"valid", "expired"} : Post(t, q, token)
      PROVE  LoginInv' /\ GatewayInv'
  BY <1>2, GatewayStutter DEF Post, Limit, gatewayVars
<1>3. ASSUME NEW t \in Threads, Route(t) \/ Respond(t)
      PROVE  LoginInv' /\ GatewayInv'
  <2>1. OutsideStep(t)
    BY <1>3, CalmJobs, RouteQueryOutside, SessionsAssumption DEF Route, Respond, OutsideStep
  <2>. QED  BY <1>1, <2>1, OutsideSafe, SessionsAssumption
<1>4. CASE ClockTicks \/ UNCHANGED sessionsVars
  BY <1>4, GatewayStutter DEF ClockTicks, gatewayVars, sessionsVars
<1>5. ASSUME NEW s \in Sessions, Interacts(s) \/ Begin(s)
      PROVE  LoginInv' /\ GatewayInv'
  BY <1>5, GatewayStutter DEF Interacts, Click, Type, ClearChat, Refresh, Navigate, Interaction,
     Begin, gatewayVars
<1>6. ASSUME NEW s \in Sessions, Script(s)
      PROVE  LoginInv' /\ GatewayInv'
  <2>1. UNCHANGED <<env, connected, logins>>
    BY <1>6 DEF Script, Sidebar, View, Fetch, Cached, Submit, Answered, Render, Join, RunOnly
  <2>2. CASE Sidebar(s) \/ View(s) \/ Render(s) \/ Join(s)
    BY <2>1, <2>2, GatewayStutter DEF Sidebar, View, Render, Join
  <2>3. CASE Cached(s) \/ Answered(s)
    <3>1. OutsideStep(s)
      BY <2>1, <2>3, CalmJobs DEF Cached, Answered, OutsideStep
    <3>. QED  BY <1>1, <3>1, OutsideSafe, SessionsAssumption
  <2>4. CASE Fetch(s)
    <3>1. OutsideStep(s) \/ worker' = worker
      BY <2>1, <2>4, ComputationCalm DEF Fetch, OutsideStep
    <3>. QED  BY <1>1, <2>1, <3>1, OutsideSafe, GatewayStutter, SessionsAssumption
  <2>5. CASE Submit(s)
    <3>1. OutsideStep(s) \/ worker' = worker
      BY <2>1, <2>5, SubmitCases, RouteQueryOutside, SessionsAssumption
    <3>. QED  BY <1>1, <2>1, <3>1, OutsideSafe, GatewayStutter, SessionsAssumption
  <2>. QED  BY <1>6, <2>2, <2>3, <2>4, <2>5 DEF Script
<1>7. ASSUME NEW w \in Workers, Agent(w)
      PROVE  LoginInv' /\ GatewayInv'
  BY <1>1, <1>7, LoginStep, GatewayStep DEF Agent
<1>8. CASE World
  BY <1>8, GatewayStutter DEF World, BooksChange
<1>. QED  BY <1>2, <1>3, <1>4, <1>5, <1>6, <1>7, <1>8 DEF SessionsNext, Interacts, Views

-----------------------------------------------------------------------------
(***************************************************************************)
(* Admission.                                                              *)
(***************************************************************************)

\* What a step does to thread t's request, limiter and job, seen from the
\* others; threads that no step is about keep all three.
Others(t) ==
    \A u \in Threads \ {t} : worker'[u] = worker[u] /\ post'[u] = post[u] /\ thread'[u] = thread[u]

ThreadOK(t) ==
    /\ worker[t] # Resting => post[t].status = "routed"
    /\ thread[t] # Idle => post[t].status = "limited"
    /\ post[t] # Free => env.secret

LEMMA AdmissionStep ==
  ASSUME AdmissionInv, NEW t \in Threads, Others(t), ThreadOK(t)', env' = env,
         thread' = [u \in Threads |-> thread'[u]],
         ~env.secret => admitted' = admitted
  PROVE  AdmissionInv'
BY DEF AdmissionInv, Others, ThreadOK

LEMMA AdmissionStutter ==
  ASSUME AdmissionInv, \A t \in Threads : worker'[t] = worker[t],
         UNCHANGED <<env, post, thread, admitted>>
  PROVE  AdmissionInv'
BY DEF AdmissionInv

LEMMA AdmissionNext ==
  ASSUME SessionsTypeOK, AdmissionInv, [SessionsNext]_sessionsVars
  PROVE  AdmissionInv'
<1>. USE DEF SessionsTypeOK
<1>1. ASSUME NEW s \in Sessions, NEW job, Sets(s, job)
      PROVE  \A t \in Threads : worker'[t] = worker[t]
  BY <1>1, SessionsAssumption DEF Sets
<1>2. ASSUME NEW t \in Threads, NEW q \in Questions, NEW token \in {"valid", "expired"}, Post(t, q, token)
      PROVE  AdmissionInv'
  <2>1. CASE Authenticated(token)
    <3>1. Others(t)
      BY <1>2, <2>1 DEF Post, Others, FilterStart, AdmissionInv, gatewayVars
    <3>2. worker'[t] = Resting /\ post'[t].status = "limited" /\ env'.secret
      BY <1>2, <2>1 DEF Post, FilterStart, AdmissionInv, Free, gatewayVars, Authenticated
    <3>3. ThreadOK(t)'
      BY <3>2 DEF ThreadOK
    <3>4. thread' = [u \in Threads |-> thread'[u]] /\ env' = env /\ admitted' = admitted
      BY <1>2, <2>1 DEF Post, FilterStart, AdmissionInv, gatewayVars
    <3>. QED  BY <3>1, <3>3, <3>4, AdmissionStep
  <2>2. CASE ~Authenticated(token)
    BY <1>2, <2>2, AdmissionStutter DEF Post, limiterVars, gatewayVars
  <2>. QED  BY <2>1, <2>2
<1>3. ASSUME NEW t \in Threads, Limit(t)
      PROVE  AdmissionInv'
  <2>1. thread[t] # Idle
    BY <1>3 DEF Limit, FilterEnd, Refuse, Admit, RegisterStart, RegisterEnd, Idle
  <2>2. post[t] \in Requests /\ env.secret /\ worker[t] = Resting
    BY <2>1 DEF AdmissionInv, Free
  <2>3. worker' = worker /\ env' = env
    BY <1>3 DEF Limit, gatewayVars
  <2>4. thread' = [u \in Threads |-> thread'[u]] /\ \A u \in Threads \ {t} : thread'[u] = thread[u]
    <3>1. PICK x : thread' = [thread EXCEPT ![t] = x]
      BY <1>3 DEF Limit, FilterEnd, Refuse, Admit, RegisterStart, RegisterEnd
    <3>. QED  BY <3>1 DEF AdmissionInv
  <2>5. Others(t)
    BY <1>3, <2>3, <2>4 DEF Limit, Others
  <2>6. thread'[t] # Idle => post'[t] = post[t]
    BY <1>3 DEF Limit
  <2>7. ThreadOK(t)'
    BY <2>1, <2>2, <2>3, <2>6 DEF ThreadOK, AdmissionInv
  <2>. QED  BY <2>2, <2>3, <2>4, <2>5, <2>7, AdmissionStep
<1>4. ASSUME NEW t \in Threads, Route(t)
      PROVE  AdmissionInv'
  <2>1. PICK job : Sets(t, job)
    BY <1>4 DEF Route, RouteQuery
  <2>2. Others(t)
    BY <1>4, <2>1 DEF Route, Sets, Others, limiterVars
  <2>3. thread[t] = Idle /\ post[t] \in Requests /\ env.secret
    BY <1>4 DEF Route, AdmissionInv, Free
  <2>4. post'[t].status = "routed"
    BY <1>4, <2>3 DEF Route, Requests
  <2>5. ThreadOK(t)'
    BY <1>4, <2>3, <2>4 DEF Route, ThreadOK, limiterVars
  <2>. QED  BY <1>4, <2>2, <2>5, AdmissionStep DEF Route, limiterVars, AdmissionInv
<1>5. ASSUME NEW t \in Threads, Respond(t)
      PROVE  AdmissionInv'
  <2>1. Others(t)
    BY <1>5 DEF Respond, Sets, Others, limiterVars
  <2>2. thread[t] = Idle /\ worker'[t] = Resting /\ post'[t] = Free
    BY <1>5, SessionsAssumption DEF Respond, Sets, AdmissionInv
  <2>3. ThreadOK(t)'
    BY <1>5, <2>2 DEF Respond, ThreadOK, limiterVars
  <2>. QED  BY <1>5, <2>1, <2>3, AdmissionStep DEF Respond, limiterVars, AdmissionInv
<1>6. CASE ClockTicks \/ UNCHANGED sessionsVars \/ World
  BY <1>6, AdmissionStutter
     DEF ClockTicks, Tick, World, BooksChange, gatewayVars, limiterVars, pageVars, sessionsVars
<1>7. ASSUME NEW s \in Sessions, Interacts(s) \/ Begin(s)
      PROVE  AdmissionInv'
  BY <1>7, AdmissionStutter DEF Interacts, Click, Type, ClearChat, Refresh, Navigate, Interaction,
     Begin, gatewayVars, limiterVars
<1>8. ASSUME NEW s \in Sessions, Script(s)
      PROVE  AdmissionInv'
  <2>1. UNCHANGED <<env, post, thread, admitted>>
    BY <1>8 DEF Script, Sidebar, View, Fetch, Cached, Submit, Answered, Render, Join, RunOnly,
       limiterVars
  <2>2. worker' = worker \/ \E job : Sets(s, job)
    BY <1>8 DEF Script, Sidebar, View, Fetch, Cached, Submit, Answered, Render, Join, RouteQuery
  <2>. QED  BY <1>1, <2>1, <2>2, AdmissionStutter
<1>9. ASSUME NEW w \in Workers, Agent(w)
      PROVE  AdmissionInv'
  <2>1. UNCHANGED <<env, post, thread, admitted>>
    BY <1>9 DEF Agent, Answering, ModelTalks, ModelCalls, ModelFails, StartRead, Login, LoginFails,
       Called, CallFails, limiterVars, pageVars
  <2>2. \E job : Sets(w, job)
    BY <1>9 DEF Agent, Answering, ModelTalks, ModelCalls, ModelFails, StartRead, Login, LoginFails,
       Called, CallFails
  <2>3. worker[w].at \in {"model", "reading", "connecting", "calling"}
    BY <1>9 DEF Agent, Answering, ModelTalks, ModelCalls, ModelFails, StartRead, Login, LoginFails,
       Called, CallFails
  <2>4. worker[w] # Resting
    BY <2>3 DEF Resting
  <2>5. \A t \in Threads : worker'[t] # Resting => worker[t] # Resting
    BY <2>2, <2>4, SessionsAssumption DEF Sets
  <2>. QED  BY <2>1, <2>5 DEF AdmissionInv
<1>. QED  BY <1>2, <1>3, <1>4, <1>5, <1>6, <1>7, <1>8, <1>9 DEF SessionsNext, Interacts, Views

-----------------------------------------------------------------------------
(***************************************************************************)
(* A run of the page and its reply.                                        *)
(***************************************************************************)

\* What the runs end with, and what they turn the page to.
LEMMA EndedPage ==
  ASSUME NEW p \in Pages
  PROVE  /\ Ended(p).at = "idle" /\ Ended(p).query = None /\ Ended(p).want = Nothing
         /\ Ended(p).reply = None /\ Ended(p).pending = p.pending
BY DEF Ended, Pages

LEMMA FetchedPage ==
  ASSUME NEW p \in Pages, p.at \in {"data", "lists", "export"}, NEW figures
  PROVE  LET q == Fetched(p, figures)
         IN /\ q.pending = p.pending /\ q.query = p.query /\ q.want = p.want /\ q.reply = p.reply
            /\ q.at = IF p.at = "data" THEN "lists"
                      ELSE IF p.at = "export" /\ p.reply # None THEN "rendered" ELSE "ready"
BY DEF Fetched, Pages

\* A reply is never None.
LEMMA ReplyIsSome ==
  ASSUME NEW reply \in Replies
  PROVE  reply # None
BY SessionsAssumption

\* Nobody else's session changes.
LEMMA PageStep ==
  ASSUME SessionsTypeOK, PageInv, NEW s \in Sessions, NEW p, NEW turns,
         Turns(s, p), talk' = [talk EXCEPT ![s] = turns],
         PageOK(turns, asked[s], wanted[s], p), UNCHANGED <<asked, wanted>>
  PROVE  PageInv'
<1>1. ASSUME NEW r \in Sessions
      PROVE  PageOK(talk[r], asked[r], wanted[r], page[r])'
  <2>1. CASE r = s
    <3>1. talk'[r] = turns /\ page'[r] = p
      BY <2>1, SessionsAssumption DEF SessionsTypeOK, Turns
    <3>. QED  BY <2>1, <3>1
  <2>2. CASE r # s
    <3>1. talk'[r] = talk[r] /\ page'[r] = page[r]
      BY <2>2, SessionsAssumption DEF SessionsTypeOK, Turns
    <3>. QED  BY <2>2, <3>1 DEF PageInv
  <2>. QED  BY <2>1, <2>2
<1>. QED  BY <1>1 DEF PageInv

LEMMA PageStutter ==
  ASSUME PageInv, UNCHANGED <<asked, wanted, page>>, \A s \in Sessions : talk'[s] = talk[s]
  PROVE  PageInv'
BY DEF PageInv

\* How questions move between the places where they wait.
LEMMA ApartFewer ==
  ASSUME NEW last \in Nat, NEW talked \in SUBSET Nat, NEW a \in SUBSET Nat, NEW b \in SUBSET Nat,
         NEW c \in SUBSET Nat, NEW d \in SUBSET Nat, NEW e \in SUBSET Nat,
         Apart(last, talked, a, b, c, d, e)
  PROVE  /\ \A t \in SUBSET talked, x \in SUBSET d, y \in SUBSET e : Apart(last, t, a, b, c, x, y)
         /\ \A t \in SUBSET talked, y \in SUBSET e : Apart(last, t, a, b, {}, c, y)
         /\ Apart(last, talked, {}, {}, a, {}, b) /\ Apart(last, talked, {}, {}, c, {}, b)
         /\ \A x \in {d, e} : Apart(last, talked \cup x, a, b, c, {}, {})
         /\ Apart(last + 1, talked, {last + 1}, b, c, d, e)
         /\ Apart(last + 1, talked, a, {last + 1}, c, d, e)
         /\ Apart(last + 1, talked, a, b, c, d, e)
<1>1. ASSUME NEW t \in SUBSET talked, NEW x \in SUBSET d, NEW y \in SUBSET e
      PROVE  Apart(last, t, a, b, c, x, y) /\ Apart(last, t, a, b, {}, c, y)
  BY DEF Apart
<1>2. Apart(last, talked, {}, {}, a, {}, b) /\ Apart(last, talked, {}, {}, c, {}, b)
  BY DEF Apart
<1>3. Apart(last, talked \cup d, a, b, c, {}, {}) /\ Apart(last, talked \cup e, a, b, c, {}, {})
  BY DEF Apart
<1>4. \A n \in talked \cup a \cup b \cup c \cup d \cup e : n <= last + 1 /\ n # last + 1
  BY DEF Apart
<1>5. Apart(last + 1, talked, {last + 1}, b, c, d, e) /\ Apart(last + 1, talked, a, {last + 1}, c, d, e)
  BY <1>4 DEF Apart
<1>6. Apart(last + 1, talked, a, b, c, d, e)
  BY <1>4 DEF Apart
<1>. QED  BY <1>1, <1>2, <1>3, <1>5, <1>6

\* How a conversation grows.
LEMMA TalkUser ==
  ASSUME NEW turns \in Seq(Messages), TalkOK(turns), NEW n \in Nat, NEW q \in Questions,
         n \notin UserIds(turns)
  PROVE  /\ TalkOK(Append(turns, User(n, q)))
         /\ UserIds(Append(turns, User(n, q))) = UserIds(turns) \cup {n}
         /\ EndsWith(Append(turns, User(n, q)), n)
<1>. DEFINE more == Append(turns, User(n, q))
            k == Len(turns) + 1
<1>1. /\ DOMAIN more = DOMAIN turns \cup {k} /\ k \notin DOMAIN turns /\ Len(more) = k
      /\ DOMAIN turns = 1 .. Len(turns) /\ Len(turns) \in Nat
      /\ \A i \in DOMAIN turns : more[i] = turns[i]
      /\ more[k] = User(n, q)
  BY UserType
<1>2. more[k].role = "user" /\ more[k].id = n
  BY <1>1 DEF User
<1>. HIDE DEF more
<1>3. UserIds(more) = UserIds(turns) \cup {n}
  BY <1>1, <1>2 DEF UserIds
<1>4. \A i \in DOMAIN turns : turns[i].role = "user" => turns[i].id # n
  BY DEF UserIds
<1>5. TalkOK(more)
  BY <1>1, <1>2, <1>4 DEF TalkOK
<1>6. EndsWith(more, n)
  BY <1>1, <1>2 DEF EndsWith
<1>. QED  BY <1>3, <1>5, <1>6 DEF more

LEMMA TalkAnswer ==
  ASSUME NEW turns \in Seq(Messages), TalkOK(turns), NEW n \in Nat, EndsWith(turns, n),
         NEW reply \in Replies, NEW since \in Nat
  PROVE  /\ TalkOK(Append(turns, Assistant(n, reply, since)))
         /\ UserIds(Append(turns, Assistant(n, reply, since))) = UserIds(turns)
<1>. DEFINE more == Append(turns, Assistant(n, reply, since))
            k == Len(turns) + 1
<1>1. /\ DOMAIN more = DOMAIN turns \cup {k} /\ k \notin DOMAIN turns
      /\ DOMAIN turns = 1 .. Len(turns) /\ Len(turns) \in Nat
      /\ \A i \in DOMAIN turns : more[i] = turns[i]
      /\ more[k] = Assistant(n, reply, since)
  BY AssistantType
<1>2. more[k].role = "assistant" /\ more[k].id = n
  BY <1>1 DEF Assistant
<1>3. Len(turns) > 0 /\ k - 1 = Len(turns) /\ Len(turns) \in DOMAIN turns
  BY <1>1 DEF EndsWith
<1>. HIDE DEF more
<1>4. UserIds(more) = UserIds(turns)
  BY <1>1, <1>2 DEF UserIds
<1>5. TalkOK(more)
  BY <1>1, <1>2, <1>3 DEF TalkOK, EndsWith
<1>. QED  BY <1>4, <1>5 DEF more

LEMMA IdsType ==
  ASSUME NEW entry \in Entries \cup {None}
  PROVE  Ids(entry) \in SUBSET Nat
BY DEF Ids, Entries

LEMMA UserIdsType ==
  ASSUME NEW turns \in Seq(Messages)
  PROVE  UserIds(turns) \in SUBSET Nat
<1>1. \A i \in DOMAIN turns : turns[i].id \in Nat
  <2>1. \A i \in DOMAIN turns : turns[i] \in Messages
    OBVIOUS
  <2>. QED  BY <2>1 DEF Messages
<1>. QED  BY <1>1 DEF UserIds

LEMMA PlacesType ==
  ASSUME SessionsTypeOK, NEW s \in Sessions
  PROVE  LET p == page[s]
         IN /\ p \in Pages /\ p.want \in Wants /\ wanted[s] \in Wants /\ s \in Workers
            /\ talk[s] \in Seq(Messages) /\ asked[s] \in Nat /\ UserIds(talk[s]) \in SUBSET Nat
            /\ \A entry \in {wanted[s].ask, wanted[s].typed, p.pending, p.query, p.want.typed} :
                  entry \in Entries \cup {None} /\ Ids(entry) \in SUBSET Nat
                  /\ Held(p, entry) \in SUBSET Nat
<1>. DEFINE p == page[s]
<1>1. /\ p \in Pages /\ wanted[s] \in Wants /\ s \in Workers
      /\ talk[s] \in Seq(Messages) /\ asked[s] \in Nat
  BY SessionsAssumption DEF SessionsTypeOK
<1>2. p.want \in Wants /\ p.pending \in Entries \cup {None} /\ p.query \in Entries \cup {None}
  BY <1>1 DEF Pages
<1>3. /\ wanted[s].ask \in Entries \cup {None} /\ wanted[s].typed \in Entries \cup {None}
      /\ p.want.typed \in Entries \cup {None}
  BY <1>1, <1>2 DEF Wants
<1>4. \A entry \in Entries \cup {None} : Ids(entry) \in SUBSET Nat /\ Held(p, entry) \in SUBSET Nat
  BY IdsType DEF Held
<1>. QED  BY <1>1, <1>2, <1>3, <1>4, UserIdsType

LEMMA NobodyWaits == Ids(None) = {} /\ Nothing.ask = None /\ Nothing.typed = None
BY DEF Ids, Nothing

\* An interaction: the number of a new question is nobody's yet.
LEMMA InteractsPage ==
  ASSUME SessionsTypeOK, PageInv, NEW s \in Sessions, Interacts(s)
  PROVE  PageInv'
<1>1. PICK want \in {[wanted[s] EXCEPT !.clear = TRUE], [wanted[s] EXCEPT !.refresh = TRUE]}
                    \cup {[wanted[s] EXCEPT !.view = view] : view \in Views}
                    \cup {[wanted[s] EXCEPT !.ask = Entry(s, q)] : q \in Questions}
                    \cup {[wanted[s] EXCEPT !.typed = Entry(s, q)] : q \in Questions} :
         Interaction(s, want)
  BY DEF Interacts, Click, Type, ClearChat, Refresh, Navigate
<1>2. /\ wanted[s] \in Wants /\ page[s] \in Pages /\ asked[s] \in Nat
      /\ UserIds(talk[s]) \in SUBSET Nat /\ s \in Workers
      /\ Ids(wanted[s].ask) \in SUBSET Nat /\ Ids(wanted[s].typed) \in SUBSET Nat
      /\ Ids(page[s].pending) \in SUBSET Nat /\ Held(page[s], page[s].query) \in SUBSET Nat
      /\ Held(page[s], page[s].want.typed) \in SUBSET Nat
  BY PlacesType
<1>3. ASSUME NEW q \in Questions
      PROVE  Ids(Entry(s, q)) = {asked[s] + 1}
  <2>1. Entry(s, q) \in Entries /\ Entry(s, q).id = asked[s] + 1
    BY <1>2 DEF SessionsTypeOK, Entry, Entries
  <2>. QED  BY <2>1, SessionsAssumption DEF Ids
<1>4. \/ Ids(want.ask) = Ids(wanted[s].ask) /\ Ids(want.typed) = Ids(wanted[s].typed)
      \/ Ids(want.ask) = {asked[s] + 1} /\ Ids(want.typed) = Ids(wanted[s].typed)
      \/ Ids(want.ask) = Ids(wanted[s].ask) /\ Ids(want.typed) = {asked[s] + 1}
  <2>1. CASE \E q \in Questions : want = [wanted[s] EXCEPT !.ask = Entry(s, q)]
    <3>1. PICK q \in Questions : want = [wanted[s] EXCEPT !.ask = Entry(s, q)]
      BY <2>1
    <3>2. want.ask = Entry(s, q) /\ want.typed = wanted[s].typed
      BY <1>2, <3>1 DEF Wants
    <3>. QED  BY <1>3, <3>2
  <2>2. CASE \E q \in Questions : want = [wanted[s] EXCEPT !.typed = Entry(s, q)]
    <3>1. PICK q \in Questions : want = [wanted[s] EXCEPT !.typed = Entry(s, q)]
      BY <2>2
    <3>2. want.ask = wanted[s].ask /\ want.typed = Entry(s, q)
      BY <1>2, <3>1 DEF Wants
    <3>. QED  BY <1>3, <3>2
  <2>3. CASE \/ want \in {[wanted[s] EXCEPT !.clear = TRUE], [wanted[s] EXCEPT !.refresh = TRUE]}
             \/ \E view \in Views : want = [wanted[s] EXCEPT !.view = view]
    <3>1. want.ask = wanted[s].ask /\ want.typed = wanted[s].typed
      BY <1>2, <2>3 DEF Wants
    <3>. QED  BY <3>1
  <2>. QED  BY <2>1, <2>2, <2>3
<1>5. WaitingOK(talk[s], asked[s], wanted[s], page[s])
  BY DEF PageInv, PageOK
<1>6. WaitingOK(talk[s], asked[s] + 1, want, page[s])
  <2>. DEFINE last == asked[s]
              talked == UserIds(talk[s])
              a == Ids(wanted[s].ask)
              b == Ids(wanted[s].typed)
              c == Ids(page[s].pending)
              d == Held(page[s], page[s].query)
              e == Held(page[s], page[s].want.typed)
  <2>1. Apart(last, talked, a, b, c, d, e)
    BY <1>5 DEF WaitingOK
  <2>2. /\ last \in Nat /\ talked \in SUBSET Nat /\ a \in SUBSET Nat /\ b \in SUBSET Nat
        /\ c \in SUBSET Nat /\ d \in SUBSET Nat /\ e \in SUBSET Nat
    BY <1>2
  <2>. HIDE DEF last, talked, a, b, c, d, e
  <2>3. /\ Apart(last + 1, talked, a, b, c, d, e)
        /\ Apart(last + 1, talked, {last + 1}, b, c, d, e)
        /\ Apart(last + 1, talked, a, {last + 1}, c, d, e)
    BY <2>1, <2>2, ApartFewer
  <2>4. Apart(last + 1, talked, Ids(want.ask), Ids(want.typed), c, d, e)
    BY <1>4, <2>3 DEF last, a, b
  <2>. QED  BY <2>4 DEF WaitingOK, last, talked, c, d, e
<1>7. PageOK(talk[s], asked[s] + 1, want, page[s])
  BY <1>6 DEF PageInv, PageOK
<1>8. /\ talk' = talk /\ page' = page
      /\ \A r \in Sessions : /\ asked'[r] = IF r = s THEN asked[s] + 1 ELSE asked[r]
                             /\ wanted'[r] = IF r = s THEN want ELSE wanted[r]
  BY <1>1, SessionsAssumption DEF Interaction, SessionsTypeOK
<1>9. ASSUME NEW r \in Sessions
      PROVE  PageOK(talk[r], asked[r], wanted[r], page[r])'
  BY <1>7, <1>8 DEF PageInv
<1>. QED  BY <1>9 DEF PageInv

\* A run begins: what was clicked waits in the session's state, what was
\* typed in the run; what an earlier run had popped is dropped.
LEMMA BeginPage ==
  ASSUME SessionsTypeOK, PageInv, NEW s \in Sessions, Begin(s)
  PROVE  PageInv'
<1>1. /\ wanted[s] \in Wants /\ page[s] \in Pages /\ asked[s] \in Nat
      /\ UserIds(talk[s]) \in SUBSET Nat
      /\ Ids(wanted[s].ask) \in SUBSET Nat /\ Ids(wanted[s].typed) \in SUBSET Nat
      /\ Ids(page[s].pending) \in SUBSET Nat /\ Held(page[s], page[s].query) \in SUBSET Nat
      /\ Held(page[s], page[s].want.typed) \in SUBSET Nat
  BY PlacesType
<1>2. /\ page'[s].at = "top" /\ page'[s].want = wanted[s] /\ page'[s].query = None
      /\ page'[s].reply = None
      /\ page'[s].pending = IF wanted[s].ask # None THEN wanted[s].ask ELSE page[s].pending
  <2>1. Ended(page[s]) \in Pages
    BY <1>1, EndedType
  <2>2. page'[s] = [Ended(page[s]) EXCEPT !.at = "top", !.want = wanted[s],
                      !.pending = IF wanted[s].ask # None THEN wanted[s].ask ELSE @,
                      !.view = IF wanted[s].view # None THEN wanted[s].view ELSE @]
    BY DEF Begin, Turns, SessionsTypeOK
  <2>. QED  BY <1>1, <2>1, <2>2, EndedPage DEF Pages
<1>3. /\ talk' = talk /\ asked' = asked /\ wanted'[s] = Nothing
      /\ \A r \in Sessions \ {s} : wanted'[r] = wanted[r] /\ page'[r] = page[r]
  BY DEF Begin, Turns, SessionsTypeOK
<1>4. ~Submitted(page'[s]) /\ ReplyOK(page'[s])
  BY <1>2 DEF Submitted, ReplyOK
<1>5. WaitingOK(talk[s], asked[s], wanted[s], page[s]) /\ TalkOK(talk[s])
  BY DEF PageInv, PageOK
<1>6. WaitingOK(talk[s], asked[s], Nothing, page'[s])
  <2>1. /\ Held(page'[s], page'[s].query) = {}
        /\ Held(page'[s], page'[s].want.typed) = Ids(wanted[s].typed)
    BY <1>2, <1>4, NobodyWaits DEF Held
  <2>2. Ids(page'[s].pending) \in {Ids(wanted[s].ask), Ids(page[s].pending)}
    BY <1>2
  <2>3. Ids(Nothing.ask) = {} /\ Ids(Nothing.typed) = {}
    BY NobodyWaits
  <2>. DEFINE last == asked[s]
              talked == UserIds(talk[s])
              a == Ids(wanted[s].ask)
              b == Ids(wanted[s].typed)
              c == Ids(page[s].pending)
              d == Held(page[s], page[s].query)
              e == Held(page[s], page[s].want.typed)
  <2>4. Apart(last, talked, a, b, c, d, e)
    BY <1>5 DEF WaitingOK
  <2>5. /\ last \in Nat /\ talked \in SUBSET Nat /\ a \in SUBSET Nat /\ b \in SUBSET Nat
        /\ c \in SUBSET Nat /\ d \in SUBSET Nat /\ e \in SUBSET Nat
    BY <1>1
  <2>. HIDE DEF last, talked, a, b, c, d, e
  <2>6. Apart(last, talked, {}, {}, a, {}, b) /\ Apart(last, talked, {}, {}, c, {}, b)
    BY <2>4, <2>5, ApartFewer
  <2>7. Apart(last, talked, {}, {}, Ids(page'[s].pending), {}, b)
    BY <2>2, <2>6 DEF a, c
  <2>. QED  BY <2>1, <2>3, <2>7 DEF WaitingOK, last, talked, b
<1>7. ASSUME NEW r \in Sessions
      PROVE  PageOK(talk[r], asked[r], wanted[r], page[r])'
  BY <1>3, <1>4, <1>5, <1>6 DEF PageInv, PageOK
<1>. QED  BY <1>7 DEF PageInv

\* ApartFewer for the places of a session.
LEMMA WaitingMoves ==
  ASSUME SessionsTypeOK, PageInv, NEW s \in Sessions
  PROVE  LET p == page[s]
             d == Held(p, p.query)
             e == Held(p, p.want.typed)
             talked == UserIds(talk[s])
         IN /\ \A t \in SUBSET talked, x \in SUBSET d, y \in SUBSET e :
                  Apart(asked[s], t, Ids(wanted[s].ask), Ids(wanted[s].typed), Ids(p.pending), x, y)
            /\ \A t \in SUBSET talked, y \in SUBSET e :
                  Apart(asked[s], t, Ids(wanted[s].ask), Ids(wanted[s].typed), {}, Ids(p.pending), y)
            /\ \A x \in {d, e} :
                  Apart(asked[s], talked \cup x, Ids(wanted[s].ask), Ids(wanted[s].typed),
                        Ids(p.pending), {}, {})
<1>. DEFINE last == asked[s]
            talked == UserIds(talk[s])
            a == Ids(wanted[s].ask)
            b == Ids(wanted[s].typed)
            c == Ids(page[s].pending)
            d == Held(page[s], page[s].query)
            e == Held(page[s], page[s].want.typed)
<1>1. Apart(last, talked, a, b, c, d, e)
  BY DEF PageInv, PageOK, WaitingOK
<1>2. /\ last \in Nat /\ talked \in SUBSET Nat /\ a \in SUBSET Nat /\ b \in SUBSET Nat
      /\ c \in SUBSET Nat /\ d \in SUBSET Nat /\ e \in SUBSET Nat
  BY PlacesType
<1>. HIDE DEF last, talked, a, b, c, d, e
<1>3. /\ \A t \in SUBSET talked, x \in SUBSET d, y \in SUBSET e : Apart(last, t, a, b, c, x, y)
      /\ \A t \in SUBSET talked, y \in SUBSET e : Apart(last, t, a, b, {}, c, y)
      /\ \A x \in {d, e} : Apart(last, talked \cup x, a, b, c, {}, {})
  BY <1>1, <1>2, ApartFewer
<1>. QED  BY <1>3 DEF last, talked, a, b, c, d, e

\* A run that moves on keeps its questions where they wait.
LEMMA MovesOn ==
  ASSUME SessionsTypeOK, PageInv, NEW s \in Sessions, NEW p, Turns(s, p), talk' = talk,
         UNCHANGED <<asked, wanted>>, p.pending = page[s].pending, p.query = page[s].query,
         p.want = page[s].want, Submitted(p) <=> Submitted(page[s]), ReplyOK(p)
  PROVE  PageInv'
<1>1. PageOK(talk[s], asked[s], wanted[s], p)
  BY DEF PageInv, PageOK, WaitingOK, Held
<1>2. talk' = [talk EXCEPT ![s] = talk[s]]
  BY SessionsAssumption DEF SessionsTypeOK
<1>. QED  BY <1>1, <1>2, PageStep

\* A run that ends forgets its questions.
LEMMA EndsHere ==
  ASSUME SessionsTypeOK, PageInv, NEW s \in Sessions, NEW p, NEW turns,
         Turns(s, p), talk' = [talk EXCEPT ![s] = turns],
         UNCHANGED <<asked, wanted>>, p.pending \in {page[s].pending, None}, p.at \in {"idle", "top"},
         p.query = None, p.want = Nothing, p.reply = None,
         TalkOK(turns), UserIds(turns) \subseteq UserIds(talk[s])
  PROVE  PageInv'
<1>1. ~Submitted(p) /\ ReplyOK(p)
  BY DEF Submitted, ReplyOK
<1>2. Held(p, p.query) = {} /\ Held(p, p.want.typed) = {}
  BY NobodyWaits DEF Held
<1>3. WaitingOK(turns, asked[s], wanted[s], p)
  <2>1. /\ Apart(asked[s], UserIds(turns), Ids(wanted[s].ask), Ids(wanted[s].typed),
                 Ids(page[s].pending), {}, {})
    BY WaitingMoves
  <2>2. Ids(p.pending) \in {Ids(page[s].pending), {}}
    BY NobodyWaits
  <2>3. /\ Apart(asked[s], UserIds(turns), Ids(wanted[s].ask), Ids(wanted[s].typed), {}, {}, {})
    BY <2>1 DEF Apart
  <2>. QED  BY <1>2, <2>1, <2>2, <2>3 DEF WaitingOK
<1>4. PageOK(turns, asked[s], wanted[s], p)
  BY <1>1, <1>3 DEF PageOK
<1>. QED  BY <1>4, PageStep

LEMMA EndedStep ==
  ASSUME SessionsTypeOK, PageInv, NEW s \in Sessions, Turns(s, Ended(page[s])), talk' = talk,
         UNCHANGED <<asked, wanted>>
  PROVE  PageInv'
<1>1. page[s] \in Pages /\ talk' = [talk EXCEPT ![s] = talk[s]]
  BY SessionsAssumption DEF SessionsTypeOK
<1>2. TalkOK(talk[s])
  BY DEF PageInv, PageOK
<1>. QED  BY <1>1, <1>2, EndedPage, EndsHere

LEMMA SidebarPage ==
  ASSUME SessionsTypeOK, PageInv, NEW s \in Sessions, Sidebar(s)
  PROVE  PageInv'
<1>. DEFINE p == [Popped(page[s]) EXCEPT
                    !.view = IF page[s].pending # None THEN "assistant" ELSE Popped(page[s]).view]
<1>1. page[s] \in Pages /\ page[s].at = "top" /\ UNCHANGED <<asked, wanted>>
  BY DEF SessionsTypeOK, Sidebar, At, RunOnly
<1>2. /\ p \in Pages /\ p.pending = None /\ p.query = page[s].pending /\ p.want = page[s].want
      /\ p.reply = page[s].reply
  BY <1>1 DEF Popped, Pages, Views
<1>3. page[s].reply = None /\ ~Submitted(page[s])
  BY <1>1 DEF PageInv, PageOK, ReplyOK, Submitted
<1>4. \/ talk' = [talk EXCEPT ![s] = <<>>] /\ Turns(s, [Ended(p) EXCEPT !.at = "top"])
      \/ talk' = talk /\ Turns(s, [p EXCEPT !.at = "view"])
  BY DEF Sidebar
<1>. HIDE DEF p
<1>5. CASE talk' = [talk EXCEPT ![s] = <<>>] /\ Turns(s, [Ended(p) EXCEPT !.at = "top"])
  <2>. DEFINE q == [Ended(p) EXCEPT !.at = "top"]
  <2>1. Ended(p) \in Pages
    BY <1>2, EndedType
  <2>2. q.pending = None /\ q.at = "top" /\ q.query = None /\ q.want = Nothing /\ q.reply = None
    BY <1>2, <2>1, EndedPage DEF Pages
  <2>3. TalkOK(<<>>) /\ UserIds(<<>>) = {}
    BY DEF TalkOK, UserIds
  <2>. HIDE DEF q
  <2>4. Turns(s, q)
    BY <1>5 DEF q
  <2>. QED  BY <1>1, <1>5, <2>2, <2>3, <2>4, EndsHere
<1>6. CASE talk' = talk /\ Turns(s, [p EXCEPT !.at = "view"])
  <2>. DEFINE q == [p EXCEPT !.at = "view"]
  <2>1. /\ q.pending = None /\ q.at = "view" /\ q.query = page[s].pending /\ q.want = page[s].want
        /\ q.reply = None
    BY <1>2, <1>3 DEF Pages
  <2>. HIDE DEF q
  <2>2. ~Submitted(q) /\ ReplyOK(q)
    BY <2>1 DEF Submitted, ReplyOK
  <2>3. /\ Held(q, q.query) = Ids(page[s].pending) /\ Ids(q.pending) = {}
        /\ Held(q, q.want.typed) = Held(page[s], page[s].want.typed)
    BY <1>3, <2>1, <2>2, NobodyWaits DEF Held
  <2>4. WaitingOK(talk[s], asked[s], wanted[s], q)
    BY <2>3, WaitingMoves DEF WaitingOK
  <2>5. PageOK(talk[s], asked[s], wanted[s], q)
    BY <2>2, <2>4 DEF PageInv, PageOK
  <2>6. talk' = [talk EXCEPT ![s] = talk[s]] /\ Turns(s, q)
    BY <1>6, SessionsAssumption DEF SessionsTypeOK, q
  <2>. QED  BY <1>1, <2>5, <2>6, PageStep
<1>. QED  BY <1>4, <1>5, <1>6

LEMMA ViewPage ==
  ASSUME SessionsTypeOK, PageInv, NEW s \in Sessions, View(s)
  PROVE  PageInv'
<1>1. page[s] \in Pages /\ page[s].at = "view" /\ talk' = talk /\ UNCHANGED <<asked, wanted>>
  BY DEF SessionsTypeOK, View, At, RunOnly
<1>2. PICK place \in {"data", "export", "ready"} :
        \E seen : Turns(s, [page[s] EXCEPT !.at = place, !.refreshed = seen])
  BY DEF View
<1>3. PICK seen : Turns(s, [page[s] EXCEPT !.at = place, !.refreshed = seen])
  BY <1>2
<1>. DEFINE p == [page[s] EXCEPT !.at = place, !.refreshed = seen]
<1>4. /\ p.at = place /\ p.pending = page[s].pending /\ p.query = page[s].query
      /\ p.want = page[s].want /\ p.reply = page[s].reply
  BY <1>1 DEF Pages
<1>5. page[s].reply = None
  BY <1>1 DEF PageInv, PageOK, ReplyOK
<1>6. Turns(s, p)
  BY <1>3
<1>. HIDE DEF p
<1>7. ~Submitted(p) /\ ~Submitted(page[s]) /\ ReplyOK(p)
  BY <1>1, <1>4, <1>5 DEF Submitted, ReplyOK
<1>. QED  BY <1>1, <1>4, <1>6, <1>7, MovesOn

LEMMA FetchedStep ==
  ASSUME SessionsTypeOK, PageInv, NEW s \in Sessions, NEW figures,
         page[s].at \in {"data", "lists", "export"},
         Turns(s, Fetched(page[s], figures)), talk' = talk, UNCHANGED <<asked, wanted>>
  PROVE  PageInv'
<1>. DEFINE p == Fetched(page[s], figures)
<1>1. page[s] \in Pages
  BY DEF SessionsTypeOK
<1>2. /\ p.pending = page[s].pending /\ p.query = page[s].query /\ p.want = page[s].want
      /\ p.reply = page[s].reply
      /\ p.at = IF page[s].at = "data" THEN "lists"
                ELSE IF page[s].at = "export" /\ page[s].reply # None THEN "rendered" ELSE "ready"
  BY <1>1, FetchedPage
<1>3. ReplyOK(page[s])
  BY DEF PageInv, PageOK
<1>. HIDE DEF p
<1>4. (Submitted(p) <=> Submitted(page[s])) /\ ReplyOK(p)
  BY <1>2, <1>3 DEF Submitted, ReplyOK
<1>5. Turns(s, p)
  BY DEF p
<1>. QED  BY <1>2, <1>4, <1>5, MovesOn

LEMMA CachePage ==
  ASSUME SessionsTypeOK, PageInv, NEW s \in Sessions, Fetch(s) \/ Cached(s)
  PROVE  PageInv'
<1>1. /\ page[s].at \in {"data", "lists", "export"} /\ talk' = talk /\ UNCHANGED <<asked, wanted>>
  BY DEF Fetch, Cached, At, RunOnly
<1>2. \/ page' = page
      \/ \E figures : Turns(s, Fetched(page[s], figures))
      \/ Turns(s, Ended(page[s]))
  BY DEF Fetch, Cached, Stopped
<1>. QED  BY <1>1, <1>2, PageStutter, FetchedStep, EndedStep

LEMMA SubmitPage ==
  ASSUME SessionsTypeOK, PageInv, NEW s \in Sessions, Submit(s)
  PROVE  PageInv'
<1>. DEFINE input == Input(page[s])
<1>1. page[s] \in Pages /\ page[s].at = "ready" /\ UNCHANGED <<asked, wanted>>
  BY DEF SessionsTypeOK, Submit, At, RunOnly
<1>2. input \in Entries \cup {None} /\ input \in {page[s].want.typed, page[s].query}
  BY <1>1, InputType DEF Input
<1>. HIDE DEF input
<1>3. CASE /\ input = None
           /\ Turns(s, Ended(page[s])) /\ UNCHANGED <<worker, talk>>
  BY <1>1, <1>3, EndedStep
<1>4. CASE /\ input # None
           /\ talk' = [talk EXCEPT ![s] = Append(@, User(input.id, input.question))]
           /\ Turns(s, Asking(page[s], input))
  <2>. DEFINE p == Asking(page[s], input)
              turns == Append(talk[s], User(input.id, input.question))
  <2>1. input \in Entries /\ input.id \in Nat /\ input.question \in Questions
    BY <1>2, <1>4 DEF Entries
  <2>2. /\ p.at = "asking" /\ p.query = input /\ p.pending = page[s].pending
        /\ p.reply = page[s].reply
    BY <1>1 DEF Asking, Pages
  <2>3. page[s].reply = None /\ ~Submitted(page[s]) /\ TalkOK(talk[s])
    BY <1>1 DEF PageInv, PageOK, ReplyOK, Submitted
  <2>4. Ids(input) = {input.id}
    BY <1>4 DEF Ids
  <2>5. {input.id} \in {Held(page[s], page[s].query), Held(page[s], page[s].want.typed)}
    BY <1>2, <2>3, <2>4 DEF Held
  <2>6. /\ Apart(asked[s], UserIds(talk[s]) \cup {input.id}, Ids(wanted[s].ask),
                 Ids(wanted[s].typed), Ids(page[s].pending), {}, {})
    BY <2>5, WaitingMoves
  <2>7. input.id \notin UserIds(talk[s])
    <3>1. Apart(asked[s], UserIds(talk[s]), Ids(wanted[s].ask), Ids(wanted[s].typed),
                Ids(page[s].pending), Held(page[s], page[s].query), Held(page[s], page[s].want.typed))
      BY DEF PageInv, PageOK, WaitingOK
    <3>. QED  BY <2>5, <3>1 DEF Apart
  <2>8. /\ talk[s] \in Seq(Messages)
        /\ TalkOK(turns) /\ UserIds(turns) = UserIds(talk[s]) \cup {input.id} /\ EndsWith(turns, input.id)
    BY <2>1, <2>3, <2>7, PlacesType, TalkUser
  <2>9. talk' = [talk EXCEPT ![s] = turns] /\ Turns(s, p)
    BY <1>4
  <2>. HIDE DEF p, turns
  <2>10. Submitted(p) /\ ReplyOK(p)
    BY <2>2, <2>3 DEF Submitted, ReplyOK
  <2>11. WaitingOK(turns, asked[s], wanted[s], p)
    BY <2>2, <2>6, <2>8, <2>10 DEF WaitingOK, Held
  <2>12. PageOK(turns, asked[s], wanted[s], p)
    BY <1>4, <2>2, <2>8, <2>10, <2>11 DEF PageOK
  <2>. QED  BY <1>1, <2>9, <2>12, PageStep
<1>. QED  BY <1>3, <1>4, SubmitCases DEF input

LEMMA AnsweredPage ==
  ASSUME SessionsTypeOK, PageInv, NEW s \in Sessions, Answered(s)
  PROVE  PageInv'
<1>1. /\ page[s] \in Pages /\ worker[s] \in Jobs /\ page[s].at = "asking"
      /\ talk' = talk /\ UNCHANGED <<asked, wanted>>
  BY SessionsAssumption DEF SessionsTypeOK, Answered, At, RunOnly
<1>2. worker[s] # None
  BY <1>1, JobByPlace, ReplyIsSome DEF Answered
<1>3. PICK place \in {"answered", "rendered"} :
        Turns(s, [page[s] EXCEPT !.at = place, !.reply = worker[s]])
  BY DEF Answered
<1>. DEFINE p == [page[s] EXCEPT !.at = place, !.reply = worker[s]]
<1>4. /\ p.at = place /\ p.reply = worker[s] /\ p.pending = page[s].pending
      /\ p.query = page[s].query /\ p.want = page[s].want
  BY <1>1 DEF Pages
<1>5. Turns(s, p)
  BY <1>3
<1>. HIDE DEF p
<1>6. Submitted(p) /\ Submitted(page[s]) /\ ReplyOK(p)
  BY <1>1, <1>2, <1>4 DEF Submitted, ReplyOK
<1>. QED  BY <1>1, <1>4, <1>5, <1>6, MovesOn

LEMMA RenderPage ==
  ASSUME SessionsTypeOK, PageInv, NEW s \in Sessions, Render(s)
  PROVE  PageInv'
<1>1. /\ page[s] \in Pages /\ page[s].at = "answered" /\ talk' = talk /\ UNCHANGED <<asked, wanted>>
  BY DEF SessionsTypeOK, Render, At, RunOnly
<1>2. page[s].reply # None
  BY <1>1 DEF PageInv, PageOK, ReplyOK
<1>. DEFINE p == [page[s] EXCEPT !.at = "export"]
<1>3. /\ p.at = "export" /\ p.reply = page[s].reply /\ p.pending = page[s].pending
      /\ p.query = page[s].query /\ p.want = page[s].want
  BY <1>1 DEF Pages
<1>4. Turns(s, p)
  BY DEF Render
<1>. HIDE DEF p
<1>5. Submitted(p) /\ Submitted(page[s]) /\ ReplyOK(p)
  BY <1>1, <1>2, <1>3 DEF Submitted, ReplyOK
<1>. QED  BY <1>1, <1>3, <1>4, <1>5, MovesOn

LEMMA JoinPage ==
  ASSUME SessionsTypeOK, PageInv, NEW s \in Sessions, Join(s)
  PROVE  PageInv'
<1>1. /\ page[s] \in Pages /\ page[s].at = "rendered" /\ UNCHANGED <<asked, wanted>>
      /\ talk[s] \in Seq(Messages)
  BY SessionsAssumption DEF SessionsTypeOK, Join, At, RunOnly
<1>2. /\ page[s].reply # None /\ page[s].query # None
      /\ TalkOK(talk[s]) /\ EndsWith(talk[s], page[s].query.id)
  BY <1>1 DEF PageInv, PageOK, ReplyOK, Submitted
<1>3. page[s].reply \in Replies /\ page[s].query.id \in Nat /\ page[s].query.since \in Nat
  BY <1>1, <1>2 DEF Pages, Entries
<1>. DEFINE turns == Append(talk[s], Assistant(page[s].query.id, page[s].reply, page[s].query.since))
<1>4. TalkOK(turns) /\ UserIds(turns) = UserIds(talk[s])
  BY <1>1, <1>2, <1>3, TalkAnswer
<1>5. PICK place \in {"idle", "top"} : Turns(s, [Ended(page[s]) EXCEPT !.at = place])
  BY DEF Join
<1>. DEFINE p == [Ended(page[s]) EXCEPT !.at = place]
<1>6. Ended(page[s]) \in Pages
  BY <1>1, EndedType
<1>7. /\ p.at = place /\ p.pending = page[s].pending /\ p.query = None /\ p.want = Nothing
      /\ p.reply = None
  BY <1>1, <1>6, EndedPage DEF Pages
<1>8. talk' = [talk EXCEPT ![s] = turns] /\ Turns(s, p)
  BY <1>5 DEF Join
<1>. HIDE DEF p, turns
<1>. QED  BY <1>1, <1>4, <1>7, <1>8, EndsHere

LEMMA PageNext ==
  ASSUME SessionsTypeOK, PageInv, [SessionsNext]_sessionsVars
  PROVE  PageInv'
<1>1. ASSUME NEW t \in Threads,
             Limit(t) \/ \E q \in Questions, token \in {"valid", "expired"} : Post(t, q, token)
      PROVE  PageInv'
  <2>1. talk' = talk /\ page' = page /\ wanted' = wanted /\ \A s \in Sessions : asked'[s] = asked[s]
    BY <1>1, SessionsAssumption DEF Limit, Post, SessionsTypeOK
  <2>. QED  BY <2>1 DEF PageInv
<1>2. ASSUME NEW t \in Threads, Route(t) \/ Respond(t)
      PROVE  PageInv'
  <2>1. UNCHANGED <<asked, wanted, page>> /\ \A s \in Sessions : talk'[s] = talk[s]
    BY <1>2, SessionsAssumption DEF Route, Respond, SessionsTypeOK
  <2>. QED  BY <2>1, PageStutter
<1>3. CASE ClockTicks \/ World \/ UNCHANGED sessionsVars
  BY <1>3, PageStutter DEF ClockTicks, World, sessionsVars, pageVars
<1>4. ASSUME NEW s \in Sessions, Interacts(s) \/ Begin(s)
      PROVE  PageInv'
  BY <1>4, InteractsPage, BeginPage
<1>5. ASSUME NEW s \in Sessions, Script(s)
      PROVE  PageInv'
  BY <1>5, SidebarPage, ViewPage, CachePage, SubmitPage, AnsweredPage, RenderPage, JoinPage DEF Script
<1>6. ASSUME NEW w \in Workers, Agent(w)
      PROVE  PageInv'
  BY <1>6, PageStutter DEF Agent, pageVars
<1>. QED  BY <1>1, <1>2, <1>3, <1>4, <1>5, <1>6 DEF SessionsNext, Interacts, Views

-----------------------------------------------------------------------------
(***************************************************************************)
(* The client's conversation.                                              *)
(***************************************************************************)

LEMMA ClientStutter ==
  ASSUME ThreadInv, \A t \in Threads : talk'[t] = talk[t] /\ asked'[t] = asked[t] /\ post'[t] = post[t]
  PROVE  ThreadInv'
BY DEF ThreadInv, ClientOK

LEMMA ClientStep ==
  ASSUME SessionsTypeOK, ThreadInv, NEW t \in Threads,
         \A u \in Threads \ {t} : talk'[u] = talk[u] /\ asked'[u] = asked[u] /\ post'[u] = post[u],
         ClientOK(t)'
  PROVE  ThreadInv'
<1>1. ASSUME NEW u \in Threads \ {t}
      PROVE  ClientOK(u)'
  BY DEF ThreadInv, ClientOK
<1>. QED  BY <1>1 DEF ThreadInv

LEMMA ClientNext ==
  ASSUME SessionsTypeOK, AdmissionInv, ThreadInv, [SessionsNext]_sessionsVars
  PROVE  ThreadInv'
<1>1. ASSUME NEW t \in Threads
      PROVE  /\ t \in Workers /\ asked[t] \in Nat /\ talk[t] \in Seq(Messages)
             /\ UserIds(talk[t]) \in SUBSET Nat /\ ClientOK(t)
  BY <1>1, SessionsAssumption, UserIdsType DEF SessionsTypeOK, ThreadInv
<1>2. ASSUME NEW t \in Threads, NEW q \in Questions, NEW token \in {"valid", "expired"}, Post(t, q, token)
      PROVE  ThreadInv'
  <2>1. \A u \in Threads \ {t} : talk'[u] = talk[u] /\ asked'[u] = asked[u] /\ post'[u] = post[u]
    BY <1>2 DEF Post, SessionsTypeOK
  <2>2. talk'[t] = talk[t] /\ asked'[t] = asked[t] + 1
    BY <1>1, <1>2 DEF Post, SessionsTypeOK
  <2>3. \A n \in UserIds(talk[t]) : n \in Nat /\ n <= asked[t]
    BY <1>1 DEF ClientOK
  <2>4. TalkOK(talk[t]) /\ asked[t] \in Nat
    BY <1>1 DEF ClientOK
  <2>5. \A n \in UserIds(talk[t]) : n <= asked'[t] /\ n < asked'[t]
    BY <2>2, <2>3, <2>4
  <2>6. ClientOK(t)'
    BY <2>2, <2>4, <2>5 DEF ClientOK
  <2>. QED  BY <2>1, <2>6, ClientStep
<1>3. ASSUME NEW t \in Threads, Limit(t)
      PROVE  ThreadInv'
  <2>1. thread[t] # Idle
    BY <1>3 DEF Limit, FilterEnd, Refuse, Admit, RegisterStart, RegisterEnd, Idle
  <2>2. post[t] # Free
    BY <2>1 DEF AdmissionInv, Free
  <2>3. talk' = talk /\ asked' = asked /\ \A u \in Threads \ {t} : post'[u] = post[u]
    BY <1>3 DEF Limit, SessionsTypeOK
  <2>4. ClientOK(t)'
    BY <1>1, <2>2, <2>3 DEF ClientOK
  <2>. QED  BY <2>3, <2>4, ClientStep
<1>4. ASSUME NEW t \in Threads, Route(t)
      PROVE  ThreadInv'
  <2>1. post[t] # Free
    BY <1>4 DEF Route, Free
  <2>2. talk' = talk /\ asked' = asked /\ \A u \in Threads \ {t} : post'[u] = post[u]
    BY <1>4 DEF Route, SessionsTypeOK
  <2>3. ClientOK(t)'
    BY <1>1, <2>1, <2>2 DEF ClientOK
  <2>. QED  BY <2>2, <2>3, ClientStep
<1>5. ASSUME NEW t \in Threads, Respond(t)
      PROVE  ThreadInv'
  <2>. DEFINE user == User(asked[t], post[t].question)
              answer == Assistant(asked[t], worker[t], post[t].since)
  <2>1. post[t] \in Requests /\ post[t] # Free
    BY <1>5 DEF SessionsTypeOK, Respond, Free
  <2>2. post[t].question \in Questions /\ post[t].since \in Nat
    BY <2>1 DEF Requests
  <2>3. worker[t] \in Replies
    BY <1>1, <1>5, JobByPlace DEF SessionsTypeOK, Respond
  <2>4. asked[t] \notin UserIds(talk[t])
    <3>1. asked[t] \in Nat /\ \A n \in UserIds(talk[t]) : n < asked[t]
      BY <1>1, <2>1 DEF ClientOK
    <3>. QED  BY <3>1
  <2>5. /\ TalkOK(Append(talk[t], user)) /\ EndsWith(Append(talk[t], user), asked[t])
        /\ UserIds(Append(talk[t], user)) = UserIds(talk[t]) \cup {asked[t]}
    BY <1>1, <2>2, <2>4, TalkUser DEF ClientOK
  <2>6. user \in Messages /\ answer \in Messages /\ Append(talk[t], user) \in Seq(Messages)
    BY <1>1, <2>2, <2>3, UserType, AssistantType
  <2>7. /\ TalkOK(Append(Append(talk[t], user), answer))
        /\ UserIds(Append(Append(talk[t], user), answer)) = UserIds(talk[t]) \cup {asked[t]}
    BY <1>1, <2>2, <2>3, <2>5, <2>6, TalkAnswer
  <2>8. talk'[t] = talk[t] \o <<user, answer>>
    BY <1>1, <1>5 DEF Respond, SessionsTypeOK
  <2>9. talk[t] \o <<user, answer>> = Append(Append(talk[t], user), answer)
    <3>. HIDE DEF user, answer
    <3>. QED  BY <1>1, <2>6
  <2>10. asked' = asked /\ post'[t] = Free
    BY <1>5 DEF Respond, SessionsTypeOK
  <2>. HIDE DEF user, answer
  <2>11. ClientOK(t)'
    <3>1. asked[t] \in Nat /\ \A n \in UserIds(talk[t]) \cup {asked[t]} : n <= asked[t]
      BY <1>1 DEF ClientOK
    <3>2. TalkOK(talk'[t]) /\ UserIds(talk'[t]) = UserIds(talk[t]) \cup {asked[t]}
      BY <2>7, <2>8, <2>9
    <3>. QED  BY <2>10, <3>1, <3>2 DEF ClientOK
  <2>12. \A u \in Threads \ {t} : talk'[u] = talk[u] /\ asked'[u] = asked[u] /\ post'[u] = post[u]
    BY <1>5 DEF Respond, SessionsTypeOK
  <2>. QED  BY <2>11, <2>12, ClientStep
<1>6. CASE ClockTicks \/ World \/ UNCHANGED sessionsVars
  BY <1>6, ClientStutter DEF ClockTicks, World, sessionsVars, pageVars
<1>7. ASSUME NEW s \in Sessions, Interacts(s) \/ Begin(s)
      PROVE  ThreadInv'
  <2>1. talk' = talk /\ post' = post /\ \A t \in Threads : asked'[t] = asked[t]
    BY <1>7, SessionsAssumption DEF Interacts, Click, Type, ClearChat, Refresh, Navigate,
       Interaction, Begin, SessionsTypeOK
  <2>. QED  BY <2>1, ClientStutter
<1>8. ASSUME NEW s \in Sessions, Script(s)
      PROVE  ThreadInv'
  <2>1. post' = post /\ asked' = asked
    BY <1>8 DEF Script, Sidebar, View, Fetch, Cached, Submit, Answered, Render, Join, RunOnly
  <2>2. talk' = talk \/ \E turns : talk' = [talk EXCEPT ![s] = turns]
    BY <1>8 DEF Script, Sidebar, View, Fetch, Cached, Submit, Answered, Render, Join
  <2>3. \A t \in Threads : talk'[t] = talk[t]
    BY <2>2, SessionsAssumption DEF SessionsTypeOK
  <2>. QED  BY <2>1, <2>3, ClientStutter
<1>9. ASSUME NEW w \in Workers, Agent(w)
      PROVE  ThreadInv'
  BY <1>9, ClientStutter DEF Agent, pageVars
<1>. QED  BY <1>2, <1>3, <1>4, <1>5, <1>6, <1>7, <1>8, <1>9 DEF SessionsNext, Interacts, Views

-----------------------------------------------------------------------------
(***************************************************************************)
(* The theorems.                                                           *)
(***************************************************************************)

SessionsInv ==
    SessionsTypeOK /\ LoginInv /\ GatewayInv /\ AdmissionInv /\ PageInv /\ ThreadInv

LEMMA SessionsInitial == SessionsInit => SessionsInv
<1>. SUFFICES ASSUME SessionsInit
              PROVE  SessionsInv
  OBVIOUS
<1>1. SessionsTypeOK
  BY InitTypes
<1>2. /\ \A w \in Workers : worker[w] = Resting /\ talk[w] = <<>> /\ asked[w] = 0
      /\ \A t \in Threads : post[t] = Free /\ thread[t] = Idle
      /\ connected = FALSE /\ logins = 0 /\ admitted = <<>>
      /\ thread = [t \in Threads |-> Idle]
  BY SessionsAssumption DEF SessionsInit, GatewayInit, Init
<1>3. LoginInv
  <2>1. LoggingIn = {}
    BY <1>2 DEF LoggingIn, Resting
  <2>2. Cardinality({}) = 0 /\ Cardinality(Workers) \in Nat
    BY GatewayAssumption, FS_EmptySet, FS_CardinalityType
  <2>. QED  BY <1>2, <2>1, <2>2 DEF LoginInv
<1>4. GatewayInv
  BY <1>2 DEF GatewayInv, JobOK, Resting
<1>5. AdmissionInv
  BY <1>2, SessionsAssumption DEF AdmissionInv
<1>6. TalkOK(<<>>) /\ UserIds(<<>>) = {}
  BY DEF TalkOK, UserIds
<1>7. ThreadInv
  BY <1>2, <1>6, SessionsAssumption DEF ThreadInv, ClientOK
<1>8. ASSUME NEW s \in Sessions
      PROVE  PageOK(talk[s], asked[s], wanted[s], page[s])
  <2>1. /\ page[s].at = "idle" /\ page[s].reply = None /\ page[s].pending = None
        /\ page[s].query = None /\ page[s].want = Nothing /\ wanted[s] = Nothing
    BY DEF SessionsInit
  <2>2. ~Submitted(page[s]) /\ ReplyOK(page[s])
    BY <2>1 DEF Submitted, ReplyOK
  <2>3. talk[s] = <<>> /\ asked[s] = 0
    BY <1>2, SessionsAssumption
  <2>4. Apart(0, {}, {}, {}, {}, {}, {})
    BY DEF Apart
  <2>5. WaitingOK(<<>>, 0, Nothing, page[s])
    BY <1>6, <2>1, <2>2, <2>4, NobodyWaits DEF WaitingOK, Held
  <2>. QED  BY <1>6, <2>1, <2>2, <2>3, <2>5 DEF PageOK
<1>9. PageInv
  BY <1>8 DEF PageInv
<1>. QED  BY <1>1, <1>3, <1>4, <1>5, <1>7, <1>9 DEF SessionsInv

LEMMA SessionsInductive == SessionsInv /\ [SessionsNext]_sessionsVars => SessionsInv'
BY NextTypes, GatewayNext, AdmissionNext, PageNext, ClientNext DEF SessionsInv

\* The inductive invariant holds in every reachable state.
THEOREM SessionsInvariant == SessionsSpec => []SessionsInv
BY SessionsInitial, SessionsInductive, PTL DEF SessionsSpec

\* However many threads find no connection at once, the process logs in to
\* Odoo at most once for each of them (_ensure_connected, odoo_service.py).
THEOREM LoginsAreBounded == SessionsSpec => []LoginsBounded
<1>1. SessionsInv => LoginsBounded
  <2>1. IsFiniteSet(LoggingIn)
    BY GatewayAssumption, FS_Subset DEF LoggingIn
  <2>2. Cardinality(LoggingIn) \in Nat /\ Cardinality(Workers) \in Nat
    BY <2>1, GatewayAssumption, FS_CardinalityType
  <2>. QED  BY <2>2 DEF SessionsInv, SessionsTypeOK, LoginInv, LoginsBounded
<1>. QED  BY <1>1, SessionsInvariant, PTL

\* With mock data no question fails, whatever the language model does.
THEOREM MockNeverFails == SessionsSpec => []NeverFailsOffline
<1>1. SessionsInv => NeverFailsOffline
  BY DEF SessionsInv, GatewayInv, JobOK, NeverFailsOffline
<1>. QED  BY <1>1, SessionsInvariant, PTL

\* Without a secret, a valid token or the read-only user nothing is reached
\* (require_auth, validate_startup).
THEOREM GatewayFailsClosed == SessionsSpec => []FailsClosed
<1>1. ASSUME SessionsInv
      PROVE  FailsClosed
  <2>1. ASSUME NEW t \in Threads, worker[t] # Resting
        PROVE  post[t].token = "valid" /\ env.secret
    <3>1. post[t] \in Requests /\ post[t] # Free
      BY <1>1, <2>1 DEF SessionsInv, SessionsTypeOK, AdmissionInv, Free
    <3>. QED  BY <1>1, <3>1 DEF SessionsInv, AdmissionInv, Requests
  <2>2. ~env.secret => admitted = <<>>
    BY <1>1 DEF SessionsInv, AdmissionInv
  <2>3. env.config = "refused" => logins = 0 /\ \A w \in Workers : worker[w].at # "connecting"
    BY <1>1 DEF SessionsInv, GatewayInv, JobOK
  <2>. QED  BY <2>1, <2>2, <2>3 DEF FailsClosed
<1>. QED  BY <1>1, SessionsInvariant, PTL

\* What TalkOK says of one conversation holds of every worker's.
LEMMA TalkIsOK ==
  ASSUME SessionsInv, NEW w \in Workers
  PROVE  TalkOK(talk[w])
BY SessionsAssumption DEF SessionsInv, PageInv, PageOK, ThreadInv, ClientOK

\* An answer stands right below the question it answers.
THEOREM AnswersAreBelow == SessionsSpec => []AnswersFollowQuestions
<1>1. SessionsInv => AnswersFollowQuestions
  BY TalkIsOK DEF TalkOK, AnswersFollowQuestions, Answers
<1>. QED  BY <1>1, SessionsInvariant, PTL

\* One interaction puts one question, and gets one answer.
THEOREM QuestionsAreAskedOnce == SessionsSpec => []AskedAtMostOnce
<1>1. ASSUME SessionsInv, NEW w \in Workers, NEW i \in DOMAIN talk[w], NEW j \in DOMAIN talk[w],
             talk[w][i].role = talk[w][j].role, talk[w][i].id = talk[w][j].id
      PROVE  i = j
  <2>1. TalkOK(talk[w]) /\ talk[w] \in Seq(Messages)
    BY <1>1, TalkIsOK DEF SessionsInv, SessionsTypeOK
  <2>2. talk[w][i] \in Messages
    BY <2>1
  <2>3. CASE talk[w][i].role = "user"
    BY <1>1, <2>1, <2>3 DEF TalkOK
  <2>4. CASE talk[w][i].role = "assistant"
    <3>1. /\ i > 1 /\ talk[w][i - 1].role = "user" /\ talk[w][i - 1].id = talk[w][i].id
          /\ j > 1 /\ talk[w][j - 1].role = "user" /\ talk[w][j - 1].id = talk[w][j].id
      BY <1>1, <2>1, <2>4 DEF TalkOK
    <3>2. i \in Nat /\ j \in Nat /\ i - 1 \in DOMAIN talk[w] /\ j - 1 \in DOMAIN talk[w]
      BY <2>1, <3>1
    <3>3. i - 1 = j - 1
      BY <1>1, <2>1, <3>1, <3>2 DEF TalkOK
    <3>. QED  BY <3>2, <3>3
  <2>. QED  BY <2>2, <2>3, <2>4 DEF Messages
<1>2. SessionsInv => AskedAtMostOnce
  BY <1>1 DEF AskedAtMostOnce
<1>. QED  BY <1>2, SessionsInvariant, PTL

-----------------------------------------------------------------------------
(***************************************************************************)
(* What a page computes for its caches.                                    *)
(***************************************************************************)

Computing == {"data", "lists", "export"}
Underway == {"reading", "connecting", "calling"}

\* A computation reads once, and what it returns was read at its end.
CacheJob(job, now) ==
    \/ job = Resting
    \/ job.at \in Underway /\ job.by = "page" /\ job.left = 1 /\ job.figures = {}
    \/ job.at = "done" /\ job.raised /\ job.figures = {}
    \/ job.at = "done" /\ ~job.raised /\ \E n \in 0..now : job.figures = {n}

\* A run waits for nothing but a computation and an answer, and shows nothing
\* before its view.
RunOK(p, job, now) ==
    /\ p.at \notin Computing \cup {"asking"} => job = Resting
    /\ p.at \in Computing => CacheJob(job, now)
    /\ p.at \in {"idle", "top", "view"} => p.shown = {}

RunInv ==
    /\ books <= MaxBooks
    /\ \A s \in Sessions : RunOK(page[s], worker[s], books)

\* The page of a session after each of the steps of a run.
LEMMA EndedShown ==
  ASSUME NEW p \in Pages
  PROVE  /\ Ended(p).shown = {} /\ Ended(p).refreshed = None
         /\ \A place \in {"idle", "top"} :
               /\ [Ended(p) EXCEPT !.at = place].at = place
               /\ [Ended(p) EXCEPT !.at = place].shown = {}
               /\ [Ended(p) EXCEPT !.at = place].refreshed = None
               /\ [Ended(p) EXCEPT !.at = place].reply = None
BY DEF Ended, Pages

\* A computation stays one in each step of the agent.
LEMMA CacheJobStep ==
  ASSUME GatewayTypes, NEW w \in Workers, CacheJob(worker[w], books), Answering(w)
  PROVE  CacheJob(worker'[w], books)
<1>. USE DEF GatewayTypes
<1>. DEFINE job == worker[w]
<1>1. job \in Jobs
  OBVIOUS
<1>2. job.at \in {"model", "reading", "connecting", "calling"}
  BY DEF Answering, ModelTalks, ModelCalls, ModelFails, StartRead, Login, LoginFails, Called, CallFails
<1>3. job.at \in Underway /\ job.by = "page" /\ job.left = 1 /\ job.figures = {}
  BY <1>2 DEF CacheJob, Resting, Underway
<1>4. job \in ReadingJobs
  BY <1>1, <1>3, JobByPlace DEF Underway
<1>5. Got(w) = Done(job.tool, {books}, FALSE)
  <2>1. job.tool # None
    BY <1>3, <1>4, SessionsAssumption DEF ReadingJobs, Reading, Naming
  <2>. QED  BY <1>3, <2>1 DEF Got
<1>6. Raised(job) = Done(None, {}, TRUE)
  BY <1>3 DEF Raised
<1>7. CacheJob(Got(w), books)
  BY <1>5 DEF CacheJob, Done
<1>8. CacheJob(Raised(job), books)
  BY <1>6 DEF CacheJob, Done
<1>9. ASSUME NEW place \in Underway
      PROVE  CacheJob([job EXCEPT !.at = place], books)
  <2>1. /\ [job EXCEPT !.at = place].at = place /\ [job EXCEPT !.at = place].by = job.by
        /\ [job EXCEPT !.at = place].left = job.left /\ [job EXCEPT !.at = place].figures = job.figures
    BY <1>4, <1>9 DEF ReadingJobs, Reading, Naming
  <2>. QED  BY <1>3, <1>9, <2>1 DEF CacheJob
<1>10. CacheJob(Connecting(w), books)
  BY <1>8, <1>9 DEF Connecting, Underway
<1>11. PICK new \in {Got(w), Raised(job), Connecting(w), [job EXCEPT !.at = "calling"]} : Sets(w, new)
  BY <1>3 DEF Answering, ModelTalks, ModelCalls, ModelFails, StartRead, Login, LoginFails, Called,
     CallFails, Underway
<1>12. worker'[w] = new
  BY <1>11 DEF Sets
<1>. QED  BY <1>7, <1>8, <1>9, <1>10, <1>11, <1>12 DEF Underway


-----------------------------------------------------------------------------
(***************************************************************************)
(* The caches of the page.                                                 *)
(***************************************************************************)

\* The export of a statement is cached before its answer joins the
\* conversation, and nothing clears it.
ExportOK(turns, p) ==
    Statements(turns) # {} \/ (p.at = "rendered" /\ p.reply.tool = Statement) => cache["export"] # None
ExportInv == \A s \in Sessions : ExportOK(talk[s], page[s])

\* What may be shown from now on was read at version n or later.
Since(n) ==
    /\ n <= books
    /\ \A name \in {"data", "lists"} : cache[name] # None => \A v \in cache[name] : v >= n
    /\ \A r \in Sessions : Loading(r) /\ worker[r].at = "done" => \A v \in worker[r].figures : v >= n

Refreshed(p) == p.refreshed # None /\ p.refreshed.alone

RefreshInv ==
    \A s \in Sessions : Refreshed(page[s]) =>
       Since(page[s].refreshed.at) /\ \A v \in page[s].shown : v >= page[s].refreshed.at

-----------------------------------------------------------------------------
(***************************************************************************)
(* Where the figures of an answer come from.                               *)
(***************************************************************************)

\* Among the first n turns one shows v as the answer of a short tool.
Quoted(turns, n, short, v) ==
    \E j \in 1..n : turns[j].role = "assistant" /\ turns[j].tool \in short /\ v \in turns[j].figures

\* An answer under way, or made: a tool's figures are new, a text's are those
\* it was sent.
JobFresh(job, since, turns, short) ==
    /\ job.at = "model" => \A v \in job.seen : Quoted(turns, Len(turns), short, v)
    /\ job.at \in Underway => \A v \in job.figures : v >= since
    /\ job.at = "done" => \A v \in job.figures :
                             IF job.tool \in Tools THEN v >= since ELSE Quoted(turns, Len(turns), short, v)

TurnsFresh(turns, short) ==
    \A i \in DOMAIN turns : turns[i].role = "assistant" => \A v \in turns[i].figures :
       IF turns[i].tool \in Tools THEN v >= turns[i].since ELSE Quoted(turns, i - 1, short, v)

\* The questions of a session that wait or are served.
Pending(want, p) == {want.ask, want.typed, p.pending, p.query, p.want.typed}

SessionFresh(turns, job, want, p, now) ==
    /\ TurnsFresh(turns, {})
    /\ \A e \in Pending(want, p) : e # None => e.since <= now
    /\ p.at = "asking" => JobFresh(job, p.query.since, turns, {})
    /\ p.reply # None => JobFresh(p.reply, p.query.since, turns, {})

ThreadFresh(turns, job, request, now) ==
    /\ TurnsFresh(turns, Short)
    /\ request # Free => request.since <= now
    /\ job # Resting => JobFresh(job, request.since, turns, Short)

FreshInv ==
    /\ \A s \in Sessions : SessionFresh(talk[s], worker[s], wanted[s], page[s], books)
    /\ \A t \in Threads : ThreadFresh(talk[t], worker[t], post[t], books)

-----------------------------------------------------------------------------
(***************************************************************************)
(* What each step does to its session.                                     *)
(***************************************************************************)

\* A step of one session, seen from the others and from the threads.
LEMMA OthersKeep ==
  ASSUME SessionsTypeOK, NEW s \in Sessions, Interacts(s) \/ Begin(s) \/ Script(s)
  PROVE  /\ books' = books /\ env' = env /\ post' = post
         /\ \A r \in Sessions \ {s} : /\ page'[r] = page[r] /\ worker'[r] = worker[r]
                                      /\ talk'[r] = talk[r] /\ wanted'[r] = wanted[r]
         /\ \A t \in Threads : worker'[t] = worker[t] /\ talk'[t] = talk[t]
<1>. USE DEF SessionsTypeOK
<1>1. CASE Interacts(s) \/ Begin(s)
  BY <1>1 DEF Interacts, Click, Type, ClearChat, Refresh, Navigate, Interaction, Begin, Turns, gatewayVars
<1>2. CASE Script(s)
  <2>1. books' = books /\ env' = env /\ post' = post /\ wanted' = wanted
    BY <1>2 DEF Script, Sidebar, View, Fetch, Cached, Submit, Answered, Render, Join, RunOnly
  <2>2. worker' = worker \/ \E job : worker' = [worker EXCEPT ![s] = job]
    BY <1>2 DEF Script, Sidebar, View, Fetch, Cached, Submit, Answered, Render, Join, RouteQuery, Sets
  <2>3. talk' = talk \/ \E turns : talk' = [talk EXCEPT ![s] = turns]
    BY <1>2 DEF Script, Sidebar, View, Fetch, Cached, Submit, Answered, Render, Join
  <2>4. page' = page \/ \E p : page' = [page EXCEPT ![s] = p]
    BY <1>2 DEF Script, Sidebar, View, Fetch, Cached, Submit, Answered, Render, Join, Turns
  <2>. QED  BY <2>1, <2>2, <2>3, <2>4, SessionsAssumption
<1>. QED  BY <1>1, <1>2

\* The questions and the reply stay where they are.
SameRun(p, q) == q.pending = p.pending /\ q.query = p.query /\ q.want = p.want /\ q.reply = p.reply

\* A run is over: nothing of it is left but the queued question.
RunOver(p, q) ==
    /\ q.at \in {"idle", "top"} /\ q.shown = {} /\ q.refreshed = None /\ q.reply = None
    /\ q.query = None /\ q.want = Nothing /\ q.pending = p.pending

LEMMA EndedOver ==
  ASSUME NEW p \in Pages
  PROVE  /\ RunOver(p, Ended(p))
         /\ \A place \in {"idle", "top"} : RunOver(p, [Ended(p) EXCEPT !.at = place])
BY DEF Ended, Pages, RunOver

LEMMA InteractsDoes ==
  ASSUME SessionsTypeOK, NEW s \in Sessions, Interacts(s)
  PROVE  /\ UNCHANGED <<page, worker, talk, cache>>
         /\ \A e \in {wanted'[s].ask, wanted'[s].typed} :
               e # None => e.since = books \/ e \in {wanted[s].ask, wanted[s].typed}
<1>1. UNCHANGED <<page, worker, talk, cache>>
  BY DEF Interacts, Click, Type, ClearChat, Refresh, Navigate, Interaction, gatewayVars
<1>2. wanted[s] \in Wants
  BY DEF SessionsTypeOK
<1>3. ASSUME NEW want, Interaction(s, want)
      PROVE  wanted'[s] = want
  BY <1>3 DEF Interaction, SessionsTypeOK
<1>4. ASSUME NEW q \in Questions, Click(s, q) \/ Type(s, q)
      PROVE  \A e \in {wanted'[s].ask, wanted'[s].typed} :
               e # None => e.since = books \/ e \in {wanted[s].ask, wanted[s].typed}
  <2>1. Entry(s, q).since = books
    BY DEF Entry
  <2>2. wanted'[s] = [wanted[s] EXCEPT !.ask = Entry(s, q)] \/ wanted'[s] = [wanted[s] EXCEPT !.typed = Entry(s, q)]
    BY <1>3, <1>4 DEF Click, Type
  <2>. QED  BY <1>2, <2>1, <2>2 DEF Wants
<1>5. CASE ClearChat(s) \/ Refresh(s) \/ \E view \in Views : Navigate(s, view)
  <2>1. \/ wanted'[s] = [wanted[s] EXCEPT !.clear = TRUE]
        \/ wanted'[s] = [wanted[s] EXCEPT !.refresh = TRUE]
        \/ \E view \in Views : wanted'[s] = [wanted[s] EXCEPT !.view = view]
    BY <1>3, <1>5 DEF ClearChat, Refresh, Navigate
  <2>2. wanted'[s].ask = wanted[s].ask /\ wanted'[s].typed = wanted[s].typed
    BY <1>2, <2>1 DEF Wants
  <2>. QED  BY <1>1, <2>2
<1>. QED  BY <1>1, <1>4, <1>5 DEF Interacts

LEMMA BeginDoes ==
  ASSUME SessionsTypeOK, NEW s \in Sessions, Begin(s)
  PROVE  LET p == page[s]
             q == page'[s]
         IN /\ p.at \in {"idle", "top", "view", "ready", "answered", "rendered"} /\ q.at = "top"
            /\ q.shown = {} /\ q.refreshed = None /\ q.reply = None /\ q.query = None
            /\ q.want = wanted[s] /\ q.pending \in {p.pending, wanted[s].ask}
            /\ wanted'[s] = Nothing /\ UNCHANGED <<worker, talk, cache>>
<1>1. page[s] \in Pages /\ wanted[s] \in Wants
  BY DEF SessionsTypeOK
<1>. DEFINE ended == Ended(page[s])
            ask == IF wanted[s].ask # None THEN wanted[s].ask ELSE ended.pending
            view == IF wanted[s].view # None THEN wanted[s].view ELSE ended.view
            begun == [ended EXCEPT !.at = "top", !.want = wanted[s], !.pending = ask, !.view = view]
<1>2. page'[s] = begun
  BY DEF SessionsTypeOK, Begin, Turns
<1>3. ended \in Pages /\ RunOver(page[s], ended)
  BY <1>1, EndedType, EndedOver
<1>4. ask \in {page[s].pending, wanted[s].ask}
  BY <1>3 DEF RunOver
<1>5. /\ begun.at = "top" /\ begun.want = wanted[s] /\ begun.pending = ask
      /\ begun.shown = ended.shown /\ begun.refreshed = ended.refreshed /\ begun.reply = ended.reply
      /\ begun.query = ended.query
  <2>. HIDE DEF ended, ask, view
  <2>. QED  BY <1>3 DEF Pages
<1>6. page[s].at \in {"idle", "top", "view", "ready", "answered", "rendered"}
      /\ wanted'[s] = Nothing /\ UNCHANGED <<worker, talk, cache>>
  BY DEF SessionsTypeOK, Begin, At, gatewayVars
<1>. HIDE DEF ended, ask, view, begun
<1>. QED  BY <1>2, <1>3, <1>4, <1>5, <1>6 DEF RunOver

LEMMA SidebarDoes ==
  ASSUME SessionsTypeOK, NEW s \in Sessions, Sidebar(s)
  PROVE  LET p == page[s]
             q == page'[s]
         IN /\ p.at = "top" /\ q.at \in {"top", "view"}
            /\ q.shown \in {p.shown, {}} /\ q.refreshed \in {p.refreshed, None}
            /\ q.reply \in {p.reply, None} /\ q.query \in {p.pending, None}
            /\ q.want \in {p.want, Nothing} /\ q.pending = None
            /\ talk'[s] \in {talk[s], <<>>} /\ UNCHANGED <<worker, cache, wanted>>
<1>1. page[s] \in Pages /\ s \in Workers
  BY SessionsAssumption DEF SessionsTypeOK
<1>. DEFINE p == [Popped(page[s]) EXCEPT
                    !.view = IF page[s].pending # None THEN "assistant" ELSE Popped(page[s]).view]
<1>2. p \in Pages
  BY <1>1 DEF Popped, Pages, Views
<1>3. /\ p.shown = page[s].shown /\ p.refreshed = page[s].refreshed /\ p.reply = page[s].reply
      /\ p.query = page[s].pending /\ p.want = page[s].want /\ p.pending = None
  BY <1>1 DEF Popped, Pages
<1>4. \/ talk' = [talk EXCEPT ![s] = <<>>] /\ Turns(s, [Ended(p) EXCEPT !.at = "top"])
      \/ talk' = talk /\ Turns(s, [p EXCEPT !.at = "view"])
  BY DEF Sidebar
<1>5. page[s].at = "top" /\ UNCHANGED <<worker, cache, wanted>>
  BY DEF Sidebar, At, RunOnly
<1>. HIDE DEF p
<1>6. CASE talk' = [talk EXCEPT ![s] = <<>>] /\ Turns(s, [Ended(p) EXCEPT !.at = "top"])
  <2>1. RunOver(p, [Ended(p) EXCEPT !.at = "top"]) /\ [Ended(p) EXCEPT !.at = "top"].at = "top"
    BY <1>2, EndedOver, EndedShown
  <2>2. page'[s] = [Ended(p) EXCEPT !.at = "top"] /\ talk'[s] = <<>>
    BY <1>1, <1>6 DEF SessionsTypeOK, Turns
  <2>3. RunOver(p, page'[s]) /\ page'[s].at = "top"
    BY <2>1, <2>2
  <2>. QED  BY <1>3, <1>5, <2>2, <2>3 DEF RunOver
<1>7. CASE talk' = talk /\ Turns(s, [p EXCEPT !.at = "view"])
  <2>1. page'[s] = [p EXCEPT !.at = "view"]
    BY <1>7 DEF SessionsTypeOK, Turns
  <2>. QED  BY <1>2, <1>3, <1>5, <1>7, <2>1 DEF Pages
<1>. QED  BY <1>4, <1>6, <1>7

LEMMA ViewDoes ==
  ASSUME SessionsTypeOK, NEW s \in Sessions, View(s)
  PROVE  LET p == page[s]
             q == page'[s]
         IN /\ p.at = "view" /\ q.at \in {"data", "export", "ready"} /\ q.shown = p.shown
            /\ SameRun(p, q) /\ UNCHANGED <<worker, talk, wanted>>
            /\ \/ q.refreshed = None /\ cache' \in {cache, Cleared}
               \/ /\ q.refreshed = [at |-> books, alone |-> ~\E r \in Sessions : Loading(r)]
                  /\ cache' = Cleared
<1>1. page[s] \in Pages
  BY DEF SessionsTypeOK
<1>. DEFINE dashboard == page[s].view = "dashboard"
            refresh == dashboard /\ page[s].want.refresh
            place == IF dashboard THEN "data" ELSE IF Statements(talk[s]) # {} THEN "export" ELSE "ready"
            stamp == [at |-> books, alone |-> ~\E r \in Sessions : Loading(r)]
            seen == IF refresh THEN stamp ELSE None
            q == [page[s] EXCEPT !.at = place, !.refreshed = seen]
<1>2. Turns(s, q) /\ cache' = IF refresh THEN Cleared ELSE cache
  BY DEF View
<1>3. page'[s] = q
  BY <1>2 DEF SessionsTypeOK, Turns
<1>4. place \in {"data", "export", "ready"}
  OBVIOUS
<1>5. page[s].at = "view" /\ UNCHANGED <<worker, talk, wanted>>
  BY DEF View, At, RunOnly
<1>6. \/ seen = None /\ cache' \in {cache, Cleared}
      \/ seen = stamp /\ cache' = Cleared
  BY <1>2
<1>. HIDE DEF place, seen
<1>7. q.at = place /\ q.refreshed = seen /\ q.shown = page[s].shown /\ SameRun(page[s], q)
  BY <1>1 DEF Pages, SameRun
<1>. HIDE DEF q
<1>. QED  BY <1>3, <1>4, <1>5, <1>6, <1>7


\* A function under st.cache_data has its value: kept, or computed now.
FetchedFrom(s, figures) ==
    LET p == page[s]
        q == page'[s]
    IN /\ q.refreshed = p.refreshed /\ SameRun(p, q)
       /\ q.shown = IF p.at = "export" THEN p.shown ELSE p.shown \cup figures
       /\ q.at \in {"lists", "ready", "rendered"}
       /\ q.at = "lists" <=> p.at = "data"
       /\ q.at = "rendered" <=> p.at = "export" /\ p.reply # None

LEMMA FetchedDoes ==
  ASSUME SessionsTypeOK, NEW s \in Sessions, page[s].at \in Computing, NEW figures,
         Turns(s, Fetched(page[s], figures))
  PROVE  FetchedFrom(s, figures)
<1>1. page[s] \in Pages
  BY DEF SessionsTypeOK
<1>2. page'[s] = Fetched(page[s], figures)
  BY DEF SessionsTypeOK, Turns
<1>. QED  BY <1>1, <1>2 DEF Fetched, Pages, FetchedFrom, SameRun, Computing

LEMMA FetchDoes ==
  ASSUME SessionsTypeOK, NEW s \in Sessions, Fetch(s)
  PROVE  /\ page[s].at \in Computing /\ worker[s] = Resting /\ UNCHANGED <<talk, wanted, cache>>
         /\ \/ cache[page[s].at] # None /\ FetchedFrom(s, cache[page[s].at]) /\ worker' = worker
            \/ page' = page /\ worker'[s] = Computation
<1>1. page[s].at \in Computing /\ worker[s] = Resting /\ UNCHANGED <<talk, wanted, cache>>
  BY DEF Fetch, At, Computing, RunOnly
<1>2. s \in Workers
  BY SessionsAssumption
<1>3. CASE cache[page[s].at] # None
  BY <1>1, <1>3, FetchedDoes DEF Fetch
<1>4. CASE cache[page[s].at] = None
  BY <1>1, <1>2, <1>4 DEF Fetch, Sets, SessionsTypeOK
<1>. QED  BY <1>3, <1>4

LEMMA CachedDoes ==
  ASSUME SessionsTypeOK, NEW s \in Sessions, Cached(s)
  PROVE  /\ page[s].at \in Computing /\ worker[s].at = "done" /\ worker'[s] = Resting
         /\ UNCHANGED <<talk, wanted>>
         /\ \/ worker[s].raised /\ RunOver(page[s], page'[s]) /\ page'[s].at = "idle" /\ cache' = cache
            \/ /\ ~worker[s].raised /\ FetchedFrom(s, worker[s].figures)
               /\ cache' = [cache EXCEPT ![page[s].at] = worker[s].figures]
<1>1. /\ page[s].at \in Computing /\ worker[s].at = "done" /\ worker'[s] = Resting
      /\ UNCHANGED <<talk, wanted>>
  BY SessionsAssumption DEF Cached, At, Computing, RunOnly, Sets, SessionsTypeOK
<1>2. CASE worker[s].raised
  <2>1. page'[s] = Ended(page[s]) /\ cache' = cache /\ page[s] \in Pages
    BY <1>2 DEF Cached, Stopped, Turns, SessionsTypeOK
  <2>2. RunOver(page[s], Ended(page[s])) /\ Ended(page[s]).at = "idle"
    BY <2>1, EndedOver, EndedPage
  <2>. QED  BY <1>1, <1>2, <2>1, <2>2
<1>3. CASE ~worker[s].raised
  <2>1. Turns(s, Fetched(page[s], worker[s].figures))
    BY <1>3 DEF Cached
  <2>2. FetchedFrom(s, worker[s].figures)
    BY <1>1, <2>1, FetchedDoes
  <2>3. cache' = [cache EXCEPT ![page[s].at] = worker[s].figures]
    BY <1>3 DEF Cached
  <2>. QED  BY <1>1, <1>3, <2>2, <2>3
<1>. QED  BY <1>2, <1>3

LEMMA SubmitDoes ==
  ASSUME SessionsTypeOK, NEW s \in Sessions, Submit(s)
  PROVE  LET p == page[s]
             q == page'[s]
             input == Input(p)
         IN /\ p.at = "ready" /\ UNCHANGED <<cache, wanted>>
            /\ input \in {p.want.typed, p.query}
            /\ \/ RunOver(p, q) /\ q.at = "idle" /\ UNCHANGED <<worker, talk>>
               \/ /\ input \in Entries /\ q.at = "asking" /\ q.query = input
                  /\ q.pending = p.pending /\ q.want = p.want /\ q.reply = p.reply
                  /\ q.shown = p.shown /\ q.refreshed = p.refreshed
                  /\ talk'[s] = Append(talk[s], User(input.id, input.question))
                  /\ RouteQuery(s, input.question, Carried(talk[s], KeptByPage))
<1>. DEFINE input == Input(page[s])
<1>1. page[s] \in Pages /\ s \in Workers
  BY SessionsAssumption DEF SessionsTypeOK
<1>2. page[s].at = "ready" /\ UNCHANGED <<cache, wanted>>
  BY DEF Submit, At, RunOnly
<1>3. input \in Entries \cup {None} /\ input \in {page[s].want.typed, page[s].query}
  BY <1>1, InputType DEF Input
<1>. HIDE DEF input
<1>4. CASE /\ input = None
           /\ Turns(s, Ended(page[s])) /\ UNCHANGED <<worker, talk>>
  <2>1. page'[s] = Ended(page[s])
    BY <1>4 DEF Turns, SessionsTypeOK
  <2>2. RunOver(page[s], Ended(page[s])) /\ Ended(page[s]).at = "idle"
    BY <1>1, EndedOver, EndedPage
  <2>. QED  BY <1>2, <1>3, <1>4, <2>1, <2>2 DEF input
<1>5. CASE /\ input # None
           /\ talk' = [talk EXCEPT ![s] = Append(@, User(input.id, input.question))]
           /\ Turns(s, Asking(page[s], input))
           /\ RouteQuery(s, input.question, Carried(talk[s], KeptByPage))
  <2>1. page'[s] = Asking(page[s], input) /\ talk'[s] = Append(talk[s], User(input.id, input.question))
    BY <1>1, <1>5 DEF Turns, SessionsTypeOK
  <2>2. LET q == Asking(page[s], input)
        IN /\ q.at = "asking" /\ q.query = input /\ q.pending = page[s].pending /\ q.want = page[s].want
           /\ q.reply = page[s].reply /\ q.shown = page[s].shown /\ q.refreshed = page[s].refreshed
    BY <1>1 DEF Asking, Pages
  <2>. QED  BY <1>2, <1>3, <1>5, <2>1, <2>2 DEF input
<1>. QED  BY <1>4, <1>5, SubmitCases DEF input

LEMMA AnsweredDoes ==
  ASSUME SessionsTypeOK, NEW s \in Sessions, Answered(s)
  PROVE  LET p == page[s]
             q == page'[s]
         IN /\ p.at = "asking" /\ worker[s].at = "done" /\ worker'[s] = Resting
            /\ UNCHANGED <<talk, cache, wanted>>
            /\ q.at = IF worker[s].tool = Statement THEN "answered" ELSE "rendered"
            /\ q.reply = worker[s] /\ q.pending = p.pending /\ q.query = p.query /\ q.want = p.want
            /\ q.shown = p.shown /\ q.refreshed = p.refreshed
<1>1. page[s] \in Pages /\ s \in Workers
  BY SessionsAssumption DEF SessionsTypeOK
<1>2. /\ page[s].at = "asking" /\ worker[s].at = "done" /\ worker'[s] = Resting
      /\ UNCHANGED <<talk, cache, wanted>>
  BY <1>1 DEF Answered, At, RunOnly, Sets, SessionsTypeOK
<1>. DEFINE place == IF worker[s].tool = Statement THEN "answered" ELSE "rendered"
<1>3. page'[s] = [page[s] EXCEPT !.at = place, !.reply = worker[s]]
  BY DEF Answered, Turns, SessionsTypeOK
<1>4. place = IF worker[s].tool = Statement THEN "answered" ELSE "rendered"
  OBVIOUS
<1>. HIDE DEF place
<1>. QED  BY <1>1, <1>2, <1>3, <1>4 DEF Pages

LEMMA RenderDoes ==
  ASSUME SessionsTypeOK, NEW s \in Sessions, Render(s)
  PROVE  LET p == page[s]
             q == page'[s]
         IN /\ p.at = "answered" /\ q.at = "export" /\ SameRun(p, q)
            /\ q.shown = p.shown /\ q.refreshed = p.refreshed
            /\ UNCHANGED <<worker, talk, cache, wanted>>
<1>1. page[s] \in Pages /\ page'[s] = [page[s] EXCEPT !.at = "export"]
  BY DEF SessionsTypeOK, Render, Turns
<1>2. page[s].at = "answered" /\ UNCHANGED <<worker, talk, cache, wanted>>
  BY DEF Render, At, RunOnly
<1>. QED  BY <1>1, <1>2 DEF Pages, SameRun

LEMMA JoinDoes ==
  ASSUME SessionsTypeOK, NEW s \in Sessions, Join(s)
  PROVE  LET p == page[s]
             q == page'[s]
         IN /\ p.at = "rendered" /\ RunOver(p, q) /\ UNCHANGED <<worker, cache, wanted>>
            /\ talk'[s] = Append(talk[s], Assistant(p.query.id, p.reply, p.query.since))
<1>1. page[s] \in Pages /\ s \in Workers
  BY SessionsAssumption DEF SessionsTypeOK
<1>2. PICK place \in {"idle", "top"} : page'[s] = [Ended(page[s]) EXCEPT !.at = place]
  BY DEF SessionsTypeOK, Join, Turns
<1>3. RunOver(page[s], [Ended(page[s]) EXCEPT !.at = place])
  BY <1>1, EndedOver
<1>4. /\ page[s].at = "rendered" /\ UNCHANGED <<worker, cache, wanted>>
      /\ talk'[s] = Append(talk[s], Assistant(page[s].query.id, page[s].reply, page[s].query.since))
  BY <1>1 DEF SessionsTypeOK, Join, At, RunOnly
<1>. QED  BY <1>2, <1>3, <1>4


-----------------------------------------------------------------------------
(***************************************************************************)
(* The invariant of the computations.                                      *)
(***************************************************************************)

LEMMA ComputationJob == CacheJob(Computation, books)
BY DEF CacheJob, Computation, Running, Underway

\* The other sessions, and the books that only grow.
LEMMA RunStep ==
  ASSUME SessionsTypeOK, RunInv, NEW s \in Sessions, books' = books,
         \A r \in Sessions \ {s} : page'[r] = page[r] /\ worker'[r] = worker[r],
         RunOK(page'[s], worker'[s], books)
  PROVE  RunInv'
<1>1. ASSUME NEW r \in Sessions
      PROVE  RunOK(page'[r], worker'[r], books')
  BY DEF RunInv
<1>. QED  BY <1>1 DEF RunInv

LEMMA RunStutter ==
  ASSUME SessionsTypeOK, RunInv, books' \in Nat, books <= books', books' <= MaxBooks,
         \A r \in Sessions : page'[r] = page[r] /\ worker'[r] = worker[r]
  PROVE  RunInv'
<1>1. ASSUME NEW job, CacheJob(job, books)
      PROVE  CacheJob(job, books')
  <2>1. \A n \in 0..books : n \in 0..books'
    BY DEF SessionsTypeOK
  <2>. QED  BY <1>1, <2>1 DEF CacheJob
<1>2. ASSUME NEW r \in Sessions
      PROVE  RunOK(page'[r], worker'[r], books')
  <2>1. RunOK(page[r], worker[r], books) /\ page'[r] = page[r] /\ worker'[r] = worker[r]
    BY DEF RunInv
  <2>. QED  BY <1>1, <2>1 DEF RunOK
<1>. QED  BY <1>2 DEF RunInv

\* A step of the page.
LEMMA RunScript ==
  ASSUME SessionsTypeOK, RunInv, NEW s \in Sessions, Begin(s) \/ Script(s)
  PROVE  RunOK(page'[s], worker'[s], books)
<1>. DEFINE p == page[s]
            q == page'[s]
<1>1. RunOK(p, worker[s], books)
  BY DEF RunInv
<1>2. CacheJob(Resting, books)
  BY DEF CacheJob
<1>3. CASE Begin(s)
  <2>1. q.at = "top" /\ q.shown = {} /\ worker'[s] = Resting
    BY <1>1, <1>3, BeginDoes DEF RunOK, Computing
  <2>. QED  BY <2>1 DEF RunOK, Computing
<1>4. CASE Sidebar(s)
  <2>1. q.at \in {"top", "view"} /\ q.shown = {} /\ worker'[s] = Resting
    BY <1>1, <1>4, SidebarDoes DEF RunOK, Computing
  <2>. QED  BY <2>1 DEF RunOK, Computing
<1>5. CASE View(s)
  <2>1. q.at \in {"data", "export", "ready"} /\ worker'[s] = Resting
    BY <1>1, <1>5, ViewDoes DEF RunOK, Computing
  <2>. QED  BY <1>2, <2>1 DEF RunOK, Computing
<1>6. CASE Fetch(s)
  <2>1. CASE FetchedFrom(s, cache[p.at]) /\ worker' = worker /\ worker[s] = Resting
    <3>1. q.at \in {"lists", "ready", "rendered"} /\ worker'[s] = Resting
      BY <2>1 DEF FetchedFrom
    <3>. QED  BY <1>2, <3>1 DEF RunOK, Computing
  <2>2. CASE page' = page /\ worker'[s] = Computation /\ p.at \in Computing
    BY <2>2, ComputationJob DEF RunOK, Computing
  <2>. QED  BY <1>6, <2>1, <2>2, FetchDoes
<1>7. CASE Cached(s)
  <2>1. worker'[s] = Resting /\ (RunOver(p, q) \/ FetchedFrom(s, worker[s].figures))
    BY <1>7, CachedDoes
  <2>2. q.at \in {"lists", "ready", "rendered"} \/ (q.at \in {"idle", "top"} /\ q.shown = {})
    BY <2>1 DEF RunOver, FetchedFrom
  <2>. QED  BY <1>2, <2>1, <2>2 DEF RunOK, Computing
<1>8. CASE Submit(s)
  <2>1. p.at = "ready" /\ ((RunOver(p, q) /\ worker' = worker) \/ q.at = "asking")
    BY <1>8, SubmitDoes
  <2>2. CASE RunOver(p, q) /\ worker' = worker
    BY <1>1, <2>1, <2>2 DEF RunOK, RunOver, Computing
  <2>3. CASE q.at = "asking"
    BY <2>3 DEF RunOK, Computing
  <2>. QED  BY <2>1, <2>2, <2>3
<1>9. CASE Answered(s)
  <2>1. q.at \in {"answered", "rendered"} /\ worker'[s] = Resting
    BY <1>9, AnsweredDoes
  <2>. QED  BY <2>1 DEF RunOK, Computing
<1>10. CASE Render(s)
  <2>1. p.at = "answered" /\ q.at = "export" /\ worker' = worker
    BY <1>10, RenderDoes
  <2>. QED  BY <1>1, <1>2, <2>1 DEF RunOK, Computing
<1>11. CASE Join(s)
  <2>1. p.at = "rendered" /\ RunOver(p, q) /\ worker' = worker
    BY <1>11, JoinDoes
  <2>. QED  BY <1>1, <2>1 DEF RunOK, RunOver, Computing
<1>. QED  BY <1>3, <1>4, <1>5, <1>6, <1>7, <1>8, <1>9, <1>10, <1>11 DEF Script

\* A step of the service or of the clock, seen from the sessions.
LEMMA ServiceKeeps ==
  ASSUME SessionsTypeOK,
         \/ \E t \in Threads : \/ \E q \in Questions, token \in {"valid", "expired"} : Post(t, q, token)
                               \/ Limit(t) \/ Route(t) \/ Respond(t)
         \/ ClockTicks \/ UNCHANGED sessionsVars
  PROVE  /\ books' = books /\ cache' = cache /\ page' = page /\ wanted' = wanted
         /\ \A s \in Sessions : worker'[s] = worker[s] /\ talk'[s] = talk[s]
<1>1. books' = books /\ cache' = cache /\ page' = page /\ wanted' = wanted
  BY DEF Post, Limit, Route, Respond, ClockTicks, gatewayVars, pageVars, sessionsVars
<1>2. \/ worker' = worker
      \/ \E t \in Threads : \E job : worker' = [worker EXCEPT ![t] = job]
  BY DEF Post, Limit, Route, Respond, ClockTicks, RouteQuery, Sets, gatewayVars, sessionsVars
<1>3. \/ talk' = talk
      \/ \E t \in Threads : \E turns : talk' = [talk EXCEPT ![t] = turns]
  BY DEF Post, Limit, Route, Respond, ClockTicks, pageVars, sessionsVars
<1>. QED  BY <1>1, <1>2, <1>3, SessionsAssumption DEF SessionsTypeOK

\* A step of the agent is of a job that is under way.
LEMMA AgentKeeps ==
  ASSUME SessionsTypeOK, NEW w \in Workers, Agent(w)
  PROVE  /\ Answering(w) /\ worker[w] # Resting
         /\ UNCHANGED <<env, books, program, pageVars>>
         /\ \A v \in Workers \ {w} : worker'[v] = worker[v]
<1>1. UNCHANGED <<env, books, program, pageVars>> /\ Answering(w)
  BY DEF Agent, Answering, ModelTalks, ModelCalls, ModelFails, StartRead, Login, LoginFails, Called,
     CallFails
<1>2. worker[w].at \in {"model"} \cup Underway
  BY DEF Agent, Answering, ModelTalks, ModelCalls, ModelFails, StartRead, Login, LoginFails, Called,
     CallFails, Underway
<1>3. PICK job : worker' = [worker EXCEPT ![w] = job]
  BY DEF Agent, Answering, ModelTalks, ModelCalls, ModelFails, StartRead, Login, LoginFails, Called,
     CallFails, Sets
<1>. QED  BY <1>1, <1>2, <1>3 DEF Resting, Underway, SessionsTypeOK

LEMMA RunNext ==
  ASSUME SessionsTypeOK, RunInv, [SessionsNext]_sessionsVars
  PROVE  RunInv'
<1>1. books \in Nat /\ MaxBooks \in Nat /\ books <= MaxBooks
  BY GatewayAssumption DEF SessionsTypeOK, RunInv
<1>2. ASSUME \/ \E t \in Threads : \/ \E q \in Questions, token \in {"valid", "expired"} : Post(t, q, token)
                                   \/ Limit(t) \/ Route(t) \/ Respond(t)
             \/ ClockTicks \/ UNCHANGED sessionsVars
      PROVE  RunInv'
  BY <1>1, <1>2, ServiceKeeps, RunStutter
<1>3. CASE World
  <2>1. books' = books + 1 /\ books < MaxBooks /\ page' = page /\ worker' = worker
    BY <1>3 DEF World, BooksChange, pageVars
  <2>2. books' \in Nat /\ books <= books' /\ books' <= MaxBooks
    BY <1>1, <2>1
  <2>. QED  BY <2>1, <2>2, RunStutter
<1>4. ASSUME NEW s \in Sessions, Interacts(s)
      PROVE  RunInv'
  BY <1>1, <1>4, OthersKeep, InteractsDoes, RunStutter
<1>5. ASSUME NEW s \in Sessions, Begin(s) \/ Script(s)
      PROVE  RunInv'
  BY <1>5, OthersKeep, RunScript, RunStep
<1>6. ASSUME NEW w \in Workers, Agent(w)
      PROVE  RunInv'
  <2>1. /\ books' = books /\ page' = page /\ worker[w] # Resting
        /\ \A v \in Workers \ {w} : worker'[v] = worker[v]
    BY <1>6, AgentKeeps DEF pageVars
  <2>2. CASE w \in Sessions
    <3>1. CacheJob(worker[w], books) => CacheJob(worker'[w], books)
      BY <1>6, CacheJobStep, TypeParts DEF Agent
    <3>2. RunOK(page'[w], worker'[w], books)
      BY <2>1, <2>2, <3>1 DEF RunInv, RunOK, Computing
    <3>. QED  BY <2>1, <2>2, <3>2, RunStep, SessionsAssumption
  <2>3. CASE w \notin Sessions
    BY <1>1, <2>1, <2>3, RunStutter, SessionsAssumption
  <2>. QED  BY <2>2, <2>3
<1>. QED  BY <1>2, <1>3, <1>4, <1>5, <1>6 DEF SessionsNext, Interacts, Views


-----------------------------------------------------------------------------
(***************************************************************************)
(* The export of a statement.                                              *)
(***************************************************************************)

LEMMA StatementsAppend ==
  ASSUME NEW turns \in Seq(Messages), NEW m, Statements(Append(turns, m)) # {}
  PROVE  Statements(turns) # {} \/ (m.role = "assistant" /\ m.tool = Statement)
<1>1. PICK i \in DOMAIN Append(turns, m) :
        Append(turns, m)[i].role = "assistant" /\ Append(turns, m)[i].tool = Statement
  BY DEF Statements
<1>. DEFINE S == Messages \cup {m}
<1>0. turns \in Seq(S) /\ m \in S
  OBVIOUS
<1>. HIDE DEF S
<1>2. CASE i = Len(turns) + 1
  BY <1>0, <1>1, <1>2
<1>3. CASE i # Len(turns) + 1
  <2>1. i \in DOMAIN turns /\ Append(turns, m)[i] = turns[i]
    BY <1>0, <1>3
  <2>2. i \in Statements(turns)
    BY <1>1, <2>1 DEF Statements
  <2>. QED  BY <2>2
<1>. QED  BY <1>2, <1>3

\* What a computation returns is a value to keep.
LEMMA ComputedIsSome ==
  ASSUME SessionsTypeOK, RunInv, NEW s \in Sessions, page[s].at \in Computing,
         worker[s].at = "done", ~worker[s].raised
  PROVE  \E n \in 0..books : worker[s].figures = {n} /\ {n} # None
<1>1. CacheJob(worker[s], books)
  BY DEF RunInv, RunOK
<1>2. PICK n \in 0..books : worker[s].figures = {n}
  BY <1>1 DEF CacheJob, Resting, Underway
<1>3. n \in 0..MaxBooks
  BY GatewayAssumption DEF SessionsTypeOK, RunInv
<1>. QED  BY <1>2, <1>3, SessionsAssumption

\* The cached export is never cleared.
LEMMA ExportStays ==
  ASSUME SessionsTypeOK, RunInv, NEW s \in Sessions, Interacts(s) \/ Begin(s) \/ Script(s),
         cache["export"] # None
  PROVE  cache'["export"] # None
<1>1. CASE Interacts(s) \/ Begin(s) \/ Sidebar(s) \/ Fetch(s) \/ Submit(s) \/ Answered(s) \/ Render(s) \/ Join(s)
  <2>1. cache' = cache
    BY <1>1, InteractsDoes, BeginDoes, SidebarDoes, FetchDoes, SubmitDoes, AnsweredDoes, RenderDoes, JoinDoes
  <2>. QED  BY <2>1
<1>2. CASE View(s)
  <2>1. cache' \in {cache, Cleared}
    BY <1>2, ViewDoes
  <2>. QED  BY <2>1 DEF Cleared, SessionsTypeOK
<1>3. CASE Cached(s)
  <2>1. \/ cache' = cache
        \/ ~worker[s].raised /\ cache' = [cache EXCEPT ![page[s].at] = worker[s].figures]
    BY <1>3, CachedDoes
  <2>2. page[s].at \in Computing /\ worker[s].at = "done"
    BY <1>3, CachedDoes
  <2>3. ~worker[s].raised => worker[s].figures # None
    BY <2>2, ComputedIsSome
  <2>. QED  BY <2>1, <2>2, <2>3 DEF SessionsTypeOK, Computing
<1>. QED  BY <1>1, <1>2, <1>3 DEF Script

\* A step of the page that leaves the conversation, or takes it away.
LEMMA ExportScript ==
  ASSUME SessionsTypeOK, RunInv, ExportInv, NEW s \in Sessions, Interacts(s) \/ Begin(s) \/ Script(s)
  PROVE  Statements(talk'[s]) # {} \/ (page'[s].at = "rendered" /\ page'[s].reply.tool = Statement)
           => cache'["export"] # None
<1>. DEFINE p == page[s]
            q == page'[s]
<1>1. talk[s] \in Seq(Messages) /\ page[s] \in Pages /\ s \in Workers
  BY SessionsAssumption DEF SessionsTypeOK
<1>2. Statements(talk[s]) # {} => cache'["export"] # None
  BY ExportStays DEF ExportInv, ExportOK
<1>3. (p.at = "rendered" /\ p.reply.tool = Statement) => cache'["export"] # None
  BY ExportStays DEF ExportInv, ExportOK
<1>4. CASE Interacts(s)
  BY <1>2, <1>3, <1>4, InteractsDoes
<1>5. CASE Begin(s) \/ Sidebar(s) \/ View(s) \/ Render(s)
  <2>1. talk'[s] \in {talk[s], <<>>} /\ q.at # "rendered"
    BY <1>5, BeginDoes, SidebarDoes, ViewDoes, RenderDoes
  <2>2. Statements(<<>>) = {}
    BY DEF Statements
  <2>. QED  BY <1>2, <2>1, <2>2
<1>6. CASE Fetch(s)
  <2>1. talk'[s] = talk[s] /\ cache' = cache
    BY <1>6, FetchDoes
  <2>2. CASE cache[p.at] # None /\ FetchedFrom(s, cache[p.at])
    BY <1>2, <2>1, <2>2 DEF FetchedFrom
  <2>3. CASE page' = page
    BY <1>2, <1>3, <2>1, <2>3
  <2>. QED  BY <1>6, <2>2, <2>3, FetchDoes
<1>7. CASE Cached(s)
  <2>1. talk'[s] = talk[s] /\ p.at \in Computing /\ worker[s].at = "done"
    BY <1>7, CachedDoes
  <2>2. CASE RunOver(p, q)
    BY <1>2, <2>1, <2>2 DEF RunOver
  <2>3. CASE /\ ~worker[s].raised /\ FetchedFrom(s, worker[s].figures)
             /\ cache' = [cache EXCEPT ![p.at] = worker[s].figures]
    <3>1. q.at = "rendered" => p.at = "export"
      BY <2>3 DEF FetchedFrom
    <3>2. worker[s].figures # None
      BY <2>1, <2>3, ComputedIsSome
    <3>3. q.at = "rendered" => cache'["export"] # None
      BY <2>3, <3>1, <3>2 DEF SessionsTypeOK
    <3>. QED  BY <1>2, <2>1, <3>3
  <2>. QED  BY <1>7, <2>2, <2>3, CachedDoes
<1>8. CASE Submit(s)
  <2>. DEFINE input == Input(p)
  <2>1. CASE RunOver(p, q) /\ talk' = talk
    BY <1>2, <2>1 DEF RunOver
  <2>2. CASE /\ input \in Entries /\ q.at = "asking"
             /\ talk'[s] = Append(talk[s], User(input.id, input.question))
    <3>1. User(input.id, input.question).role = "user"
      BY DEF User
    <3>2. Statements(talk'[s]) # {} => Statements(talk[s]) # {}
      BY <1>1, <2>2, <3>1, StatementsAppend
    <3>. QED  BY <1>2, <2>2, <3>2
  <2>. QED  BY <1>8, <2>1, <2>2, SubmitDoes
<1>9. CASE Answered(s)
  <2>1. /\ talk'[s] = talk[s] /\ q.reply = worker[s]
        /\ q.at = IF worker[s].tool = Statement THEN "answered" ELSE "rendered"
    BY <1>9, AnsweredDoes
  <2>. QED  BY <1>2, <2>1
<1>10. CASE Join(s)
  <2>. DEFINE answer == Assistant(p.query.id, p.reply, p.query.since)
  <2>1. p.at = "rendered" /\ q.at # "rendered" /\ talk'[s] = Append(talk[s], answer)
    BY <1>10, JoinDoes DEF RunOver
  <2>2. answer.role = "assistant" /\ answer.tool = p.reply.tool
    BY DEF Assistant
  <2>. QED  BY <1>1, <1>2, <1>3, <2>1, <2>2, StatementsAppend
<1>. QED  BY <1>4, <1>5, <1>6, <1>7, <1>8, <1>9, <1>10 DEF Script

LEMMA ExportNext ==
  ASSUME SessionsTypeOK, RunInv, ExportInv, [SessionsNext]_sessionsVars
  PROVE  ExportInv'
<1>1. ASSUME UNCHANGED <<cache, page>>, \A s \in Sessions : talk'[s] = talk[s]
      PROVE  ExportInv'
  BY <1>1 DEF ExportInv, ExportOK
<1>2. ASSUME \/ \E t \in Threads : \/ \E q \in Questions, token \in {"valid", "expired"} : Post(t, q, token)
                                   \/ Limit(t) \/ Route(t) \/ Respond(t)
             \/ ClockTicks \/ UNCHANGED sessionsVars
      PROVE  ExportInv'
  BY <1>1, <1>2, ServiceKeeps
<1>3. CASE World
  BY <1>1, <1>3 DEF World, BooksChange, pageVars
<1>4. ASSUME NEW s \in Sessions, Interacts(s) \/ Begin(s) \/ Script(s)
      PROVE  ExportInv'
  <2>1. ASSUME NEW r \in Sessions \ {s}
        PROVE  Statements(talk'[r]) # {} \/ (page'[r].at = "rendered" /\ page'[r].reply.tool = Statement)
                 => cache'["export"] # None
    BY <1>4, OthersKeep, ExportStays DEF ExportInv, ExportOK
  <2>2. ASSUME NEW r \in Sessions
        PROVE  Statements(talk'[r]) # {} \/ (page'[r].at = "rendered" /\ page'[r].reply.tool = Statement)
                 => cache'["export"] # None
    BY <1>4, <2>1, ExportScript
  <2>. QED  BY <2>2 DEF ExportInv, ExportOK
<1>5. ASSUME NEW w \in Workers, Agent(w)
      PROVE  ExportInv'
  BY <1>1, <1>5, AgentKeeps DEF pageVars
<1>. QED  BY <1>2, <1>3, <1>4, <1>5 DEF SessionsNext, Interacts, Views


-----------------------------------------------------------------------------
(***************************************************************************)
(* After Refresh.                                                          *)
(***************************************************************************)

LEMMA LoadingIs ==
  ASSUME NEW r \in Sessions
  PROVE  Loading(r) <=> page[r].at \in {"data", "lists"}
BY DEF Loading

\* What the caches and the computations hold stays as new as it was.
LEMMA SinceSession ==
  ASSUME SessionsTypeOK, RunInv, NEW n \in Nat, Since(n), NEW s \in Sessions,
         Interacts(s) \/ Begin(s) \/ Script(s)
  PROVE  Since(n)'
<1>1. /\ books' = books
      /\ \A r \in Sessions \ {s} : page'[r] = page[r] /\ worker'[r] = worker[r]
  BY OthersKeep
<1>2. page[s].at \notin Computing \cup {"asking"} => worker[s] = Resting
  BY DEF RunInv, RunOK
<1>3. Resting.at # "done" /\ Computation.at # "done"
  BY DEF Resting, Computation, Running
<1>4. ASSUME page'[s].at \in {"data", "lists"}
      PROVE  /\ worker'[s].at # "done" \/ (page'[s].at = page[s].at /\ worker'[s] = worker[s])
             /\ Interacts(s) \/ View(s) \/ Fetch(s) \/ Cached(s)
  <2>1. CASE Interacts(s)
    BY <2>1, InteractsDoes
  <2>2. CASE Begin(s) \/ Sidebar(s) \/ Submit(s) \/ Answered(s) \/ Render(s) \/ Join(s)
    BY <1>4, <2>2, BeginDoes, SidebarDoes, SubmitDoes, AnsweredDoes, RenderDoes, JoinDoes DEF RunOver
  <2>3. CASE View(s)
    BY <1>2, <1>3, <2>3, ViewDoes DEF Computing
  <2>4. CASE Fetch(s)
    BY <1>3, <2>4, FetchDoes
  <2>5. CASE Cached(s)
    BY <1>3, <2>5, CachedDoes
  <2>. QED  BY <2>1, <2>2, <2>3, <2>4, <2>5 DEF Script
<1>5. ASSUME NEW r \in Sessions, page'[r].at \in {"data", "lists"}, worker'[r].at = "done"
      PROVE  \A v \in worker'[r].figures : v >= n
  <2>1. page[r].at \in {"data", "lists"} /\ worker'[r] = worker[r]
    BY <1>1, <1>4, <1>5
  <2>. QED  BY <1>5, <2>1, LoadingIs DEF Since
<1>6. ASSUME NEW name \in {"data", "lists"}, cache'[name] # None
      PROVE  \A v \in cache'[name] : v >= n
  <2>1. CASE Interacts(s) \/ Begin(s) \/ Sidebar(s) \/ Fetch(s) \/ Submit(s) \/ Answered(s) \/ Render(s) \/ Join(s)
    <3>1. cache' = cache
      BY <2>1, InteractsDoes, BeginDoes, SidebarDoes, FetchDoes, SubmitDoes, AnsweredDoes, RenderDoes,
         JoinDoes
    <3>. QED  BY <1>6, <3>1 DEF Since
  <2>2. CASE View(s)
    <3>1. cache' \in {cache, Cleared}
      BY <2>2, ViewDoes
    <3>2. Cleared[name] = None
      BY DEF Cleared, SessionsTypeOK
    <3>. QED  BY <1>6, <3>1, <3>2 DEF Since
  <2>3. CASE Cached(s)
    <3>1. page[s].at \in Computing /\ worker[s].at = "done"
      BY <2>3, CachedDoes
    <3>2. CASE cache' = cache
      BY <1>6, <3>2 DEF Since
    <3>3. CASE cache' = [cache EXCEPT ![page[s].at] = worker[s].figures]
      <4>1. CASE page[s].at = name
        <5>1. cache'[name] = worker[s].figures
          BY <3>3, <4>1 DEF SessionsTypeOK
        <5>. QED  BY <3>1, <4>1, <5>1, LoadingIs DEF Since
      <4>2. CASE page[s].at # name
        <5>1. cache'[name] = cache[name]
          BY <3>3, <4>2 DEF SessionsTypeOK
        <5>. QED  BY <1>6, <5>1 DEF Since
      <4>. QED  BY <4>1, <4>2
    <3>. QED  BY <2>3, <3>2, <3>3, CachedDoes
  <2>. QED  BY <2>1, <2>2, <2>3 DEF Script
<1>. QED  BY <1>1, <1>5, <1>6 DEF Since, Loading

\* The agent finishes a computation with what it reads at that moment.
LEMMA SinceAgent ==
  ASSUME SessionsTypeOK, RunInv, NEW n \in Nat, Since(n), NEW w \in Workers, Agent(w)
  PROVE  Since(n)'
<1>1. /\ UNCHANGED <<books, cache, page>> /\ worker[w] # Resting /\ Answering(w)
      /\ \A v \in Workers \ {w} : worker'[v] = worker[v]
  BY AgentKeeps DEF pageVars
<1>2. ASSUME NEW r \in Sessions, page'[r].at \in {"data", "lists"}, worker'[r].at = "done"
      PROVE  \A v \in worker'[r].figures : v >= n
  <2>1. page[r].at \in {"data", "lists"} /\ r \in Workers
    BY <1>1, <1>2, SessionsAssumption
  <2>2. CASE r # w
    BY <1>1, <1>2, <2>1, <2>2, LoadingIs DEF Since
  <2>3. CASE r = w
    <3>1. CacheJob(worker[w], books)
      BY <2>1, <2>3 DEF RunInv, RunOK, Computing
    <3>2. worker[w] \in Jobs /\ worker[w].at # "done"
      BY <1>1 DEF Answering, ModelTalks, ModelCalls, ModelFails, StartRead, Login, LoginFails, Called,
         CallFails, SessionsTypeOK
    <3>3. worker[w].at \in Underway /\ worker[w].by = "page" /\ worker[w].left = 1 /\ worker[w].figures = {}
      BY <1>1, <3>1, <3>2 DEF CacheJob
    <3>4. Got(w) = Done(worker[w].tool, {books}, FALSE) /\ Raised(worker[w]) = Done(None, {}, TRUE)
      <4>1. worker[w] \in ReadingJobs
        BY <3>2, <3>3, JobByPlace DEF Underway
      <4>2. worker[w].tool # None
        BY <3>3, <4>1, SessionsAssumption DEF ReadingJobs, Reading, Naming
      <4>. QED  BY <3>3, <4>2 DEF Got, Raised
    <3>5. \A v \in Got(w).figures : v >= n
      BY <3>4 DEF Done, Since, SessionsTypeOK
    <3>6. Raised(worker[w]).figures = {}
      BY <3>4 DEF Done
    <3>7. worker[w] \in ReadingJobs
      BY <3>2, <3>3, JobByPlace DEF Underway
    <3>8. \A place \in {"connecting", "calling"} : [worker[w] EXCEPT !.at = place].at = place
      BY <3>7 DEF ReadingJobs, Reading, Naming
    <3>9. PICK job \in {Got(w), Raised(worker[w]), [worker[w] EXCEPT !.at = "calling"],
                        [worker[w] EXCEPT !.at = "connecting"]} : Sets(w, job)
      BY <1>1, <3>3 DEF Answering, ModelTalks, ModelCalls, ModelFails, StartRead, Login, LoginFails,
         Called, CallFails, Underway, Connecting
    <3>10. worker'[w] = job
      BY <3>9 DEF Sets, SessionsTypeOK
    <3>. QED  BY <1>2, <2>3, <3>5, <3>6, <3>8, <3>9, <3>10
  <2>. QED  BY <2>2, <2>3
<1>. QED  BY <1>1, <1>2 DEF Since, Loading

\* Refresh clears the caches while no other session computes for them.
LEMMA RefreshStarts ==
  ASSUME SessionsTypeOK, RunInv, NEW s \in Sessions, View(s), cache' = Cleared,
         ~\E r \in Sessions : Loading(r), NEW n \in Nat, n = books
  PROVE  Since(n)'
<1>1. books' = books /\ \A r \in Sessions \ {s} : page'[r] = page[r] /\ worker'[r] = worker[r]
  BY OthersKeep DEF Script
<1>2. worker'[s] = Resting
  BY ViewDoes DEF RunInv, RunOK, Computing
<1>3. ASSUME NEW r \in Sessions, page'[r].at \in {"data", "lists"}, worker'[r].at = "done"
      PROVE  FALSE
  BY <1>1, <1>2, <1>3, LoadingIs DEF Resting
<1>4. \A name \in {"data", "lists"} : cache'[name] = None
  BY DEF Cleared, SessionsTypeOK
<1>. QED  BY <1>1, <1>3, <1>4 DEF Since, Loading, SessionsTypeOK

LEMMA RefreshScript ==
  ASSUME SessionsTypeOK, RunInv, RefreshInv, NEW s \in Sessions, Interacts(s) \/ Begin(s) \/ Script(s),
         Refreshed(page'[s])
  PROVE  \E n \in Nat : n = page'[s].refreshed.at /\ Since(n)' /\ \A v \in page'[s].shown : v >= n
<1>. DEFINE p == page[s]
            q == page'[s]
<1>1. p \in Pages
  BY DEF SessionsTypeOK
<1>2. p.refreshed # None => p.refreshed.at \in Nat
  BY <1>1 DEF Pages
<1>3. ASSUME q.refreshed = p.refreshed, \A v \in q.shown : v \in p.shown \/ v >= p.refreshed.at
      PROVE  \E n \in Nat : n = q.refreshed.at /\ Since(n)' /\ \A v \in q.shown : v >= n
  <2>1. Refreshed(p)
    BY <1>3 DEF Refreshed
  <2>2. Since(p.refreshed.at) /\ (\A v \in p.shown : v >= p.refreshed.at) /\ p.refreshed.at \in Nat
    BY <1>2, <2>1 DEF RefreshInv, Refreshed
  <2>3. PICK n \in Nat : n = p.refreshed.at
    BY <2>2
  <2>4. Since(n)'
    BY <2>2, <2>3, SinceSession
  <2>5. q.refreshed.at = n
    BY <1>3, <2>3
  <2>. QED  BY <1>3, <2>2, <2>4, <2>5
<1>4. q.refreshed # None
  BY DEF Refreshed
<1>5. CASE Interacts(s)
  BY <1>3, <1>5, InteractsDoes
<1>6. CASE Begin(s)
  BY <1>4, <1>6, BeginDoes
<1>7. CASE Sidebar(s)
  <2>1. q.refreshed = p.refreshed /\ q.shown \in {p.shown, {}}
    BY <1>4, <1>7, SidebarDoes
  <2>. QED  BY <1>3, <2>1
<1>8. CASE View(s)
  <2>1. /\ q.refreshed = [at |-> books, alone |-> ~\E r \in Sessions : Loading(r)]
        /\ cache' = Cleared /\ q.shown = p.shown /\ p.at = "view"
    BY <1>4, <1>8, ViewDoes
  <2>2. q.shown = {} /\ q.refreshed.at = books
    BY <2>1 DEF RunInv, RunOK
  <2>3. ~\E r \in Sessions : Loading(r)
    <3>. DEFINE alone == ~\E r \in Sessions : Loading(r)
    <3>1. q.refreshed = [at |-> books, alone |-> alone] /\ q.refreshed.alone /\ alone \in BOOLEAN
      BY <2>1 DEF Refreshed
    <3>. HIDE DEF alone
    <3>2. alone
      BY <3>1
    <3>. QED  BY <3>2 DEF alone
  <2>4. PICK n \in Nat : n = books
    BY DEF SessionsTypeOK
  <2>5. Since(n)'
    BY <1>8, <2>1, <2>3, <2>4, RefreshStarts
  <2>. QED  BY <2>2, <2>4, <2>5
<1>9. CASE Fetch(s)
  <2>1. CASE page' = page
    BY <1>3, <2>1
  <2>2. CASE cache[p.at] # None /\ FetchedFrom(s, cache[p.at]) /\ p.at \in Computing
    <3>1. q.refreshed = p.refreshed
      BY <2>2 DEF FetchedFrom
    <3>2. Refreshed(p)
      BY <3>1 DEF Refreshed
    <3>3. p.at # "export" => \A v \in cache[p.at] : v >= p.refreshed.at
      BY <2>2, <3>2 DEF RefreshInv, Since, Computing
    <3>. QED  BY <1>3, <2>2, <3>1, <3>3 DEF FetchedFrom
  <2>. QED  BY <1>9, <2>1, <2>2, FetchDoes
<1>10. CASE Cached(s)
  <2>1. FetchedFrom(s, worker[s].figures) /\ p.at \in Computing /\ worker[s].at = "done"
    BY <1>4, <1>10, CachedDoes DEF RunOver
  <2>2. q.refreshed = p.refreshed
    BY <2>1 DEF FetchedFrom
  <2>3. Refreshed(p)
    BY <2>2 DEF Refreshed
  <2>4. p.at # "export" => \A v \in worker[s].figures : v >= p.refreshed.at
    BY <2>1, <2>3, LoadingIs DEF RefreshInv, Since, Computing
  <2>. QED  BY <1>3, <2>1, <2>2, <2>4 DEF FetchedFrom
<1>11. CASE Submit(s) \/ Answered(s) \/ Render(s)
  <2>1. q.refreshed = p.refreshed /\ q.shown = p.shown
    BY <1>4, <1>11, SubmitDoes, AnsweredDoes, RenderDoes DEF RunOver
  <2>. QED  BY <1>3, <2>1
<1>12. CASE Join(s)
  BY <1>4, <1>12, JoinDoes DEF RunOver
<1>. QED  BY <1>5, <1>6, <1>7, <1>8, <1>9, <1>10, <1>11, <1>12 DEF Script

LEMMA RefreshNew ==
  ASSUME \A r \in Sessions : Refreshed(page'[r]) =>
            \E n \in Nat : n = page'[r].refreshed.at /\ Since(n)' /\ \A v \in page'[r].shown : v >= n
  PROVE  RefreshInv'
BY DEF RefreshInv, Since, Loading, Refreshed

LEMMA RefreshNext ==
  ASSUME SessionsTypeOK, RunInv, RefreshInv, [SessionsNext]_sessionsVars
  PROVE  RefreshInv'
<1>1. ASSUME page' = page, \A n \in Nat : Since(n) => Since(n)'
      PROVE  RefreshInv'
  <2>1. ASSUME NEW s \in Sessions, Refreshed(page[s])
        PROVE  \E n \in Nat : n = page'[s].refreshed.at /\ Since(n)' /\ \A v \in page'[s].shown : v >= n
    <3>1. page[s] \in Pages
      BY DEF SessionsTypeOK
    <3>2. PICK n \in Nat : n = page[s].refreshed.at
      BY <2>1, <3>1 DEF Refreshed, Pages
    <3>3. Since(n) /\ \A v \in page[s].shown : v >= page[s].refreshed.at
      BY <2>1, <3>2 DEF RefreshInv
    <3>4. Since(n)'
      BY <1>1, <3>3
    <3>. QED  BY <1>1, <3>2, <3>3, <3>4
  <2>. QED  BY <1>1, <2>1, RefreshNew
<1>2. ASSUME \/ \E t \in Threads : \/ \E q \in Questions, token \in {"valid", "expired"} : Post(t, q, token)
                                   \/ Limit(t) \/ Route(t) \/ Respond(t)
             \/ ClockTicks \/ UNCHANGED sessionsVars
      PROVE  RefreshInv'
  <2>1. /\ books' = books /\ cache' = cache /\ page' = page
        /\ \A s \in Sessions : worker'[s] = worker[s]
    BY <1>2, ServiceKeeps
  <2>2. ASSUME NEW n \in Nat, Since(n)
        PROVE  Since(n)'
    BY <2>1, <2>2 DEF Since, Loading
  <2>. QED  BY <1>1, <2>1, <2>2
<1>3. CASE World
  <2>1. books' = books + 1 /\ books \in Nat /\ UNCHANGED <<page, worker, cache>>
    BY <1>3 DEF World, BooksChange, pageVars, SessionsTypeOK
  <2>2. ASSUME NEW n \in Nat, Since(n)
        PROVE  Since(n)'
    <3>1. n <= books'
      BY <2>1, <2>2 DEF Since
    <3>. QED  BY <2>1, <2>2, <3>1 DEF Since, Loading
  <2>. QED  BY <1>1, <2>1, <2>2
<1>4. ASSUME NEW s \in Sessions, Interacts(s) \/ Begin(s) \/ Script(s)
      PROVE  RefreshInv'
  <2>1. ASSUME NEW r \in Sessions \ {s}, Refreshed(page'[r])
        PROVE  \E n \in Nat : n = page'[r].refreshed.at /\ Since(n)' /\ \A v \in page'[r].shown : v >= n
    <3>1. page'[r] = page[r] /\ page[r] \in Pages
      BY <1>4, OthersKeep DEF SessionsTypeOK
    <3>2. PICK n \in Nat : n = page[r].refreshed.at
      BY <2>1, <3>1 DEF Refreshed, Pages
    <3>3. Since(n) /\ \A v \in page[r].shown : v >= page[r].refreshed.at
      BY <2>1, <3>1, <3>2 DEF RefreshInv
    <3>4. Since(n)'
      BY <1>4, <3>3, SinceSession
    <3>5. page'[r].refreshed.at = n
      BY <3>1, <3>2
    <3>. QED  BY <3>1, <3>3, <3>4, <3>5
  <2>2. ASSUME NEW r \in Sessions, Refreshed(page'[r])
        PROVE  \E n \in Nat : n = page'[r].refreshed.at /\ Since(n)' /\ \A v \in page'[r].shown : v >= n
    BY <1>4, <2>1, <2>2, RefreshScript
  <2>. QED  BY <2>2, RefreshNew
<1>5. ASSUME NEW w \in Workers, Agent(w)
      PROVE  RefreshInv'
  <2>1. page' = page
    BY <1>5, AgentKeeps DEF pageVars
  <2>. QED  BY <1>1, <1>5, <2>1, SinceAgent
<1>. QED  BY <1>2, <1>3, <1>4, <1>5 DEF SessionsNext, Interacts, Views


-----------------------------------------------------------------------------
(***************************************************************************)
(* The figures of a conversation, and of a job.                            *)
(***************************************************************************)

LEMMA AppendTurns ==
  ASSUME NEW turns \in Seq(Messages), NEW m
  PROVE  /\ Len(Append(turns, m)) = Len(turns) + 1 /\ Len(turns) \in Nat
         /\ DOMAIN turns = 1..Len(turns) /\ DOMAIN Append(turns, m) = 1..(Len(turns) + 1)
         /\ Append(turns, m)[Len(turns) + 1] = m
         /\ \A i \in 1..Len(turns) : Append(turns, m)[i] = turns[i]
<1>. DEFINE S == Messages \cup {m}
<1>1. turns \in Seq(S) /\ m \in S
  OBVIOUS
<1>. HIDE DEF S
<1>. QED  BY <1>1

\* A later turn takes nothing away from what was quoted.
LEMMA QuotedAppend ==
  ASSUME NEW turns \in Seq(Messages), NEW m, NEW short, NEW v,
         NEW n \in Nat, NEW k \in Nat, n <= Len(turns), n <= k, Quoted(turns, n, short, v)
  PROVE  Quoted(Append(turns, m), k, short, v)
<1>1. PICK j \in 1..n : turns[j].role = "assistant" /\ turns[j].tool \in short /\ v \in turns[j].figures
  BY DEF Quoted
<1>2. j \in 1..k /\ Append(turns, m)[j] = turns[j]
  BY AppendTurns
<1>. QED  BY <1>1, <1>2 DEF Quoted

\* The figures of a reply, or of a turn.
FigureOK(tool, since, turns, n, short, v) ==
    IF tool \in Tools THEN v >= since ELSE Quoted(turns, n, short, v)

LEMMA FigureAppend ==
  ASSUME NEW turns \in Seq(Messages), NEW m, NEW short, NEW v, NEW tool, NEW since,
         NEW n \in Nat, NEW k \in Nat, n <= Len(turns), n <= k,
         FigureOK(tool, since, turns, n, short, v)
  PROVE  FigureOK(tool, since, Append(turns, m), k, short, v)
BY QuotedAppend DEF FigureOK

LEMMA FreshByFigures ==
  ASSUME NEW turns, NEW short
  PROVE  /\ TurnsFresh(turns, short) <=>
              \A i \in DOMAIN turns : turns[i].role = "assistant" => \A v \in turns[i].figures :
                 FigureOK(turns[i].tool, turns[i].since, turns, i - 1, short, v)
         /\ \A job, since : JobFresh(job, since, turns, short) /\ job.at = "done" =>
              \A v \in job.figures : FigureOK(job.tool, since, turns, Len(turns), short, v)
BY DEF TurnsFresh, JobFresh, FigureOK

LEMMA TurnsAppend ==
  ASSUME NEW turns \in Seq(Messages), NEW m, NEW short, TurnsFresh(turns, short),
         m.role = "assistant" => \A v \in m.figures : FigureOK(m.tool, m.since, turns, Len(turns), short, v)
  PROVE  TurnsFresh(Append(turns, m), short)
<1>. DEFINE more == Append(turns, m)
<1>1. /\ Len(turns) \in Nat /\ DOMAIN turns = 1..Len(turns) /\ DOMAIN more = 1..(Len(turns) + 1)
      /\ more[Len(turns) + 1] = m /\ \A i \in 1..Len(turns) : more[i] = turns[i]
  BY AppendTurns
<1>2. ASSUME NEW i \in DOMAIN more, more[i].role = "assistant", NEW v \in more[i].figures
      PROVE  FigureOK(more[i].tool, more[i].since, more, i - 1, short, v)
  <2>1. CASE i = Len(turns) + 1
    <3>1. more[i] = m /\ i - 1 = Len(turns)
      BY <1>1, <2>1
    <3>2. FigureOK(m.tool, m.since, turns, Len(turns), short, v)
      BY <1>2, <3>1
    <3>3. FigureOK(m.tool, m.since, more, Len(turns), short, v)
      BY <1>1, <3>2, FigureAppend
    <3>. QED  BY <3>1, <3>3
  <2>2. CASE i # Len(turns) + 1
    <3>1. i \in 1..Len(turns) /\ more[i] = turns[i]
      BY <1>1, <2>2
    <3>2. FigureOK(turns[i].tool, turns[i].since, turns, i - 1, short, v)
      BY <1>1, <1>2, <3>1, FreshByFigures
    <3>3. PICK n \in Nat : n = i - 1 /\ n <= Len(turns)
      BY <1>1, <3>1
    <3>4. FigureOK(turns[i].tool, turns[i].since, more, n, short, v)
      BY <3>2, <3>3, FigureAppend
    <3>. QED  BY <3>1, <3>3, <3>4
  <2>. QED  BY <2>1, <2>2
<1>. HIDE DEF more
<1>3. TurnsFresh(more, short)
  BY <1>2, FreshByFigures
<1>. QED  BY <1>3 DEF more

LEMMA TurnsUser ==
  ASSUME NEW turns \in Seq(Messages), NEW n, NEW question, NEW short, TurnsFresh(turns, short)
  PROVE  TurnsFresh(Append(turns, User(n, question)), short)
<1>1. User(n, question).role = "user"
  BY DEF User
<1>. QED  BY <1>1, TurnsAppend

LEMMA TurnsAnswer ==
  ASSUME NEW turns \in Seq(Messages), NEW n, NEW reply, NEW since, NEW short, TurnsFresh(turns, short),
         reply.at = "done", JobFresh(reply, since, turns, short)
  PROVE  TurnsFresh(Append(turns, Assistant(n, reply, since)), short)
<1>. DEFINE m == Assistant(n, reply, since)
<1>1. m.figures = reply.figures /\ m.tool = reply.tool /\ m.since = since
  BY DEF Assistant
<1>2. \A v \in reply.figures : FigureOK(reply.tool, since, turns, Len(turns), short, v)
  BY FreshByFigures
<1>. HIDE DEF m
<1>3. TurnsFresh(Append(turns, m), short)
  BY <1>1, <1>2, TurnsAppend
<1>. QED  BY <1>3 DEF m

LEMMA JobAppend ==
  ASSUME NEW turns \in Seq(Messages), NEW m, NEW short, NEW job, NEW since,
         JobFresh(job, since, turns, short)
  PROVE  JobFresh(job, since, Append(turns, m), short)
<1>1. Len(turns) \in Nat /\ Len(Append(turns, m)) = Len(turns) + 1 /\ Len(turns) <= Len(turns) + 1
  BY AppendTurns
<1>2. ASSUME NEW v, Quoted(turns, Len(turns), short, v)
      PROVE  Quoted(Append(turns, m), Len(Append(turns, m)), short, v)
  BY <1>1, <1>2, QuotedAppend
<1>. QED  BY <1>2 DEF JobFresh

\* The model is sent no figure but those of a short tool's answer.
LEMMA CarriedQuoted ==
  ASSUME NEW turns \in Seq(Messages), NEW short, TurnsFresh(turns, short),
         NEW kinds \in SUBSET (short \cup {None, "assistant", "unknown"}), NEW v \in Carried(turns, kinds)
  PROVE  Quoted(turns, Len(turns), short, v)
<1>1. Len(turns) \in Nat /\ DOMAIN turns = 1..Len(turns)
  OBVIOUS
<1>2. PICK i \in 1..Len(turns) : /\ turns[i].role = "assistant" /\ turns[i].tool \in kinds
                                 /\ v \in turns[i].figures
  BY <1>1 DEF Carried
<1>3. CASE turns[i].tool \in short
  BY <1>2, <1>3 DEF Quoted
<1>4. CASE turns[i].tool \in {None, "assistant", "unknown"}
  <2>1. turns[i].tool \notin Tools
    BY <1>4, GatewayAssumption, SessionsAssumption
  <2>2. Quoted(turns, i - 1, short, v)
    BY <1>1, <1>2, <2>1 DEF TurnsFresh
  <2>3. PICK j \in 1..(i - 1) : turns[j].role = "assistant" /\ turns[j].tool \in short /\ v \in turns[j].figures
    BY <2>2 DEF Quoted
  <2>4. j \in 1..Len(turns)
    BY <1>1
  <2>. QED  BY <2>3, <2>4 DEF Quoted
<1>. QED  BY <1>2, <1>3, <1>4

\* Jobs without figures.
LEMMA EmptyFresh ==
  ASSUME NEW job, job.figures = {}, job.at # "model", NEW since, NEW turns, NEW short
  PROVE  JobFresh(job, since, turns, short)
BY DEF JobFresh

LEMMA RulesEmpty ==
  ASSUME NEW question
  PROVE  /\ ByRules(question).figures = {} /\ ByRules(question).at # "model"
         /\ Chosen(question).figures = {} /\ Chosen(question).at # "model"
BY DEF ByRules, Chosen, Running, Done

LEMMA RaisedEmpty ==
  ASSUME NEW job
  PROVE  Raised(job).figures = {} /\ Raised(job).at # "model"
BY RulesEmpty DEF Raised, Done

LEMMA RouteFresh ==
  ASSUME worker \in [Workers -> Jobs], NEW w \in Workers, NEW question, NEW seen, NEW since, NEW turns,
         NEW short, RouteQuery(w, question, seen), \A v \in seen : Quoted(turns, Len(turns), short, v)
  PROVE  JobFresh(worker'[w], since, turns, short)
<1>1. CASE env.key
  <2>1. worker'[w] = [at |-> "model", question |-> question, seen |-> seen]
    BY <1>1 DEF RouteQuery, Sets
  <2>. QED  BY <2>1 DEF JobFresh, Underway
<1>2. CASE ~env.key
  <2>1. worker'[w] = ByRules(question)
    BY <1>2 DEF RouteQuery, Sets
  <2>. QED  BY <2>1, RulesEmpty, EmptyFresh
<1>. QED  BY <1>1, <1>2

\* A step of the agent keeps a job fresh: what it reads is of this moment.
LEMMA JobFreshStep ==
  ASSUME GatewayTypes, NEW w \in Workers, Answering(w), NEW since \in Nat, since <= books,
         NEW turns, NEW short, JobFresh(worker[w], since, turns, short)
  PROVE  JobFresh(worker'[w], since, turns, short)
<1>. USE DEF GatewayTypes
<1>. DEFINE job == worker[w]
<1>1. job \in Jobs
  OBVIOUS
<1>2. ASSUME NEW new, Sets(w, new)
      PROVE  worker'[w] = new
  BY <1>2 DEF Sets
<1>3. CASE ModelTalks(w)
  <2>1. PICK figures \in {{}, job.seen} : Sets(w, Done("assistant", figures, FALSE))
    BY <1>3 DEF ModelTalks
  <2>2. worker'[w] = Done("assistant", figures, FALSE)
    BY <1>2, <2>1
  <2>3. \A v \in figures : Quoted(turns, Len(turns), short, v)
    BY <1>3, <2>1 DEF JobFresh, ModelTalks
  <2>4. "assistant" \notin Tools
    BY GatewayAssumption
  <2>. QED  BY <2>2, <2>3, <2>4 DEF JobFresh, Done, Underway
<1>4. CASE ModelCalls(w)
  <2>1. PICK tool \in Tools : Sets(w, Running("model", tool, job.question))
    BY <1>4 DEF ModelCalls
  <2>2. worker'[w] = Running("model", tool, job.question)
    BY <1>2, <2>1
  <2>. QED  BY <2>2, EmptyFresh DEF Running
<1>5. CASE ModelFails(w) \/ LoginFails(w) \/ CallFails(w)
  <2>1. PICK from : Sets(w, Raised(from))
    BY <1>5 DEF ModelFails, LoginFails, CallFails
  <2>2. worker'[w] = Raised(from)
    BY <1>2, <2>1
  <2>. QED  BY <2>2, RaisedEmpty, EmptyFresh
<1>6. ASSUME job.at \in Underway
      PROVE  /\ JobFresh(Got(w), since, turns, short) /\ JobFresh(Raised(job), since, turns, short)
             /\ \A place \in {"connecting", "calling"} :
                   JobFresh([job EXCEPT !.at = place], since, turns, short)
  <2>1. job \in ReadingJobs
    BY <1>1, <1>6, JobByPlace DEF Underway
  <2>2. /\ job.tool \in Tools \cup {None} /\ job.left \in Nat \ {0} /\ job.figures \in SUBSET Nat
    BY <2>1, ReadingType
  <2>. DEFINE figures == job.figures \cup {books}
  <2>3. \A v \in figures : v >= since
    <3>1. \A v \in job.figures : v >= since
      BY <1>6 DEF JobFresh
    <3>2. books >= since
      OBVIOUS
    <3>. QED  BY <3>1, <3>2
  <2>4. JobFresh(Got(w), since, turns, short)
    <3>0. CASE job.tool = None
      BY <3>0, RulesEmpty, EmptyFresh DEF Got
    <3>1. CASE job.tool # None /\ job.left = 1
      <4>1. Got(w) = Done(job.tool, figures, FALSE)
        BY <3>1 DEF Got
      <4>. HIDE DEF figures
      <4>. QED  BY <2>2, <2>3, <3>1, <4>1 DEF JobFresh, Done, Underway
    <3>2. CASE job.tool # None /\ job.left # 1
      <4>1. Got(w).at = "reading" /\ Got(w).figures = figures
        BY <2>1, <3>2 DEF Got, ReadingJobs, Reading, Naming
      <4>. HIDE DEF figures
      <4>. QED  BY <2>3, <4>1 DEF JobFresh, Underway
    <3>. QED  BY <3>0, <3>1, <3>2
  <2>5. ASSUME NEW place \in {"connecting", "calling"}
        PROVE  JobFresh([job EXCEPT !.at = place], since, turns, short)
    <3>1. [job EXCEPT !.at = place].at = place /\ [job EXCEPT !.at = place].figures = job.figures
      BY <2>1 DEF ReadingJobs, Reading, Naming
    <3>2. \A v \in job.figures : v >= since
      BY <1>6 DEF JobFresh
    <3>. QED  BY <3>1, <3>2 DEF JobFresh, Underway
  <2>. QED  BY <2>4, <2>5, RaisedEmpty, EmptyFresh
<1>7. CASE StartRead(w) \/ Login(w) \/ Called(w)
  <2>1. job.at \in Underway
    BY <1>7 DEF StartRead, Login, Called, Underway
  <2>2. PICK new \in {Got(w), Raised(job), [job EXCEPT !.at = "calling"], [job EXCEPT !.at = "connecting"]} :
          Sets(w, new)
    BY <1>7 DEF StartRead, Login, Called, Connecting
  <2>. QED  BY <1>2, <1>6, <2>1, <2>2
<1>. QED  BY <1>3, <1>4, <1>5, <1>7 DEF Answering


-----------------------------------------------------------------------------
(***************************************************************************)
(* Freshness of the conversations.                                         *)
(***************************************************************************)

\* A step of a run that neither asks nor answers.
LEMMA FreshMove ==
  ASSUME NEW turns, NEW more, NEW job, NEW job2, NEW want, NEW want2, NEW p, NEW q, NEW now,
         SessionFresh(turns, job, want, p, now),
         TurnsFresh(more, {}), more = turns \/ q.reply = None,
         \A e \in Pending(want2, q) : e # None => e \in Pending(want, p) \/ e.since = now,
         now \in Nat, q.at # "asking",
         q.reply = None \/ (q.reply = p.reply /\ q.query = p.query)
  PROVE  SessionFresh(more, job2, want2, q, now)
<1>1. \A e \in Pending(want2, q) : e # None => e.since <= now
  BY DEF SessionFresh
<1>. QED  BY <1>1 DEF SessionFresh

LEMMA FreshScript ==
  ASSUME SessionsTypeOK, PageInv, FreshInv, NEW s \in Sessions, Interacts(s) \/ Begin(s) \/ Script(s)
  PROVE  SessionFresh(talk'[s], worker'[s], wanted'[s], page'[s], books)
<1>. DEFINE p == page[s]
            q == page'[s]
<1>1. /\ SessionFresh(talk[s], worker[s], wanted[s], p, books) /\ books \in Nat
      /\ talk[s] \in Seq(Messages) /\ p \in Pages /\ s \in Workers /\ worker[s] \in Jobs
  BY SessionsAssumption DEF FreshInv, SessionsTypeOK
<1>2. ReplyOK(p) /\ (Submitted(p) => p.query # None)
  BY DEF PageInv, PageOK
<1>3. TurnsFresh(talk[s], {}) /\ TurnsFresh(<<>>, {})
  BY <1>1 DEF SessionFresh, TurnsFresh
<1>4. Nothing.ask = None /\ Nothing.typed = None
  BY NobodyWaits
<1>5. CASE Interacts(s)
  <2>1. /\ q = p /\ worker'[s] = worker[s] /\ talk'[s] = talk[s]
        /\ \A e \in {wanted'[s].ask, wanted'[s].typed} :
               e # None => e.since = books \/ e \in {wanted[s].ask, wanted[s].typed}
    BY <1>5, InteractsDoes
  <2>2. \A e \in Pending(wanted'[s], q) : e # None => e \in Pending(wanted[s], p) \/ e.since = books
    BY <2>1 DEF Pending
  <2>3. \A e \in Pending(wanted'[s], q) : e # None => e.since <= books
    BY <1>1, <2>2 DEF SessionFresh
  <2>. QED  BY <1>1, <2>1, <2>3 DEF SessionFresh
<1>6. CASE Begin(s)
  <2>1. /\ q.at = "top" /\ q.reply = None /\ q.query = None /\ q.want = wanted[s]
        /\ q.pending \in {p.pending, wanted[s].ask} /\ wanted'[s] = Nothing /\ talk'[s] = talk[s]
    BY <1>6, BeginDoes
  <2>2. \A e \in Pending(wanted'[s], q) : e # None => e \in Pending(wanted[s], p)
    BY <1>4, <2>1 DEF Pending
  <2>. QED  BY <1>1, <1>3, <2>1, <2>2, FreshMove
<1>7. CASE Sidebar(s)
  <2>1. /\ p.at = "top" /\ q.at \in {"top", "view"} /\ q.reply \in {p.reply, None}
        /\ q.query \in {p.pending, None} /\ q.want \in {p.want, Nothing} /\ q.pending = None
        /\ talk'[s] \in {talk[s], <<>>} /\ wanted'[s] = wanted[s]
    BY <1>7, SidebarDoes
  <2>2. q.reply = None
    BY <1>2, <2>1 DEF ReplyOK
  <2>3. \A e \in Pending(wanted'[s], q) : e # None => e \in Pending(wanted[s], p)
    BY <1>4, <2>1 DEF Pending
  <2>. QED  BY <1>1, <1>3, <2>1, <2>2, <2>3, FreshMove
<1>8. ASSUME SameRun(p, q), q.at # "asking", talk'[s] = talk[s], wanted'[s] = wanted[s]
      PROVE  SessionFresh(talk'[s], worker'[s], wanted'[s], q, books)
  <2>1. \A e \in Pending(wanted'[s], q) : e # None => e \in Pending(wanted[s], p)
    BY <1>8 DEF Pending, SameRun
  <2>. QED  BY <1>1, <1>3, <1>8, <2>1, FreshMove DEF SameRun
<1>9. ASSUME RunOver(p, q), TurnsFresh(talk'[s], {}), wanted'[s] = wanted[s]
      PROVE  SessionFresh(talk'[s], worker'[s], wanted'[s], q, books)
  <2>1. \A e \in Pending(wanted'[s], q) : e # None => e \in Pending(wanted[s], p)
    BY <1>4, <1>9 DEF Pending, RunOver
  <2>. QED  BY <1>1, <1>9, <2>1, FreshMove DEF RunOver
<1>10. CASE View(s) \/ Render(s)
  <2>1. SameRun(p, q) /\ q.at # "asking" /\ talk' = talk /\ wanted' = wanted
    BY <1>10, ViewDoes, RenderDoes
  <2>. QED  BY <1>8, <2>1
<1>11. CASE Fetch(s)
  <2>1. talk' = talk /\ wanted' = wanted /\ p.at \in Computing
    BY <1>11, FetchDoes
  <2>2. CASE FetchedFrom(s, cache[p.at])
    BY <1>8, <2>1, <2>2 DEF FetchedFrom
  <2>3. CASE page' = page
    BY <1>8, <2>1, <2>3 DEF SameRun, Computing
  <2>. QED  BY <1>11, <2>2, <2>3, FetchDoes
<1>12. CASE Cached(s)
  <2>1. talk' = talk /\ wanted' = wanted
    BY <1>12, CachedDoes
  <2>2. CASE FetchedFrom(s, worker[s].figures)
    BY <1>8, <2>1, <2>2 DEF FetchedFrom
  <2>3. CASE RunOver(p, q)
    BY <1>3, <1>9, <2>1, <2>3
  <2>. QED  BY <1>12, <2>2, <2>3, CachedDoes
<1>13. CASE Submit(s)
  <2>. DEFINE input == Input(p)
  <2>1. p.at = "ready" /\ wanted' = wanted /\ input \in {p.want.typed, p.query}
    BY <1>13, SubmitDoes
  <2>2. CASE RunOver(p, q) /\ talk' = talk
    BY <1>3, <1>9, <2>1, <2>2
  <2>3. CASE /\ input \in Entries /\ q.at = "asking" /\ q.query = input
             /\ q.pending = p.pending /\ q.want = p.want /\ q.reply = p.reply
             /\ talk'[s] = Append(talk[s], User(input.id, input.question))
             /\ RouteQuery(s, input.question, Carried(talk[s], KeptByPage))
    <3>. HIDE DEF input
    <3>1. q.reply = None
      BY <1>2, <2>1, <2>3 DEF ReplyOK
    <3>2. TurnsFresh(talk'[s], {})
      BY <1>1, <1>3, <2>3, TurnsUser
    <3>3. KeptByPage \in SUBSET ({} \cup {None, "assistant", "unknown"})
      BY DEF KeptByPage
    <3>4. \A v \in Carried(talk[s], KeptByPage) : Quoted(talk[s], Len(talk[s]), {}, v)
      BY <1>1, <1>3, <3>3, CarriedQuoted
    <3>5. JobFresh(worker'[s], input.since, talk[s], {})
      BY <1>1, <2>3, <3>4, RouteFresh DEF SessionsTypeOK
    <3>6. JobFresh(worker'[s], q.query.since, talk'[s], {})
      BY <1>1, <2>3, <3>5, JobAppend
    <3>7. \A e \in Pending(wanted'[s], q) : e # None => e \in Pending(wanted[s], p)
      BY <2>1, <2>3 DEF Pending
    <3>8. \A e \in Pending(wanted'[s], q) : e # None => e.since <= books
      BY <1>1, <3>7 DEF SessionFresh
    <3>. QED  BY <3>1, <3>2, <3>6, <3>8 DEF SessionFresh
  <2>. QED  BY <1>13, <2>2, <2>3, SubmitDoes
<1>14. CASE Answered(s)
  <2>1. /\ p.at = "asking" /\ q.at # "asking" /\ talk' = talk /\ wanted' = wanted
        /\ q.reply = worker[s] /\ q.pending = p.pending /\ q.query = p.query /\ q.want = p.want
    BY <1>14, AnsweredDoes
  <2>2. JobFresh(q.reply, q.query.since, talk'[s], {})
    BY <1>1, <2>1 DEF SessionFresh
  <2>3. \A e \in Pending(wanted'[s], q) : e # None => e.since <= books
    BY <1>1, <2>1 DEF Pending, SessionFresh
  <2>. QED  BY <1>3, <2>1, <2>2, <2>3 DEF SessionFresh
<1>15. CASE Join(s)
  <2>1. /\ p.at = "rendered" /\ RunOver(p, q) /\ wanted' = wanted
        /\ talk'[s] = Append(talk[s], Assistant(p.query.id, p.reply, p.query.since))
    BY <1>15, JoinDoes
  <2>2. p.reply # None /\ p.reply \in Replies
    BY <1>1, <1>2, <2>1 DEF ReplyOK, Pages
  <2>3. p.reply.at = "done" /\ JobFresh(p.reply, p.query.since, talk[s], {})
    BY <1>1, <2>2 DEF SessionFresh, Replies
  <2>4. TurnsFresh(talk'[s], {})
    BY <1>1, <1>3, <2>1, <2>3, TurnsAnswer
  <2>. QED  BY <1>9, <2>1, <2>4
<1>. QED  BY <1>5, <1>6, <1>7, <1>10, <1>11, <1>12, <1>13, <1>14, <1>15 DEF Script

\* The steps of the service.
LEMMA FreshService ==
  ASSUME SessionsTypeOK, AdmissionInv, FreshInv, NEW t \in Threads,
         \/ \E q \in Questions, token \in {"valid", "expired"} : Post(t, q, token)
         \/ Limit(t) \/ Route(t) \/ Respond(t)
  PROVE  \A u \in Threads : ThreadFresh(talk'[u], worker'[u], post'[u], books)
<1>1. \A u \in Threads \ {t} : talk'[u] = talk[u] /\ worker'[u] = worker[u] /\ post'[u] = post[u]
  <2>1. \/ worker' = worker
        \/ \E job : worker' = [worker EXCEPT ![t] = job]
    BY DEF Post, Limit, Route, Respond, RouteQuery, Sets, gatewayVars
  <2>2. \/ talk' = talk
        \/ \E turns : talk' = [talk EXCEPT ![t] = turns]
    BY DEF Post, Limit, Route, Respond
  <2>3. \/ post' = post
        \/ \E request : post' = [post EXCEPT ![t] = request]
    BY DEF Post, Limit, Route, Respond
  <2>. QED  BY <2>1, <2>2, <2>3, SessionsAssumption DEF SessionsTypeOK
<1>2. /\ ThreadFresh(talk[t], worker[t], post[t], books) /\ books \in Nat
      /\ t \in Workers /\ talk[t] \in Seq(Messages) /\ worker[t] \in Jobs /\ post[t] \in Requests \cup {Free}
  BY SessionsAssumption DEF FreshInv, SessionsTypeOK
<1>3. worker[t] # Resting => post[t].status = "routed"
  BY DEF AdmissionInv
<1>4. ASSUME NEW q \in Questions, NEW token \in {"valid", "expired"}, Post(t, q, token)
      PROVE  ThreadFresh(talk'[t], worker'[t], post'[t], books)
  <2>1. talk' = talk /\ worker' = worker /\ post[t] = Free
    BY <1>4 DEF Post, gatewayVars
  <2>2. worker[t] = Resting
    BY <1>3, <2>1 DEF Free
  <2>3. post'[t] = post[t] \/ post'[t].since = books
    BY <1>4 DEF Post, SessionsTypeOK
  <2>4. post'[t] # Free => post'[t].since <= books
    BY <1>2, <2>3 DEF ThreadFresh
  <2>. QED  BY <1>2, <2>1, <2>2, <2>4 DEF ThreadFresh
<1>5. ASSUME Limit(t)
      PROVE  ThreadFresh(talk'[t], worker'[t], post'[t], books)
  <2>1. thread[t] # Idle
    BY <1>5 DEF Limit, FilterEnd, Refuse, Admit, RegisterStart, RegisterEnd, Idle
  <2>2. post[t] \in Requests /\ post[t] # Free /\ worker[t] = Resting
    BY <1>2, <2>1 DEF AdmissionInv, Free
  <2>3. talk' = talk /\ worker' = worker
    BY <1>5 DEF Limit, gatewayVars
  <2>4. post'[t] \in {post[t], Free, [post[t] EXCEPT !.status = "admitted"]}
    BY <1>5 DEF Limit, SessionsTypeOK
  <2>5. [post[t] EXCEPT !.status = "admitted"].since = post[t].since
    BY <2>2 DEF Requests
  <2>6. post'[t] # Free => post'[t].since <= books
    BY <1>2, <2>2, <2>4, <2>5 DEF ThreadFresh
  <2>. QED  BY <1>2, <2>2, <2>3, <2>6 DEF ThreadFresh
<1>6. ASSUME Route(t)
      PROVE  ThreadFresh(talk'[t], worker'[t], post'[t], books)
  <2>1. post[t] \in Requests /\ post[t] # Free
    BY <1>2, <1>6 DEF Route, Free
  <2>2. talk' = talk /\ post'[t].since = post[t].since
    BY <1>6, <2>1 DEF Route, SessionsTypeOK, Requests
  <2>3. KeptByApi \in SUBSET (Short \cup {None, "assistant", "unknown"})
    BY DEF KeptByApi
  <2>4. TurnsFresh(talk[t], Short)
    BY <1>2 DEF ThreadFresh
  <2>5. \A v \in Carried(talk[t], KeptByApi) : Quoted(talk[t], Len(talk[t]), Short, v)
    BY <1>2, <2>3, <2>4, CarriedQuoted
  <2>6. RouteQuery(t, post[t].question, Carried(talk[t], KeptByApi)) /\ worker \in [Workers -> Jobs]
    BY <1>6 DEF Route, SessionsTypeOK
  <2>7. JobFresh(worker'[t], post[t].since, talk[t], Short)
    BY <1>2, <2>5, <2>6, RouteFresh
  <2>8. post[t].since <= books
    BY <1>2, <2>1 DEF ThreadFresh
  <2>. QED  BY <2>2, <2>4, <2>7, <2>8 DEF ThreadFresh
<1>7. ASSUME Respond(t)
      PROVE  ThreadFresh(talk'[t], worker'[t], post'[t], books)
  <2>. DEFINE user == User(asked[t], post[t].question)
              answer == Assistant(asked[t], worker[t], post[t].since)
  <2>1. worker[t].at = "done" /\ worker[t] # Resting
    BY <1>7 DEF Respond, Resting
  <2>2. TurnsFresh(talk[t], Short) /\ JobFresh(worker[t], post[t].since, talk[t], Short)
    BY <1>2, <2>1 DEF ThreadFresh
  <2>3. post[t] \in Requests
    BY <1>2, <1>7 DEF Respond, Free
  <2>4. user \in Messages /\ Append(talk[t], user) \in Seq(Messages)
    BY <1>2, <2>3, UserType DEF Requests, SessionsTypeOK
  <2>5. worker[t] \in Replies
    BY <1>2, <2>1, JobByPlace
  <2>6. answer \in Messages
    BY <1>2, <2>3, <2>5, AssistantType DEF Requests, SessionsTypeOK
  <2>7. TurnsFresh(Append(talk[t], user), Short) /\ JobFresh(worker[t], post[t].since, Append(talk[t], user), Short)
    BY <1>2, <2>2, TurnsUser, JobAppend
  <2>8. TurnsFresh(Append(Append(talk[t], user), answer), Short)
    BY <2>1, <2>4, <2>7, TurnsAnswer
  <2>9. talk'[t] = talk[t] \o <<user, answer>> /\ post'[t] = Free /\ worker'[t] = Resting
    BY <1>2, <1>7 DEF Respond, Sets, SessionsTypeOK
  <2>10. talk[t] \o <<user, answer>> = Append(Append(talk[t], user), answer)
    <3>. HIDE DEF user, answer
    <3>. QED  BY <1>2, <2>4, <2>6
  <2>. HIDE DEF user, answer
  <2>. QED  BY <2>8, <2>9, <2>10 DEF ThreadFresh
<1>8. ThreadFresh(talk'[t], worker'[t], post'[t], books)
  BY <1>4, <1>5, <1>6, <1>7
<1>9. ASSUME NEW u \in Threads \ {t}
      PROVE  ThreadFresh(talk'[u], worker'[u], post'[u], books)
  BY <1>1 DEF FreshInv
<1>. QED  BY <1>8, <1>9

LEMMA FreshNext ==
  ASSUME SessionsTypeOK, AdmissionInv, PageInv, FreshInv, [SessionsNext]_sessionsVars
  PROVE  FreshInv'
<1>1. ASSUME \A s \in Sessions : SessionFresh(talk'[s], worker'[s], wanted'[s], page'[s], books'),
             \A t \in Threads : ThreadFresh(talk'[t], worker'[t], post'[t], books')
      PROVE  FreshInv'
  BY <1>1 DEF FreshInv
<1>2. ASSUME NEW t \in Threads,
             \/ \E q \in Questions, token \in {"valid", "expired"} : Post(t, q, token)
             \/ Limit(t) \/ Route(t) \/ Respond(t)
      PROVE  FreshInv'
  <2>1. /\ books' = books /\ page' = page /\ wanted' = wanted
        /\ \A s \in Sessions : worker'[s] = worker[s] /\ talk'[s] = talk[s]
    BY <1>2, ServiceKeeps
  <2>2. \A s \in Sessions : SessionFresh(talk'[s], worker'[s], wanted'[s], page'[s], books')
    BY <2>1 DEF FreshInv
  <2>3. \A u \in Threads : ThreadFresh(talk'[u], worker'[u], post'[u], books')
    BY <1>2, <2>1, FreshService
  <2>. QED  BY <1>1, <2>2, <2>3
<1>3. CASE ClockTicks \/ UNCHANGED sessionsVars
  <2>1. UNCHANGED <<books, talk, worker, wanted, page, post>>
    BY <1>3 DEF ClockTicks, sessionsVars, gatewayVars, pageVars
  <2>. QED  BY <2>1 DEF FreshInv
<1>4. CASE World
  <2>1. books' = books + 1 /\ books \in Nat /\ UNCHANGED <<talk, worker, wanted, page, post>>
    BY <1>4 DEF World, BooksChange, pageVars, SessionsTypeOK
  <2>2. ASSUME NEW s \in Sessions
        PROVE  SessionFresh(talk'[s], worker'[s], wanted'[s], page'[s], books')
    <3>1. SessionFresh(talk[s], worker[s], wanted[s], page[s], books)
      BY DEF FreshInv
    <3>2. wanted[s] \in Wants /\ page[s] \in Pages
      BY DEF SessionsTypeOK
    <3>3. page[s].want \in Wants
      BY <3>2 DEF Pages
    <3>4. Pending(wanted[s], page[s]) \subseteq Entries \cup {None}
      BY <3>2, <3>3 DEF Pending, Wants, Pages
    <3>5. ASSUME NEW e \in Pending(wanted[s], page[s]), e # None
          PROVE  e.since <= books'
      <4>1. e.since \in Nat /\ e.since <= books
        BY <3>1, <3>4, <3>5 DEF Entries, SessionFresh
      <4>. QED  BY <2>1, <4>1
    <3>. QED  BY <2>1, <3>1, <3>5 DEF SessionFresh
  <2>3. ASSUME NEW t \in Threads
        PROVE  ThreadFresh(talk'[t], worker'[t], post'[t], books')
    <3>1. ThreadFresh(talk[t], worker[t], post[t], books) /\ post[t] \in Requests \cup {Free}
      BY DEF FreshInv, SessionsTypeOK
    <3>2. ASSUME post[t] # Free
          PROVE  post[t].since <= books'
      <4>1. post[t].since \in Nat /\ post[t].since <= books
        BY <3>1, <3>2 DEF Requests, ThreadFresh
      <4>. QED  BY <2>1, <4>1
    <3>. QED  BY <2>1, <3>1, <3>2 DEF ThreadFresh
  <2>. QED  BY <1>1, <2>2, <2>3
<1>5. ASSUME NEW s \in Sessions, Interacts(s) \/ Begin(s) \/ Script(s)
      PROVE  FreshInv'
  <2>1. /\ books' = books /\ post' = post
        /\ \A r \in Sessions \ {s} : /\ page'[r] = page[r] /\ worker'[r] = worker[r]
                                     /\ talk'[r] = talk[r] /\ wanted'[r] = wanted[r]
        /\ \A t \in Threads : worker'[t] = worker[t] /\ talk'[t] = talk[t]
    BY <1>5, OthersKeep
  <2>2. SessionFresh(talk'[s], worker'[s], wanted'[s], page'[s], books')
    BY <1>5, <2>1, FreshScript
  <2>3. ASSUME NEW r \in Sessions \ {s}
        PROVE  SessionFresh(talk'[r], worker'[r], wanted'[r], page'[r], books')
    BY <2>1 DEF FreshInv
  <2>4. \A t \in Threads : ThreadFresh(talk'[t], worker'[t], post'[t], books')
    BY <2>1 DEF FreshInv
  <2>. QED  BY <1>1, <2>2, <2>3, <2>4
<1>6. ASSUME NEW w \in Workers, Agent(w)
      PROVE  FreshInv'
  <2>1. /\ Answering(w) /\ worker[w] # Resting /\ UNCHANGED <<books, talk, wanted, page, post>>
        /\ \A v \in Workers \ {w} : worker'[v] = worker[v]
    BY <1>6, AgentKeeps DEF pageVars
  <2>2. GatewayTypes
    BY TypeParts
  <2>3. ASSUME NEW s \in Sessions
        PROVE  SessionFresh(talk'[s], worker'[s], wanted'[s], page'[s], books')
    <3>1. SessionFresh(talk[s], worker[s], wanted[s], page[s], books) /\ s \in Workers
      BY SessionsAssumption DEF FreshInv
    <3>2. CASE s # w
      BY <2>1, <3>1, <3>2
    <3>3. CASE s = w /\ page[s].at # "asking"
      BY <2>1, <3>1, <3>3 DEF SessionFresh
    <3>4. CASE s = w /\ page[s].at = "asking"
      <4>1. page[s] \in Pages /\ page[s].query # None
        BY <3>4 DEF SessionsTypeOK, PageInv, PageOK, Submitted
      <4>2. page[s].query \in Entries /\ page[s].query \in Pending(wanted[s], page[s])
        BY <4>1 DEF Pages, Pending
      <4>3. page[s].query.since \in Nat /\ page[s].query.since <= books
        BY <3>1, <4>1, <4>2 DEF Entries, SessionFresh
      <4>4. JobFresh(worker[w], page[s].query.since, talk[s], {})
        BY <3>1, <3>4 DEF SessionFresh
      <4>5. JobFresh(worker'[w], page[s].query.since, talk[s], {})
        BY <2>1, <2>2, <4>3, <4>4, JobFreshStep
      <4>. QED  BY <2>1, <3>1, <3>4, <4>5 DEF SessionFresh
    <3>. QED  BY <3>2, <3>3, <3>4
  <2>4. ASSUME NEW t \in Threads
        PROVE  ThreadFresh(talk'[t], worker'[t], post'[t], books')
    <3>1. /\ ThreadFresh(talk[t], worker[t], post[t], books) /\ t \in Workers
          /\ post[t] \in Requests \cup {Free}
      BY SessionsAssumption DEF FreshInv, SessionsTypeOK
    <3>2. CASE t # w
      BY <2>1, <3>1, <3>2
    <3>3. CASE t = w
      <4>1. post[t] # Free
        BY <2>1, <3>3 DEF AdmissionInv, Free
      <4>2. post[t].since \in Nat /\ post[t].since <= books
        BY <3>1, <4>1 DEF Requests, ThreadFresh
      <4>3. JobFresh(worker[w], post[t].since, talk[t], Short)
        BY <2>1, <3>1, <3>3 DEF ThreadFresh
      <4>4. JobFresh(worker'[w], post[t].since, talk[t], Short)
        BY <2>1, <2>2, <4>2, <4>3, JobFreshStep
      <4>. QED  BY <2>1, <3>1, <3>3, <4>4 DEF ThreadFresh
    <3>. QED  BY <3>2, <3>3
  <2>. QED  BY <1>1, <2>3, <2>4
<1>. QED  BY <1>2, <1>3, <1>4, <1>5, <1>6 DEF SessionsNext, Interacts, Views

-----------------------------------------------------------------------------
(***************************************************************************)
(* The theorems about figures.                                             *)
(***************************************************************************)

FiguresInv == RunInv /\ ExportInv /\ RefreshInv /\ FreshInv

LEMMA FiguresInitial == SessionsInit => FiguresInv
<1>. SUFFICES ASSUME SessionsInit
              PROVE  FiguresInv
  OBVIOUS
<1>1. /\ books = 0 /\ \A w \in Workers : worker[w] = Resting /\ talk[w] = <<>>
      /\ \A t \in Threads : post[t] = Free
      /\ \A s \in Sessions : wanted[s] = Nothing
  BY SessionsAssumption DEF SessionsInit, GatewayInit
<1>2. ASSUME NEW s \in Sessions
      PROVE  /\ page[s].at = "idle" /\ page[s].reply = None /\ page[s].pending = None
             /\ page[s].query = None /\ page[s].want = Nothing
             /\ page[s].shown = {} /\ page[s].refreshed = None
  BY DEF SessionsInit
<1>3. RunInv
  BY <1>1, <1>2, GatewayAssumption, SessionsAssumption DEF RunInv, RunOK, Computing
<1>4. Statements(<<>>) = {} /\ TurnsFresh(<<>>, {}) /\ TurnsFresh(<<>>, Short)
  BY DEF Statements, TurnsFresh
<1>5. ExportInv
  BY <1>1, <1>2, <1>4, SessionsAssumption DEF ExportInv, ExportOK
<1>6. RefreshInv
  BY <1>2 DEF RefreshInv, Refreshed
<1>7. ASSUME NEW s \in Sessions
      PROVE  SessionFresh(talk[s], worker[s], wanted[s], page[s], books)
  <2>1. Pending(wanted[s], page[s]) = {None}
    BY <1>1, <1>2, NobodyWaits DEF Pending
  <2>. QED  BY <1>1, <1>2, <1>4, <2>1, SessionsAssumption DEF SessionFresh
<1>8. ASSUME NEW t \in Threads
      PROVE  ThreadFresh(talk[t], worker[t], post[t], books)
  BY <1>1, <1>4, SessionsAssumption DEF ThreadFresh
<1>. QED  BY <1>3, <1>5, <1>6, <1>7, <1>8 DEF FiguresInv, FreshInv

LEMMA FiguresInductive == SessionsInv /\ FiguresInv /\ [SessionsNext]_sessionsVars => FiguresInv'
BY RunNext, ExportNext, RefreshNext, FreshNext DEF SessionsInv, FiguresInv

LEMMA FiguresInvariant == SessionsSpec => []FiguresInv
BY FiguresInitial, FiguresInductive, SessionsInvariant, PTL DEF SessionsSpec

\* No answer has a figure that was read before its question was asked, whatever
\* the model repeats and whoever books meanwhile; except, in the service, one
\* that an earlier answer of a short tool showed (_build_history,
\* filter_history).
THEOREM AnswersAreFresh == SessionsSpec => []FiguresAreFresh
<1>1. ASSUME SessionsInv, FiguresInv, NEW w \in Workers, NEW i \in Answers(w), NEW v \in talk[w][i].figures
      PROVE  \/ v >= talk[w][i].since
             \/ w \in Threads /\ \E j \in Answers(w) : j < i /\ talk[w][j].tool \in Short /\ v \in talk[w][j].figures
  <2>. DEFINE turns == talk[w]
  <2>1. turns \in Seq(Messages) /\ i \in DOMAIN turns /\ turns[i].role = "assistant"
    BY <1>1 DEF SessionsInv, SessionsTypeOK, Answers
  <2>2. DOMAIN turns = 1..Len(turns) /\ Len(turns) \in Nat
    BY <2>1
  <2>3. CASE turns[i].tool \in Tools
    BY <1>1, <2>1, <2>3, SessionsAssumption DEF FiguresInv, FreshInv, SessionFresh, ThreadFresh, TurnsFresh
  <2>4. CASE turns[i].tool \notin Tools
    <3>1. CASE w \in Sessions
      <4>1. Quoted(turns, i - 1, {}, v)
        BY <1>1, <2>1, <2>4, <3>1 DEF FiguresInv, FreshInv, SessionFresh, TurnsFresh
      <4>. QED  BY <4>1 DEF Quoted
    <3>2. CASE w \in Threads
      <4>1. Quoted(turns, i - 1, Short, v)
        BY <1>1, <2>1, <2>4, <3>2 DEF FiguresInv, FreshInv, ThreadFresh, TurnsFresh
      <4>2. PICK j \in 1..(i - 1) : /\ turns[j].role = "assistant" /\ turns[j].tool \in Short
                                    /\ v \in turns[j].figures
        BY <4>1 DEF Quoted
      <4>3. j \in DOMAIN turns /\ j < i
        BY <2>1, <2>2
      <4>. QED  BY <3>2, <4>2, <4>3 DEF Answers
    <3>. QED  BY <3>1, <3>2, SessionsAssumption
  <2>. QED  BY <2>3, <2>4
<1>2. SessionsInv /\ FiguresInv => FiguresAreFresh
  BY <1>1 DEF FiguresAreFresh
<1>. QED  BY <1>2, SessionsInvariant, FiguresInvariant, PTL

\* A conversation with a statement can be shown while Odoo is away: its export
\* was cached before the answer joined, and Refresh does not clear it.
THEOREM ExportIsCached == SessionsSpec => []HistoryNeedsNoOdoo
<1>1. FiguresInv => HistoryNeedsNoOdoo
  BY DEF FiguresInv, ExportInv, ExportOK, HistoryNeedsNoOdoo
<1>. QED  BY <1>1, FiguresInvariant, PTL

\* After Refresh the dashboard shows what was read since, unless another session
\* was computing for its caches at that moment.
THEOREM RefreshIsNew == SessionsSpec => []RefreshShowsNow
<1>1. FiguresInv => RefreshShowsNow
  BY DEF FiguresInv, RefreshInv, Refreshed, RefreshShowsNow
<1>. QED  BY <1>1, FiguresInvariant, PTL

-----------------------------------------------------------------------------
(***************************************************************************)
(* The limiter: what holds of it when requests pass it one at a time.      *)
(***************************************************************************)

\* What a thread holds at each place.
Limiting == {Idle} \cup [pc : {"filtering"}, list : Objects, now : Nat]
            \cup [pc : {"counting"}, now : Nat] \cup [pc : {"registering"}]
            \cup [pc : {"appending"}, list : Objects, request : Nat]

LimiterTypes ==
    /\ lists \in [Objects -> SUBSET (1..Len(admitted))] /\ current \in Objects
    /\ thread \in [Threads -> Limiting]
    /\ admitted \in Seq(Nat) /\ clock \in Nat

\* A thread that no other overtakes filters and appends to the list that the
\* name is bound to; what is left out of that list has expired.
AloneOK(h) ==
    /\ h.pc \in {"filtering", "appending"} => h.list = current
    /\ h.pc \in {"filtering", "counting"} => h.now <= clock
    /\ h.pc = "counting" => lists[current] \subseteq Window(h.now)
    /\ h.pc = "appending" => h.request \in 1..Len(admitted)
    /\ \A n \in Window(clock) : n \in lists[current] \/ (h.pc = "appending" /\ n = h.request)
    /\ h.pc = "registering" => Cardinality(Window(clock)) < RATE_LIMIT_MAX

AloneAt(t) ==
    /\ LimiterTypes
    /\ AloneOK(thread[t]) /\ \A u \in Threads \ {t} : thread[u] = Idle
    /\ Cardinality(Window(clock)) <= RATE_LIMIT_MAX

AloneInv == \E t \in Threads : AloneAt(t)

\* No two requests are between the check and the append at once, as if a lock
\* were held over both: the threads may be as many as they like, and answer as
\* they like.
OneAtATime == \A t, u \in Threads : thread[t] # Idle /\ thread[u] # Idle => t = u

LEMMA WindowFinite ==
  ASSUME admitted \in Seq(Nat), NEW now \in Nat
  PROVE  IsFiniteSet(Window(now)) /\ Cardinality(Window(now)) \in Nat
<1>1. IsFiniteSet(1..Len(admitted))
  BY FS_Interval
<1>2. Window(now) \subseteq 1..Len(admitted)
  BY DEF Window
<1>. QED  BY <1>1, <1>2, FS_Subset, FS_CardinalityType

\* An element more is at most one more.
LEMMA OneMore ==
  ASSUME NEW S, IsFiniteSet(S), NEW x
  PROVE  /\ Cardinality(S \cup {x}) <= Cardinality(S) + 1
         /\ IsFiniteSet(S \cup {x}) /\ Cardinality(S \cup {x}) \in Nat
<1>1. /\ IsFiniteSet(S \cup {x})
      /\ Cardinality(S \cup {x}) = IF x \in S THEN Cardinality(S) ELSE Cardinality(S) + 1
  BY FS_AddElement
<1>2. Cardinality(S) \in Nat /\ Cardinality(S \cup {x}) \in Nat
  BY <1>1, FS_CardinalityType
<1>. QED  BY <1>1, <1>2

\* Time only takes requests out of the window.
LEMMA WindowShrinks ==
  ASSUME admitted \in Seq(Nat), NEW now \in Nat, NEW later \in Nat, now <= later
  PROVE  Window(later) \subseteq Window(now) /\ Cardinality(Window(later)) <= Cardinality(Window(now))
<1>1. RATE_LIMIT_WINDOW \in Nat
  BY LimiterAssumption
<1>2. ASSUME NEW n \in Window(later)
      PROVE  n \in Window(now)
  <2>1. n \in 1..Len(admitted) /\ admitted[n] \in Nat /\ later - admitted[n] < RATE_LIMIT_WINDOW
    BY DEF Window
  <2>2. now - admitted[n] < RATE_LIMIT_WINDOW
    BY <1>1, <2>1
  <2>. QED  BY <2>1, <2>2 DEF Window
<1>. QED  BY <1>2, WindowFinite, FS_Subset

\* The number of threads is that of the objects but two.
LEMMA NewList ==
  ASSUME Cardinality(Threads) \in Nat \ {0}, current \in Objects
  PROVE  Min(Objects \ {current}) \in Objects /\ Min(Objects \ {current}) # current
<1>1. 1 \in Objects /\ 2 \in Objects
  BY DEF Objects
<1>2. \E x \in Objects \ {current} : \A y \in Objects \ {current} : x <= y
  <2>1. CASE current = 1
    <3>1. 2 \in Objects \ {current} /\ \A y \in Objects \ {current} : 2 <= y
      BY <1>1, <2>1 DEF Objects
    <3>. QED  BY <3>1
  <2>2. CASE current # 1
    <3>1. 1 \in Objects \ {current} /\ \A y \in Objects \ {current} : 1 <= y
      BY <1>1, <2>2 DEF Objects
    <3>. QED  BY <3>1
  <2>. QED  BY <2>1, <2>2
<1>3. Min(Objects \ {current}) \in Objects \ {current}
  BY <1>2 DEF Min
<1>. QED  BY <1>3

LEMMA AloneInitial ==
  ASSUME Init
  PROVE  AloneInv
<1>1. Cardinality(Threads) \in Nat /\ RATE_LIMIT_MAX \in Nat
  BY LimiterAssumption
<1>2. Window(clock) = {} /\ Cardinality({}) = 0
  BY FS_EmptySet DEF Init, Window
<1>3. LimiterTypes
  BY <1>1 DEF Init, LimiterTypes, Limiting, Objects
<1>4. ASSUME NEW t \in Threads
      PROVE  AloneOK(thread[t])
  <2>1. thread[t].pc = "idle"
    BY DEF Init, Idle
  <2>. QED  BY <1>2, <2>1 DEF AloneOK
<1>5. PICK t : t \in Threads
  <2>1. Threads # {}
    BY LimiterAssumption, FS_EmptySet
  <2>. QED  BY <2>1
<1>6. AloneAt(t)
  BY <1>1, <1>2, <1>3, <1>4, <1>5 DEF AloneAt, Init
<1>. QED  BY <1>5, <1>6 DEF AloneInv

\* The steps of one thread in the limiter.
Passes(t) ==
  FilterStart(t) \/ FilterEnd(t) \/ Refuse(t) \/ Admit(t) \/ RegisterStart(t) \/ RegisterEnd(t)

LEMMA AloneStep ==
  ASSUME NEW t \in Threads, AloneAt(t), Passes(t) \/ Tick \/ UNCHANGED vars
  PROVE  AloneAt(t)'
<1>. USE DEF LimiterTypes
<1>. DEFINE h == thread[t]
<1>1. /\ LimiterTypes /\ h \in Limiting /\ AloneOK(h) /\ t \in Threads
      /\ Cardinality(Window(clock)) <= RATE_LIMIT_MAX
      /\ RATE_LIMIT_MAX \in Nat \ {0} /\ RATE_LIMIT_WINDOW \in Nat \ {0}
      /\ Cardinality(Threads) \in Nat \ {0} /\ \A u \in Threads \ {t} : thread[u] = Idle
  BY LimiterAssumption DEF AloneAt
<1>2. IsFiniteSet(Window(clock)) /\ Cardinality(Window(clock)) \in Nat
  BY <1>1, WindowFinite
<1>3. ASSUME LimiterTypes', AloneOK(thread[t])', (Cardinality(Window(clock)) <= RATE_LIMIT_MAX)'
      PROVE  AloneAt(t)'
  <2>1. \A u \in Threads \ {t} : thread'[u] = thread[u]
    BY <1>1 DEF Passes, FilterStart, FilterEnd, Refuse, Admit, RegisterStart, RegisterEnd, Tick, vars
  <2>. QED  BY <1>1, <1>3, <2>1 DEF AloneAt
<1>4. CASE UNCHANGED vars
  BY <1>1, <1>3, <1>4 DEF vars, AloneOK, Window
<1>5. CASE FilterStart(t)
  <2>1. UNCHANGED <<lists, current, admitted, clock>> /\ h = Idle
        /\ thread' = [thread EXCEPT ![t] = [pc |-> "filtering", list |-> current, now |-> clock]]
    BY <1>5 DEF FilterStart, Now
  <2>2. LimiterTypes'
    BY <1>1, <2>1 DEF Limiting
  <2>3. thread'[t] = [pc |-> "filtering", list |-> current, now |-> clock]
    BY <1>1, <2>1
  <2>4. Window(clock)' = Window(clock)
    BY <2>1 DEF Window
  <2>5. \A n \in Window(clock) : n \in lists[current]
    BY <1>1, <2>1 DEF AloneOK, Idle
  <2>6. AloneOK(thread[t])'
    BY <1>1, <2>1, <2>3, <2>4, <2>5 DEF AloneOK
  <2>. QED  BY <1>1, <1>3, <2>2, <2>4, <2>6
<1>6. CASE FilterEnd(t)
  <2>1. h \in [pc : {"filtering"}, list : Objects, now : Nat]
    BY <1>1, <1>6 DEF FilterEnd, Limiting, Idle
  <2>2. h.list = current /\ h.now \in Nat /\ h.now <= clock /\ \A n \in Window(clock) : n \in lists[current]
    BY <1>1, <2>1 DEF AloneOK
  <2>. DEFINE kept == {n \in lists[current] : Unexpired(n, h.now)}
              new == Min(Objects \ {current})
  <2>3. Live(current, thread) = {current}
    <3>1. \A u \in Threads : thread[u].pc \in {"filtering", "appending"} => thread[u].list = current
      BY <1>1, <2>2 DEF Idle
    <3>. QED  BY <3>1 DEF Live
  <2>4. /\ thread' = [thread EXCEPT ![t] = [pc |-> "counting", now |-> h.now]] /\ current' = new
        /\ lists' = [o \in Objects |-> IF o = new THEN kept
                                       ELSE IF o \in Live(new, thread') THEN lists[o] ELSE {}]
        /\ UNCHANGED <<admitted, clock>>
    BY <1>6, <2>2, <2>3 DEF FilterEnd
  <2>5. new \in Objects
    BY <1>1, NewList
  <2>6. kept \in SUBSET (1..Len(admitted))
    BY <1>1
  <2>. HIDE DEF kept, new
  <2>7. lists'[current'] = kept /\ thread'[t] = [pc |-> "counting", now |-> h.now]
    BY <1>1, <2>4, <2>5
  <2>8. LimiterTypes'
    <3>1. lists' \in [Objects -> SUBSET (1..Len(admitted'))]
      BY <1>1, <2>4, <2>6
    <3>2. thread' \in [Threads -> Limiting]
      BY <1>1, <2>2, <2>4 DEF Limiting
    <3>. QED  BY <1>1, <2>4, <2>5, <3>1, <3>2
  <2>9. Window(clock)' = Window(clock) /\ Window(h.now)' = Window(h.now)
    BY <2>4 DEF Window
  <2>10. kept \subseteq Window(h.now)
    BY <1>1, <2>6 DEF kept, Window, Unexpired
  <2>11. \A n \in Window(clock) : n \in kept
    <3>1. Window(clock) \subseteq Window(h.now)
      BY <1>1, <2>2, WindowShrinks
    <3>2. \A n \in Window(h.now) : Unexpired(n, h.now)
      BY DEF Window, Unexpired
    <3>. QED  BY <2>2, <3>1, <3>2 DEF kept
  <2>12. AloneOK(thread[t])'
    <3>1. (thread[t].pc)' = "counting" /\ (thread[t].now)' = h.now
      BY <2>7
    <3>2. (lists[current] \subseteq Window(thread[t].now))'
      BY <2>7, <2>10, <2>4, <3>1 DEF Window
    <3>. QED  BY <2>2, <2>4, <2>7, <2>9, <2>11, <3>1, <3>2 DEF AloneOK
  <2>. QED  BY <1>1, <1>3, <2>8, <2>9, <2>12
<1>7. CASE Refuse(t)
  <2>1. UNCHANGED <<lists, current, admitted, clock>> /\ h.pc = "counting" /\ thread' = [thread EXCEPT ![t] = Idle]
    BY <1>7 DEF Refuse
  <2>2. LimiterTypes' /\ thread'[t] = Idle /\ Window(clock)' = Window(clock)
    BY <1>1, <2>1 DEF Limiting, Window
  <2>3. AloneOK(thread[t])'
    BY <1>1, <2>1, <2>2 DEF AloneOK, Idle
  <2>. QED  BY <1>1, <1>3, <2>2, <2>3
<1>8. CASE Admit(t)
  <2>1. /\ UNCHANGED <<lists, current, admitted, clock>> /\ h.pc = "counting" /\ ~Full
        /\ thread' = [thread EXCEPT ![t] = [pc |-> "registering"]]
    BY <1>8 DEF Admit
  <2>2. LimiterTypes' /\ thread'[t] = [pc |-> "registering"] /\ Window(clock)' = Window(clock)
    BY <1>1, <2>1 DEF Limiting, Window
  <2>3. Window(clock) \subseteq lists[current] /\ lists[current] \subseteq 1..Len(admitted)
    BY <1>1, <2>1 DEF AloneOK
  <2>4. Cardinality(Window(clock)) <= Cardinality(lists[current]) /\ Cardinality(lists[current]) \in Nat
    <3>1. IsFiniteSet(1..Len(admitted))
      BY <1>1, FS_Interval
    <3>. QED  BY <2>3, <3>1, FS_Subset, FS_CardinalityType
  <2>5. Cardinality(Window(clock)) < RATE_LIMIT_MAX
    BY <1>1, <1>2, <2>1, <2>4 DEF Full
  <2>6. AloneOK(thread[t])'
    BY <2>1, <2>2, <2>3, <2>5 DEF AloneOK
  <2>. QED  BY <1>1, <1>3, <2>2, <2>6
<1>9. CASE RegisterStart(t)
  <2>. DEFINE n == Len(admitted) + 1
  <2>1. /\ h.pc = "registering" /\ admitted' = Append(admitted, clock) /\ UNCHANGED <<lists, current, clock>>
        /\ thread' = [thread EXCEPT ![t] = [pc |-> "appending", list |-> current, request |-> n]]
    BY <1>9 DEF RegisterStart
  <2>2. /\ Len(admitted) \in Nat /\ Len(admitted') = n /\ n \in Nat
        /\ admitted' \in Seq(Nat) /\ admitted'[n] = clock
        /\ \A i \in 1..Len(admitted) : admitted'[i] = admitted[i]
    BY <1>1, <2>1
  <2>3. thread'[t] = [pc |-> "appending", list |-> current, request |-> n]
    BY <1>1, <2>1
  <2>4. LimiterTypes'
    <3>1. lists' \in [Objects -> SUBSET (1..Len(admitted'))]
      BY <1>1, <2>1, <2>2
    <3>2. thread' \in [Threads -> Limiting]
      BY <1>1, <2>1, <2>2 DEF Limiting
    <3>. QED  BY <1>1, <2>1, <2>2, <3>1, <3>2
  <2>5. Window(clock)' \subseteq Window(clock) \cup {n}
    BY <2>1, <2>2 DEF Window
  <2>6. (Cardinality(Window(clock)) <= RATE_LIMIT_MAX)'
    <3>1. Cardinality(Window(clock) \cup {n}) <= Cardinality(Window(clock)) + 1
          /\ IsFiniteSet(Window(clock) \cup {n}) /\ Cardinality(Window(clock) \cup {n}) \in Nat
      BY <1>2, OneMore
    <3>2. Cardinality(Window(clock)') <= Cardinality(Window(clock) \cup {n}) /\ Cardinality(Window(clock)') \in Nat
      BY <2>5, <3>1, FS_Subset, FS_CardinalityType
    <3>3. Cardinality(Window(clock)) < RATE_LIMIT_MAX
      BY <1>1, <2>1 DEF AloneOK
    <3>. QED  BY <1>1, <1>2, <3>1, <3>2, <3>3
  <2>7. \A i \in Window(clock) : i \in lists[current]
    BY <1>1, <2>1 DEF AloneOK
  <2>8. AloneOK(thread[t])'
    BY <2>1, <2>2, <2>3, <2>5, <2>7 DEF AloneOK
  <2>. QED  BY <1>3, <2>4, <2>6, <2>8
<1>10. CASE RegisterEnd(t)
  <2>1. /\ h.pc = "appending" /\ lists' = [lists EXCEPT ![h.list] = @ \cup {h.request}]
        /\ thread' = [thread EXCEPT ![t] = Idle] /\ UNCHANGED <<current, admitted, clock>>
    BY <1>10 DEF RegisterEnd
  <2>2. h.list = current /\ h.request \in 1..Len(admitted)
    BY <1>1, <2>1 DEF AloneOK
  <2>3. LimiterTypes' /\ thread'[t] = Idle /\ Window(clock)' = Window(clock)
        /\ lists'[current] = lists[current] \cup {h.request}
    BY <1>1, <2>1, <2>2 DEF Limiting, Window
  <2>4. \A n \in Window(clock) : n \in lists[current] \/ n = h.request
    BY <1>1 DEF AloneOK
  <2>5. AloneOK(thread[t])'
    BY <2>1, <2>3, <2>4 DEF AloneOK, Idle
  <2>. QED  BY <1>1, <1>3, <2>3, <2>5
<1>11. CASE Tick
  <2>1. clock' = clock + 1 /\ UNCHANGED <<lists, current, thread, admitted>>
    BY <1>11 DEF Tick
  <2>2. LimiterTypes' /\ clock <= clock' /\ clock' \in Nat
    BY <1>1, <2>1
  <2>3. Window(clock)' = Window(clock')
    BY <2>1 DEF Window
  <2>4. Window(clock') \subseteq Window(clock) /\ Cardinality(Window(clock')) <= Cardinality(Window(clock))
    BY <1>1, <2>2, WindowShrinks
  <2>5. Cardinality(Window(clock')) \in Nat
    BY <1>1, <2>2, WindowFinite
  <2>6. h.pc \in {"filtering", "counting"} => h.now \in Nat
    BY <1>1 DEF Limiting, Idle
  <2>7. Window(h.now)' = Window(h.now)
    BY <2>1 DEF Window
  <2>8. AloneOK(thread[t])'
    BY <1>1, <1>2, <2>1, <2>2, <2>3, <2>4, <2>5, <2>6, <2>7 DEF AloneOK
  <2>. QED  BY <1>1, <1>2, <1>3, <2>2, <2>3, <2>4, <2>5, <2>8
<1>. QED  BY <1>4, <1>5, <1>6, <1>7, <1>8, <1>9, <1>10, <1>11 DEF Passes

\* A thread that another is not yet past the limiter of does not start.
LEMMA AloneNext ==
  ASSUME AloneInv, OneAtATime, OneAtATime', [Next]_vars
  PROVE  AloneInv'
<1>1. PICK t \in Threads : AloneAt(t)
  BY DEF AloneInv
<1>2. CASE Passes(t) \/ Tick \/ UNCHANGED vars
  BY <1>1, <1>2, AloneStep DEF AloneInv
<1>3. ASSUME NEW u \in Threads, u # t, Passes(u)
      PROVE  AloneInv'
  <2>1. thread \in [Threads -> Limiting] /\ thread[u] = Idle /\ thread[u].pc = "idle"
    BY <1>1, <1>3 DEF AloneAt, LimiterTypes, Idle
  <2>2. thread' = [thread EXCEPT ![u] = [pc |-> "filtering", list |-> current, now |-> Now]]
    BY <1>3, <2>1 DEF Passes, FilterStart, FilterEnd, Refuse, Admit, RegisterStart, RegisterEnd
  <2>3. thread'[u] # Idle /\ thread'[t] = thread[t]
    BY <1>3, <2>1, <2>2 DEF Idle
  <2>4. thread[t] = Idle
    BY <1>3, <2>3 DEF OneAtATime
  <2>5. AloneAt(u)
    BY <1>1, <2>1, <2>4 DEF AloneAt
  <2>. QED  BY <1>3, <2>5, AloneStep DEF AloneInv
<1>. QED  BY <1>2, <1>3 DEF Next, Passes

LEMMA AloneInvariant == Spec /\ []OneAtATime => []AloneInv
<1>1. Init => AloneInv
  BY AloneInitial
<1>2. AloneInv /\ OneAtATime /\ OneAtATime' /\ [Next]_vars => AloneInv'
  BY AloneNext
<1>. QED  BY <1>1, <1>2, PTL DEF Spec

\* What a thread is refused for was admitted in the window before it asked.
LEMMA RefusalStep ==
  ASSUME AloneInv, NEW t \in Threads, [Next]_vars, thread[t].pc = "counting", thread'[t] = Idle
  PROVE  Cardinality(Window(thread[t].now)) >= RATE_LIMIT_MAX
<1>1. LimiterTypes /\ AloneOK(thread[t]) /\ thread[t] \in Limiting /\ RATE_LIMIT_MAX \in Nat
  <2>1. PICK u \in Threads : AloneAt(u)
    BY DEF AloneInv
  <2>2. thread[t] # Idle
    BY DEF Idle
  <2>3. t = u
    BY <2>1, <2>2 DEF AloneAt
  <2>. QED  BY <2>1, <2>3, LimiterAssumption DEF AloneAt, LimiterTypes
<1>2. thread'[t] # thread[t]
  BY DEF Idle
<1>3. Refuse(t)
  <2>1. PICK u \in Threads : Passes(u)
    BY <1>2 DEF Next, Passes, Tick, vars
  <2>2. \E h \in {thread'[u]} : thread' = [thread EXCEPT ![u] = h]
    BY <1>1, <2>1 DEF Passes, FilterStart, FilterEnd, Refuse, Admit, RegisterStart, RegisterEnd, LimiterTypes
  <2>3. u = t
    BY <1>1, <1>2, <2>2 DEF LimiterTypes
  <2>4. thread'[t].pc = "idle" /\ thread[t].pc = "counting"
    BY DEF Idle
  <2>. QED  BY <1>1, <2>1, <2>3, <2>4 DEF Passes, FilterStart, FilterEnd, Admit, RegisterStart, RegisterEnd,
       Idle, LimiterTypes
<1>4. thread[t].now \in Nat /\ lists[current] \subseteq Window(thread[t].now)
  BY <1>1 DEF AloneOK, Limiting, Idle
<1>5. Cardinality(lists[current]) >= RATE_LIMIT_MAX
  BY <1>3 DEF Refuse, Full
<1>6. IsFiniteSet(Window(thread[t].now)) /\ Cardinality(Window(thread[t].now)) \in Nat
  BY <1>1, <1>4, WindowFinite DEF LimiterTypes
<1>7. Cardinality(lists[current]) <= Cardinality(Window(thread[t].now)) /\ Cardinality(lists[current]) \in Nat
  BY <1>4, <1>6, FS_Subset, FS_CardinalityType
<1>. QED  BY <1>1, <1>5, <1>6, <1>7

\* The service's limiter is the limiter: no request goes round it.
THEOREM LimiterInService == SessionsSpec => Spec
<1>1. SessionsInit => Init
  BY DEF SessionsInit
<1>2. [SessionsNext]_sessionsVars => [Next]_vars
  <2>. SUFFICES ASSUME [SessionsNext]_sessionsVars
                PROVE  [Next]_vars
    OBVIOUS
  <2>1. ASSUME NEW t \in Threads, NEW q \in Questions, NEW token \in {"valid", "expired"}, Post(t, q, token)
        PROVE  [Next]_vars
    BY <2>1 DEF Post, Next, vars, limiterVars
  <2>2. ASSUME NEW t \in Threads, Limit(t)
        PROVE  [Next]_vars
    BY <2>2 DEF Limit, Next
  <2>3. ASSUME NEW t \in Threads, Route(t) \/ Respond(t)
        PROVE  [Next]_vars
    BY <2>3 DEF Route, Respond, limiterVars, vars
  <2>4. CASE ClockTicks
    BY <2>4 DEF ClockTicks, Next
  <2>5. ASSUME NEW s \in Sessions, Interacts(s) \/ Begin(s) \/ Script(s)
        PROVE  [Next]_vars
    BY <2>5 DEF Interacts, Click, Type, ClearChat, Refresh, Navigate, Interaction, Begin, Script, Sidebar,
       View, Fetch, Cached, Submit, Answered, Render, Join, RunOnly, limiterVars, vars
  <2>6. ASSUME NEW w \in Workers, Agent(w)
        PROVE  [Next]_vars
    BY <2>6 DEF Agent, limiterVars, vars
  <2>7. CASE World \/ UNCHANGED sessionsVars
    BY <2>7 DEF World, sessionsVars, limiterVars, vars
  <2>. QED  BY <2>1, <2>2, <2>3, <2>4, <2>5, <2>6, <2>7 DEF SessionsNext, Interacts, Views
<1>. QED  BY <1>1, <1>2, PTL DEF SessionsSpec, Spec

\* Whatever the number of threads, if requests pass the limiter one at a time
\* then no window of the contract's length ever has more requests than the
\* contract's limit (_is_chat_rate_limited, _register_chat_request).
THEOREM LimitIsKept == SessionsSpec /\ []OneAtATime => []RollingLimit
<1>1. AloneInv => RollingLimit
  BY DEF AloneInv, AloneAt, RollingLimit
<1>. QED  BY <1>1, AloneInvariant, LimiterInService, PTL

\* And then no request is refused that the contract would admit.
THEOREM RefusalsAreEarned == SessionsSpec /\ []OneAtATime => RefusalEarned
<1>1. AloneInv /\ [Next]_vars =>
        [\A t \in Threads : thread[t].pc = "counting" /\ thread'[t] = Idle
            => Cardinality(Window(thread[t].now)) >= RATE_LIMIT_MAX]_vars
  BY RefusalStep
<1>2. SessionsSpec /\ []OneAtATime => []AloneInv /\ [][Next]_vars
  BY AloneInvariant, LimiterInService, PTL DEF Spec
<1>. QED  BY <1>1, <1>2, PTL DEF RefusalEarned

-----------------------------------------------------------------------------
(***************************************************************************)
(* The limiter, when requests overlap in it but no request is lost.        *)
(***************************************************************************)

\* While a thread rebinds the list no other rebinds it or appends to it: what
\* is left of the race is that threads count before they register.
ListHeld ==
    \A t, u \in Threads :
       thread[t].pc = "filtering" /\ thread[u].pc \in {"filtering", "appending"} => t = u

\* Every thread that filters or appends has the list that the name is bound to,
\* and a request of the window is in it or about to be.
HeldOK ==
    /\ \A t \in Threads : thread[t].pc \in {"filtering", "appending"} => thread[t].list = current
    /\ \A t \in Threads : thread[t].pc = "filtering" => thread[t].now <= clock
    /\ \A t \in Threads : thread[t].pc = "appending" => thread[t].request \in 1..Len(admitted)
    /\ \A n \in Window(clock) : n \in lists[current] \/ \E t \in Holding("appending") : n = thread[t].request

\* The requests of the window and those that were admitted but have no time yet.
WithinOvershoot ==
    Cardinality(Window(clock)) + Cardinality(Holding("registering"))
       <= RATE_LIMIT_MAX - 1 + Cardinality(Threads)

HeldInv == LimiterTypes /\ HeldOK /\ WithinOvershoot

LEMMA HoldingFinite ==
  ASSUME NEW pc
  PROVE  IsFiniteSet(Threads) /\ IsFiniteSet(Holding(pc)) /\ Cardinality(Holding(pc)) \in Nat
<1>1. IsFiniteSet(Threads)
  BY GatewayAssumption, SessionsAssumption, FS_Subset
<1>2. Holding(pc) \subseteq Threads
  BY DEF Holding
<1>. QED  BY <1>1, <1>2, FS_Subset, FS_CardinalityType

LEMMA HeldInitial ==
  ASSUME Init
  PROVE  HeldInv
<1>1. Cardinality(Threads) \in Nat \ {0} /\ RATE_LIMIT_MAX \in Nat \ {0}
  BY LimiterAssumption
<1>2. \A t \in Threads : thread[t].pc = "idle"
  BY DEF Init, Idle
<1>3. Window(clock) = {} /\ Holding("registering") = {} /\ Cardinality({}) = 0
  BY <1>2, FS_EmptySet DEF Init, Window, Holding
<1>4. LimiterTypes
  BY <1>1 DEF Init, LimiterTypes, Limiting, Objects
<1>5. HeldOK
  BY <1>2, <1>3 DEF HeldOK
<1>6. WithinOvershoot
  BY <1>1, <1>3 DEF WithinOvershoot
<1>. QED  BY <1>4, <1>5, <1>6 DEF HeldInv

\* What the steps do to one thread and to the others.
LEMMA StepOf ==
  ASSUME LimiterTypes, NEW t \in Threads, Passes(t)
  PROVE  /\ \A u \in Threads \ {t} : thread'[u] = thread[u]
         /\ \A pc : Holding(pc)' = IF thread'[t].pc = pc THEN Holding(pc) \cup {t} ELSE Holding(pc) \ {t}
<1>1. \E h \in {thread'[t]} : thread' = [thread EXCEPT ![t] = h]
  BY DEF Passes, FilterStart, FilterEnd, Refuse, Admit, RegisterStart, RegisterEnd, LimiterTypes
<1>2. DOMAIN thread = Threads /\ \A u \in Threads \ {t} : thread'[u] = thread[u]
  BY <1>1 DEF LimiterTypes
<1>3. ASSUME NEW pc
      PROVE  Holding(pc)' = IF thread'[t].pc = pc THEN Holding(pc) \cup {t} ELSE Holding(pc) \ {t}
  BY <1>2 DEF Holding
<1>. QED  BY <1>2, <1>3

\* While the list is not full there is room for all the threads but one.
LEMMA AdmitFits ==
  ASSUME LimiterTypes, HeldOK, NEW t \in Threads, Admit(t)
  PROVE  WithinOvershoot'
<1>. DEFINE late == Holding("appending")
            open == Holding("registering") \cup {t}
            requests == {thread[u].request : u \in late}
<1>1. /\ UNCHANGED <<lists, current, admitted, clock>> /\ thread[t].pc = "counting" /\ ~Full
      /\ thread' = [thread EXCEPT ![t] = [pc |-> "registering"]]
  BY DEF Admit
<1>2. Holding("registering")' = open
  <2>1. Passes(t) /\ thread'[t].pc = "registering"
    BY <1>1 DEF Passes, LimiterTypes
  <2>. QED  BY <2>1, StepOf
<1>3. Window(clock)' = Window(clock) /\ Window(clock) \subseteq lists[current] \cup requests
  BY <1>1 DEF HeldOK, Window
<1>4. /\ IsFiniteSet(late) /\ Cardinality(late) \in Nat /\ IsFiniteSet(Threads)
      /\ IsFiniteSet(Holding("registering"))
  BY HoldingFinite
<1>5. IsFiniteSet(requests) /\ Cardinality(requests) <= Cardinality(late) /\ Cardinality(requests) \in Nat
  <2>. DEFINE f == [u \in late |-> thread[u].request]
  <2>1. f \in Surjection(late, requests)
    BY DEF Surjection
  <2>. HIDE DEF f, late, requests
  <2>. QED  BY <1>4, <2>1, FS_Surjection, FS_CardinalityType
<1>6. IsFiniteSet(lists[current]) /\ Cardinality(lists[current]) \in Nat
  <2>1. lists[current] \subseteq 1..Len(admitted) /\ IsFiniteSet(1..Len(admitted))
    BY FS_Interval DEF LimiterTypes
  <2>. QED  BY <2>1, FS_Subset, FS_CardinalityType
<1>7. RATE_LIMIT_MAX \in Nat /\ Cardinality(lists[current]) <= RATE_LIMIT_MAX - 1
  BY <1>1, <1>6, LimiterAssumption DEF Full
<1>8. Cardinality(Window(clock)) <= Cardinality(lists[current]) + Cardinality(requests)
  <2>1. /\ IsFiniteSet(lists[current] \cup requests)
        /\ Cardinality(lists[current] \cup requests)
             = Cardinality(lists[current]) + Cardinality(requests) - Cardinality(lists[current] \cap requests)
    BY <1>5, <1>6, FS_Union
  <2>2. Cardinality(lists[current] \cap requests) \in Nat
    BY <1>5, FS_Intersection, FS_CardinalityType
  <2>3. Cardinality(Window(clock)) <= Cardinality(lists[current] \cup requests)
    BY <1>3, <2>1, FS_Subset
  <2>4. Cardinality(Window(clock)) \in Nat /\ Cardinality(lists[current] \cup requests) \in Nat
    BY <1>3, <2>1, FS_Subset, FS_CardinalityType
  <2>. QED  BY <1>5, <1>6, <2>1, <2>2, <2>3, <2>4
<1>9. Cardinality(late) + Cardinality(open) <= Cardinality(Threads)
  <2>1. late \cup open \subseteq Threads /\ late \cap open = {}
    BY <1>1 DEF Holding
  <2>2. IsFiniteSet(open) /\ Cardinality(open) \in Nat /\ Cardinality({}) = 0
    BY <1>4, OneMore, FS_EmptySet
  <2>3. Cardinality(late \cup open) = Cardinality(late) + Cardinality(open)
    <3>1. Cardinality(late \cup open) = Cardinality(late) + Cardinality(open) - Cardinality(late \cap open)
      BY <1>4, <2>2, FS_Union
    <3>. HIDE DEF late, open
    <3>2. Cardinality(late \cap open) = Cardinality({})
      BY <2>1, Zenon
    <3>. QED  BY <1>4, <2>2, <3>1, <3>2
  <2>4. Cardinality(late \cup open) <= Cardinality(Threads)
    BY <1>4, <2>1, FS_Subset
  <2>. QED  BY <2>3, <2>4
<1>10. /\ Cardinality(Window(clock)) \in Nat /\ Cardinality(open) \in Nat /\ Cardinality(Threads) \in Nat
  BY <1>4, WindowFinite, OneMore, FS_CardinalityType DEF LimiterTypes
<1>11. Cardinality(Window(clock)) + Cardinality(open) <= RATE_LIMIT_MAX - 1 + Cardinality(Threads)
  BY <1>4, <1>5, <1>6, <1>7, <1>8, <1>9, <1>10
<1>. QED  BY <1>2, <1>3, <1>11 DEF WithinOvershoot

LEMMA HeldStep ==
  ASSUME HeldInv, ListHeld, NEW t \in Threads, Passes(t)
  PROVE  HeldInv'
<1>. USE DEF LimiterTypes
<1>. DEFINE h == thread[t]
<1>1. /\ LimiterTypes /\ HeldOK /\ WithinOvershoot /\ h \in Limiting
      /\ RATE_LIMIT_MAX \in Nat \ {0} /\ Cardinality(Threads) \in Nat \ {0}
      /\ \A u \in Threads \ {t} : thread'[u] = thread[u]
      /\ \A pc : Holding(pc)' = IF thread'[t].pc = pc THEN Holding(pc) \cup {t} ELSE Holding(pc) \ {t}
  BY StepOf, LimiterAssumption DEF HeldInv
<1>2. /\ IsFiniteSet(Window(clock)) /\ Cardinality(Window(clock)) \in Nat
      /\ IsFiniteSet(Holding("registering")) /\ Cardinality(Holding("registering")) \in Nat
  BY <1>1, WindowFinite, HoldingFinite
\* A step that takes no place and dates no request.
<1>3. ASSUME Holding("registering")' = Holding("registering"), Window(clock)' = Window(clock)
      PROVE  WithinOvershoot'
  BY <1>1, <1>3 DEF WithinOvershoot
<1>4. CASE FilterStart(t)
  <2>1. UNCHANGED <<lists, current, admitted, clock>> /\ h = Idle
        /\ thread' = [thread EXCEPT ![t] = [pc |-> "filtering", list |-> current, now |-> clock]]
    BY <1>4 DEF FilterStart, Now
  <2>2. LimiterTypes' /\ thread'[t] = [pc |-> "filtering", list |-> current, now |-> clock]
        /\ Window(clock)' = Window(clock) /\ h.pc = "idle"
    BY <1>1, <2>1 DEF Limiting, Window, Idle
  <2>3. Holding("registering")' = Holding("registering") /\ Holding("appending")' = Holding("appending")
    <3>1. t \notin Holding("registering") /\ t \notin Holding("appending")
      BY <2>2 DEF Holding
    <3>2. thread'[t].pc = "filtering"
      BY <2>2
    <3>3. /\ Holding("registering")' = Holding("registering") \ {t}
          /\ Holding("appending")' = Holding("appending") \ {t}
      BY <1>1, <3>2
    <3>. QED  BY <3>1, <3>3
  <2>4. HeldOK'
    BY <1>1, <2>1, <2>2, <2>3 DEF HeldOK, Holding
  <2>. QED  BY <1>3, <2>2, <2>3, <2>4 DEF HeldInv
<1>5. CASE FilterEnd(t)
  <2>1. h \in [pc : {"filtering"}, list : Objects, now : Nat]
    BY <1>1, <1>5 DEF FilterEnd, Limiting, Idle
  <2>2. h.list = current /\ h.now \in Nat /\ h.now <= clock
    BY <1>1, <2>1 DEF HeldOK
  <2>3. \A u \in Threads \ {t} : thread[u].pc \notin {"filtering", "appending"}
    BY <2>1 DEF ListHeld
  <2>4. \A n \in Window(clock) : n \in lists[current]
    BY <1>1, <2>1, <2>3 DEF HeldOK, Holding
  <2>. DEFINE kept == {n \in lists[current] : Unexpired(n, h.now)}
              new == Min(Objects \ {current})
  <2>5. Live(current, thread) = {current}
    BY <2>1, <2>2, <2>3 DEF Live
  <2>6. /\ thread' = [thread EXCEPT ![t] = [pc |-> "counting", now |-> h.now]] /\ current' = new
        /\ lists' = [o \in Objects |-> IF o = new THEN kept
                                       ELSE IF o \in Live(new, thread') THEN lists[o] ELSE {}]
        /\ UNCHANGED <<admitted, clock>>
    BY <1>5, <2>2, <2>5 DEF FilterEnd
  <2>7. new \in Objects
    BY <1>1, NewList
  <2>8. kept \in SUBSET (1..Len(admitted))
    BY <1>1
  <2>9. \A n \in Window(clock) : n \in kept
    <3>1. Window(clock) \subseteq Window(h.now)
      BY <1>1, <2>2, WindowShrinks
    <3>2. \A n \in Window(h.now) : Unexpired(n, h.now)
      BY DEF Window, Unexpired
    <3>. QED  BY <2>4, <3>1, <3>2 DEF kept
  <2>. HIDE DEF kept, new
  <2>10. lists'[current'] = kept /\ thread'[t] = [pc |-> "counting", now |-> h.now]
    BY <1>1, <2>6, <2>7
  <2>11. LimiterTypes'
    <3>1. lists' \in [Objects -> SUBSET (1..Len(admitted'))]
      BY <1>1, <2>6, <2>8
    <3>2. thread' \in [Threads -> Limiting]
      BY <1>1, <2>2, <2>6 DEF Limiting
    <3>. QED  BY <1>1, <2>6, <2>7, <3>1, <3>2
  <2>12. Window(clock)' = Window(clock) /\ Holding("registering")' = Holding("registering")
    BY <1>1, <2>1, <2>6, <2>10 DEF Window, Holding
  <2>13. \A u \in Threads : thread'[u].pc \notin {"filtering", "appending"}
    BY <1>1, <2>3, <2>10
  <2>14. HeldOK'
    BY <2>9, <2>10, <2>12, <2>13 DEF HeldOK
  <2>. QED  BY <1>3, <2>11, <2>12, <2>14 DEF HeldInv
<1>6. CASE Refuse(t)
  <2>1. UNCHANGED <<lists, current, admitted, clock>> /\ h.pc = "counting" /\ thread' = [thread EXCEPT ![t] = Idle]
    BY <1>6 DEF Refuse
  <2>2. LimiterTypes' /\ thread'[t] = Idle /\ Idle.pc = "idle" /\ Window(clock)' = Window(clock)
    BY <1>1, <2>1 DEF Limiting, Window, Idle
  <2>3. Holding("registering")' = Holding("registering") /\ Holding("appending")' = Holding("appending")
    BY <1>1, <2>1, <2>2 DEF Holding
  <2>4. HeldOK'
    BY <1>1, <2>1, <2>2, <2>3 DEF HeldOK, Holding
  <2>. QED  BY <1>3, <2>2, <2>3, <2>4 DEF HeldInv
<1>7. CASE Admit(t)
  <2>1. /\ UNCHANGED <<lists, current, admitted, clock>> /\ h.pc = "counting"
        /\ thread' = [thread EXCEPT ![t] = [pc |-> "registering"]]
    BY <1>7 DEF Admit
  <2>2. LimiterTypes' /\ thread'[t] = [pc |-> "registering"] /\ Window(clock)' = Window(clock)
    BY <1>1, <2>1 DEF Limiting, Window
  <2>3. Holding("appending")' = Holding("appending")
    BY <1>1, <2>1, <2>2 DEF Holding
  <2>4. HeldOK'
    BY <1>1, <2>1, <2>2, <2>3 DEF HeldOK, Holding
  <2>. QED  BY <1>1, <1>7, <2>2, <2>4, AdmitFits DEF HeldInv
<1>8. CASE RegisterStart(t)
  <2>. DEFINE n == Len(admitted) + 1
  <2>1. /\ h.pc = "registering" /\ admitted' = Append(admitted, clock) /\ UNCHANGED <<lists, current, clock>>
        /\ thread' = [thread EXCEPT ![t] = [pc |-> "appending", list |-> current, request |-> n]]
    BY <1>8 DEF RegisterStart
  <2>2. /\ Len(admitted) \in Nat /\ Len(admitted') = n /\ n \in Nat
        /\ admitted' \in Seq(Nat) /\ \A i \in 1..Len(admitted) : admitted'[i] = admitted[i]
    BY <1>1, <2>1
  <2>3. thread'[t] = [pc |-> "appending", list |-> current, request |-> n]
    BY <1>1, <2>1
  <2>4. LimiterTypes'
    <3>1. lists' \in [Objects -> SUBSET (1..Len(admitted'))]
      BY <1>1, <2>1, <2>2
    <3>2. thread' \in [Threads -> Limiting]
      BY <1>1, <2>1, <2>2 DEF Limiting
    <3>. QED  BY <1>1, <2>1, <2>2, <3>1, <3>2
  <2>5. Window(clock)' \subseteq Window(clock) \cup {n}
    BY <2>1, <2>2 DEF Window
  <2>6. /\ Holding("registering")' = Holding("registering") \ {t} /\ t \in Holding("registering")
        /\ Holding("appending")' = Holding("appending") \cup {t}
    BY <1>1, <2>1, <2>3 DEF Holding
  <2>7. WithinOvershoot'
    <3>1. /\ Cardinality(Window(clock)') <= Cardinality(Window(clock)) + 1
          /\ Cardinality(Window(clock)') \in Nat
      <4>1. /\ Cardinality(Window(clock) \cup {n}) <= Cardinality(Window(clock)) + 1
            /\ IsFiniteSet(Window(clock) \cup {n}) /\ Cardinality(Window(clock) \cup {n}) \in Nat
        BY <1>2, OneMore
      <4>2. Cardinality(Window(clock)') <= Cardinality(Window(clock) \cup {n}) /\ Cardinality(Window(clock)') \in Nat
        BY <2>5, <4>1, FS_Subset, FS_CardinalityType
      <4>. QED  BY <1>2, <4>1, <4>2
    <3>2. Cardinality(Holding("registering")') = Cardinality(Holding("registering")) - 1
      BY <1>2, <2>6, FS_RemoveElement
    <3>. QED  BY <1>1, <1>2, <3>1, <3>2 DEF WithinOvershoot
  <2>8. HeldOK'
    <3>1. \A u \in Threads : thread'[u].pc \in {"filtering", "appending"} => thread'[u].list = current'
      BY <1>1, <2>1, <2>3 DEF HeldOK
    <3>2. \A u \in Threads : thread'[u].pc = "filtering" => thread'[u].now <= clock'
      BY <1>1, <2>1, <2>3 DEF HeldOK
    <3>3. \A u \in Threads : thread'[u].pc = "appending" => thread'[u].request \in 1..Len(admitted')
      BY <1>1, <2>2, <2>3 DEF HeldOK
    <3>4. \A m \in Window(clock)' : m \in lists'[current'] \/ \E u \in Holding("appending")' : m = thread'[u].request
      <4>1. SUFFICES ASSUME NEW m \in Window(clock)'
                     PROVE  m \in lists'[current'] \/ \E u \in Holding("appending")' : m = thread'[u].request
        OBVIOUS
      <4>2. CASE m = n
        BY <2>3, <2>6, <4>2
      <4>3. CASE m # n
        <5>1. m \in lists[current] \/ \E u \in Holding("appending") : m = thread[u].request
          BY <1>1, <2>5, <4>3 DEF HeldOK
        <5>2. \A u \in Holding("appending") : u \in Threads \ {t}
          BY <2>1 DEF Holding
        <5>. QED  BY <1>1, <2>1, <2>6, <5>1, <5>2
      <4>. QED  BY <4>2, <4>3
    <3>. QED  BY <3>1, <3>2, <3>3, <3>4 DEF HeldOK
  <2>. QED  BY <2>4, <2>7, <2>8 DEF HeldInv
<1>9. CASE RegisterEnd(t)
  <2>1. /\ h.pc = "appending" /\ lists' = [lists EXCEPT ![h.list] = @ \cup {h.request}]
        /\ thread' = [thread EXCEPT ![t] = Idle] /\ UNCHANGED <<current, admitted, clock>>
    BY <1>9 DEF RegisterEnd
  <2>2. h.list = current /\ h.request \in 1..Len(admitted)
    BY <1>1, <2>1 DEF HeldOK
  <2>3. /\ LimiterTypes' /\ thread'[t] = Idle /\ Idle.pc = "idle" /\ Window(clock)' = Window(clock)
        /\ lists'[current] = lists[current] \cup {h.request}
    BY <1>1, <2>1, <2>2 DEF Limiting, Window, Idle
  <2>4. /\ Holding("registering")' = Holding("registering")
        /\ Holding("appending")' = Holding("appending") \ {t}
    BY <1>1, <2>1, <2>3 DEF Holding
  <2>5. \A m \in Window(clock)' : m \in lists'[current'] \/ \E u \in Holding("appending")' : m = thread'[u].request
    <3>1. SUFFICES ASSUME NEW m \in Window(clock)
                   PROVE  m \in lists'[current'] \/ \E u \in Holding("appending")' : m = thread'[u].request
      BY <2>3
    <3>2. m \in lists[current] \/ \E u \in Holding("appending") : m = thread[u].request
      BY <1>1 DEF HeldOK
    <3>3. \A u \in Holding("appending") : u = t \/ (u \in Threads \ {t} /\ u \in Holding("appending")')
      BY <2>4 DEF Holding
    <3>. QED  BY <1>1, <2>1, <2>3, <3>2, <3>3
  <2>6. HeldOK'
    <3>1. \A u \in Threads : thread'[u].pc \in {"filtering", "appending"} =>
             u \in Threads \ {t} /\ thread'[u] = thread[u]
      BY <1>1, <2>3
    <3>. QED  BY <1>1, <2>1, <2>5, <3>1 DEF HeldOK
  <2>. QED  BY <1>3, <2>3, <2>4, <2>6 DEF HeldInv
<1>. QED  BY <1>4, <1>5, <1>6, <1>7, <1>8, <1>9 DEF Passes

LEMMA HeldNext ==
  ASSUME HeldInv, ListHeld, [Next]_vars
  PROVE  HeldInv'
<1>1. CASE UNCHANGED vars
  BY <1>1 DEF HeldInv, LimiterTypes, HeldOK, WithinOvershoot, Holding, Window, vars
<1>2. CASE Tick
  <2>1. clock' = clock + 1 /\ UNCHANGED <<lists, current, thread, admitted>>
    BY <1>2 DEF Tick
  <2>2. /\ clock \in Nat /\ clock' \in Nat /\ clock <= clock' /\ admitted \in Seq(Nat)
        /\ RATE_LIMIT_MAX \in Nat /\ Cardinality(Threads) \in Nat
    BY <2>1, LimiterAssumption DEF HeldInv, LimiterTypes
  <2>3. Window(clock)' = Window(clock')
    BY <2>1 DEF Window
  <2>4. Window(clock') \subseteq Window(clock) /\ Cardinality(Window(clock')) <= Cardinality(Window(clock))
    BY <2>2, WindowShrinks
  <2>5. /\ Cardinality(Window(clock')) \in Nat /\ Cardinality(Window(clock)) \in Nat
        /\ Cardinality(Holding("registering")) \in Nat
    BY <2>2, WindowFinite, HoldingFinite
  <2>6. \A pc : Holding(pc)' = Holding(pc)
    BY <2>1 DEF Holding
  <2>7. WithinOvershoot'
    BY <2>2, <2>3, <2>4, <2>5, <2>6 DEF HeldInv, WithinOvershoot
  <2>8. HeldOK'
    <3>1. \A u \in Threads : thread[u].pc = "filtering" => thread[u].now <= clock'
      <4>1. ASSUME NEW u \in Threads, thread[u].pc = "filtering"
            PROVE  thread[u].now <= clock'
        <5>1. thread[u].now \in Nat /\ thread[u].now <= clock
          BY <4>1 DEF HeldInv, HeldOK, LimiterTypes, Limiting, Idle
        <5>. QED  BY <2>2, <5>1
      <4>. QED  BY <4>1
    <3>. QED  BY <2>1, <2>3, <2>4, <2>6, <3>1 DEF HeldInv, HeldOK
  <2>9. LimiterTypes'
    BY <2>1, <2>2 DEF HeldInv, LimiterTypes
  <2>. QED  BY <2>7, <2>8, <2>9 DEF HeldInv
<1>3. ASSUME NEW t \in Threads, Passes(t)
      PROVE  HeldInv'
  BY <1>3, HeldStep
<1>. QED  BY <1>1, <1>2, <1>3 DEF Next, Passes

\* The requests of a window are fewer than the limit and the threads together.
Overshoot == Cardinality(Window(clock)) < RATE_LIMIT_MAX + Cardinality(Threads)

\* Where no thread rebinds the list under another that rebinds it or appends to
\* it, the limit is exceeded by less than a request for each thread, however the
\* threads overlap between their count and their registration
\* (_is_chat_rate_limited, _register_chat_request).
THEOREM OvershootIsBounded == SessionsSpec /\ []ListHeld => []Overshoot
<1>1. Init => HeldInv
  BY HeldInitial
<1>2. HeldInv /\ ListHeld /\ [Next]_vars => HeldInv'
  BY HeldNext
<1>3. HeldInv => Overshoot
  <2>1. SUFFICES ASSUME HeldInv PROVE Overshoot
    OBVIOUS
  <2>2. /\ Cardinality(Window(clock)) \in Nat /\ Cardinality(Holding("registering")) \in Nat
        /\ RATE_LIMIT_MAX \in Nat /\ Cardinality(Threads) \in Nat
    BY <2>1, WindowFinite, HoldingFinite, LimiterAssumption DEF HeldInv, LimiterTypes
  <2>. QED  BY <2>1, <2>2 DEF HeldInv, WithinOvershoot, Overshoot
<1>. QED  BY <1>1, <1>2, <1>3, LimiterInService, PTL DEF Spec
=============================================================================
