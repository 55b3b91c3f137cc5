--------------------------- MODULE AgentSessions ---------------------------
(* The two programs that import the agent, each with its own process: the    *)
(* FastAPI service (apps/api), whose threads pass the limiter and answer a   *)
(* client that keeps the conversation, and the Streamlit page (app.py),      *)
(* which keeps it in the session and shares caches between sessions.        *)
(*                                                                          *)
(* Streamlit runs app.py from the top for every interaction. An interaction *)
(* during a run ends that run at its next call of Streamlit; interactions   *)
(* that come before that are handed to one run together.                    *)
EXTENDS AgentGateway, ChatRateLimit

CONSTANTS Sessions,    \* sessions of the page; Threads are those of the service
          Statement,   \* the tool whose answer offers a download
          Short,       \* the tools whose whole answer may pass as a text turn
          Questions,   \* what is asked
          MaxAsked     \* bound of the run, per worker: its interactions or requests

ReplyTools == Tools \cup {"assistant", "unknown", None}
Entries == [id : Nat, question : Questions, since : Nat]
Replies == [at : {"done"}, tool : ReplyTools, figures : SUBSET Nat, raised : BOOLEAN]

ASSUME SessionsAssumption ==
  /\ Workers = Sessions \cup Threads /\ Sessions \cap Threads = {}
  /\ Statement \in Tools /\ Short \subseteq Tools /\ Statement \notin Short
  /\ Questions \subseteq Tools \cup {"unknown"}
  /\ MaxAsked \in [Workers -> Nat]
  /\ None \notin Replies /\ None \notin Entries
  /\ None \notin Tools /\ None \notin {{n} : n \in 0..MaxBooks}

VARIABLES program,  \* which of the two this process runs
          talk,     \* per worker: the conversation, in the session or at the client
          asked,    \* per worker: how many interactions or requests there were
          post,     \* per thread: the request it serves
          page,     \* per session: its state and that of its run
          wanted,   \* per session: the interactions that no run has taken up
          cache     \* st.cache_data of the page

pageVars == <<talk, asked, post, page, wanted, cache>>
limiterVars == <<lists, current, thread, admitted, clock>>
sessionsVars == <<gatewayVars, limiterVars, program, pageVars>>

User(n, question) == [role |-> "user", id |-> n, question |-> question]
Assistant(n, reply, since) ==
  [role |-> "assistant", id |-> n, tool |-> reply.tool, figures |-> reply.figures, since |-> since]

(* What the model may read in a history: the figures of the assistant's      *)
(* turns of the kinds that are sent as they are.                            *)
Carried(turns, kinds) ==
  UNION {turns[i].figures : i \in {j \in DOMAIN turns : turns[j].role = "assistant"
                                                       /\ turns[j].tool \in kinds}}

(***************************************************************************)
(* apps/api: POST /chat                                                    *)
(***************************************************************************)
Free == [status |-> "free"]

(* require_auth: a signed, unexpired token with a subject, and a secret to  *)
(* check it with.                                                           *)
Authenticated(token) == token = "valid" /\ env.secret

(* _looks_like_tool_output goes by pipes and length: texts and short lists  *)
(* pass, tables do not.                                                     *)
KeptByApi == Short \cup {"assistant", "unknown"}

Post(t, question, token) ==
  /\ program = "api" /\ asked[t] < MaxAsked[t] /\ post[t] = Free
  /\ asked' = [asked EXCEPT ![t] = @ + 1]
  /\ IF Authenticated(token)
     THEN /\ post' = [post EXCEPT ![t] = [status |-> "limited", question |-> question,
                                          token |-> token, since |-> books]]
          /\ FilterStart(t)
     ELSE UNCHANGED <<post, limiterVars>>
  /\ UNCHANGED <<gatewayVars, program, talk, page, wanted, cache>>

(* The limiter's steps; a 429 ends the request. *)
Limit(t) ==
  /\ program = "api"
  /\ FilterEnd(t) \/ Refuse(t) \/ Admit(t) \/ RegisterStart(t) \/ RegisterEnd(t)
  /\ post' = [post EXCEPT ![t] = IF thread'[t] # Idle THEN @
                                 ELSE IF thread[t].pc = "counting" THEN Free
                                 ELSE [@ EXCEPT !.status = "admitted"]]
  /\ UNCHANGED <<gatewayVars, program, talk, asked, page, wanted, cache>>

(* filter_history, then route_query. The client sent all that it has. *)
Route(t) ==
  /\ post[t].status = "admitted"
  /\ post' = [post EXCEPT ![t].status = "routed"]
  /\ RouteQuery(t, post[t].question, Carried(talk[t], KeptByApi))
  /\ UNCHANGED <<env, books, connected, logins, limiterVars, program, talk, asked, page, wanted, cache>>

(* The reply, or success false and an apology. *)
Respond(t) ==
  /\ post[t].status = "routed" /\ worker[t].at = "done"
  /\ talk' = [talk EXCEPT ![t] = @ \o <<User(asked[t], post[t].question),
                                        Assistant(asked[t], worker[t], post[t].since)>>]
  /\ post' = [post EXCEPT ![t] = Free]
  /\ Sets(t, Resting)
  /\ UNCHANGED <<env, books, connected, logins, limiterVars, program, asked, page, wanted, cache>>

ClockTicks ==
  /\ program = "api" /\ Tick
  /\ UNCHANGED <<gatewayVars, program, pageVars>>

(***************************************************************************)
(* app.py: interactions                                                    *)
(***************************************************************************)
Nothing == [ask |-> None, typed |-> None, clear |-> FALSE, refresh |-> FALSE, view |-> None]

Interaction(s, want) ==
  /\ program = "page" /\ asked[s] < MaxAsked[s]
  /\ asked' = [asked EXCEPT ![s] = @ + 1]
  /\ wanted' = [wanted EXCEPT ![s] = want]
  /\ UNCHANGED <<gatewayVars, limiterVars, program, talk, post, page, cache>>

Entry(s, question) == [id |-> asked[s] + 1, question |-> question, since |-> books]
Click(s, question) == Interaction(s, [wanted[s] EXCEPT !.ask = Entry(s, question)])
Type(s, question) == Interaction(s, [wanted[s] EXCEPT !.typed = Entry(s, question)])
ClearChat(s) == Interaction(s, [wanted[s] EXCEPT !.clear = TRUE])
(* To the other view; the item of the current one only starts another run. *)
Navigate(s, view) == view # page[s].view /\ Interaction(s, [wanted[s] EXCEPT !.view = view])
Refresh(s) == page[s].view = "dashboard" /\ Interaction(s, [wanted[s] EXCEPT !.refresh = TRUE])

(***************************************************************************)
(* app.py: a run                                                           *)
(***************************************************************************)
At(s, places) == program = "page" /\ page[s].at \in places
Turns(s, p) == page' = [page EXCEPT ![s] = p]
RunOnly == UNCHANGED <<env, books, connected, logins, limiterVars, program, asked, post, wanted>>

(* What a run leaves behind: nothing but the session's state.               *)
Ended(p) == [p EXCEPT !.at = "idle", !.query = None, !.want = Nothing, !.reply = None, !.again = FALSE,
                      !.shown = {}, !.refreshed = None]

(* A run starts, in place of the one that waits in a call of Streamlit. The *)
(* callbacks come first: _nav_view, _ask.                                   *)
Begin(s) ==
  /\ At(s, {"idle", "top", "view", "ready", "answered", "rendered"})
  /\ wanted[s] # Nothing
  /\ wanted' = [wanted EXCEPT ![s] = Nothing]
  /\ Turns(s, [Ended(page[s]) EXCEPT
                 !.at = "top", !.want = wanted[s],
                 !.pending = IF wanted[s].ask # None THEN wanted[s].ask ELSE @,
                 !.view = IF wanted[s].view # None THEN wanted[s].view ELSE @])
  /\ UNCHANGED <<gatewayVars, limiterVars, program, talk, asked, post, cache>>

\* mutant: the question is read and left where it was.
Popped_kept(p) == [p EXCEPT !.query = p.pending]

(* st.session_state.pop("_pending_query") *)
Popped(p) == [p EXCEPT !.query = p.pending, !.pending = None]

(* The question is popped; the sidebar clears the conversation and starts   *)
(* over, with no interaction left.                                          *)
Sidebar(s) ==
  /\ At(s, {"top"})
  /\ LET p == [Popped(page[s]) EXCEPT
                 !.view = IF page[s].pending # None THEN "assistant" ELSE @]
     IN IF page[s].want.clear
        THEN /\ talk' = [talk EXCEPT ![s] = <<>>]
             /\ Turns(s, [Ended(p) EXCEPT !.at = "top"])
        ELSE talk' = talk /\ Turns(s, [p EXCEPT !.at = "view"])
  /\ RunOnly /\ UNCHANGED <<worker, cache>>

Loading(s) == page[s].at \in {"data", "lists"}
Statements(turns) == {i \in DOMAIN turns : turns[i].role = "assistant" /\ turns[i].tool = Statement}

\* mutant: the lists stay.
Cleared_dataOnly == [cache EXCEPT !["data"] = None]

(* The two clears of Refresh; the export has none. *)
Cleared == [cache EXCEPT !["data"] = None, !["lists"] = None]

(* _render_dashboard_view with its Refresh, or _render_history, where each  *)
(* statement has its download.                                              *)
View(s) ==
  /\ At(s, {"view"})
  /\ LET dashboard == page[s].view = "dashboard"
         refresh == dashboard /\ page[s].want.refresh
     IN /\ cache' = IF refresh THEN Cleared ELSE cache
        /\ Turns(s, [page[s] EXCEPT
                       !.at = IF dashboard THEN "data"
                              ELSE IF Statements(talk[s]) # {} THEN "export" ELSE "ready",
                       !.refreshed = IF refresh
                                     THEN [at |-> books, alone |-> ~\E r \in Sessions : Loading(r)]
                                     ELSE None])
  /\ RunOnly /\ UNCHANGED <<worker, talk>>

Fetched(p, figures) ==
  [p EXCEPT !.shown = IF p.at = "export" THEN @ ELSE @ \cup figures,
            !.at = CASE p.at = "data" -> "lists"
                     [] p.at = "lists" -> "ready"
                     [] p.at = "export" -> IF p.reply # None THEN "rendered" ELSE "ready"]

(* What it computes: one read stands for all of them. *)
Computation == [Running("page", Statement, None) EXCEPT !.left = 1]

(* A function under st.cache_data: what it once returned, else it runs. *)
Fetch(s) ==
  /\ At(s, {"data", "lists", "export"}) /\ worker[s] = Resting
  /\ LET kept == cache[page[s].at]
     IN IF kept # None THEN Turns(s, Fetched(page[s], kept)) /\ worker' = worker
        ELSE Sets(s, Computation) /\ page' = page
  /\ RunOnly /\ UNCHANGED <<talk, cache>>

\* mutant: an export that fails is left out, as that to Excel is.
Stopped_caught(p) == IF p.at = "export" THEN Fetched(p, {}) ELSE Ended(p)

(* An exception that nothing catches ends the run.                          *)
Stopped(p) == Ended(p)

(* It returned, and is kept; or it raised, and nothing is.                  *)
Cached(s) ==
  /\ At(s, {"data", "lists", "export"}) /\ worker[s].at = "done"
  /\ IF worker[s].raised THEN Turns(s, Stopped(page[s])) /\ cache' = cache
     ELSE /\ Turns(s, Fetched(page[s], worker[s].figures))
          /\ cache' = [cache EXCEPT ![page[s].at] = worker[s].figures]
  /\ Sets(s, Resting)
  /\ RunOnly /\ UNCHANGED talk

\* mutant: the note stands for answers in text, and tables are kept.
KeptByPage_tables == Tools

(* _build_history: a tool's answer is a note. *)
KeptByPage == {None, "assistant", "unknown"}

\* mutant: a question that is already in the conversation is not repeated.
Put_once(turns, input) ==
  IF \E i \in DOMAIN turns : turns[i].role = "user" /\ turns[i].question = input.question
  THEN turns ELSE Append(turns, User(input.id, input.question))

(* st.session_state.messages.append *)
Put(turns, input) == Append(turns, User(input.id, input.question))

(* What was typed, or else the question of the click, joins the             *)
(* conversation and goes to route_query with the turns before it.           *)
Submit(s) ==
  /\ At(s, {"ready"})
  /\ LET p == page[s]
         input == IF p.want.typed # None THEN p.want.typed ELSE p.query
     IN IF input = None THEN Turns(s, Ended(p)) /\ UNCHANGED <<worker, talk>>
        ELSE /\ talk' = [talk EXCEPT ![s] = Put(@, input)]
             /\ Turns(s, [p EXCEPT !.at = "asking", !.view = "assistant", !.query = input,
                                   !.again = p.view = "dashboard"])
             /\ RouteQuery(s, input.question, Carried(talk[s], KeptByPage))
  /\ RunOnly /\ UNCHANGED cache

(* route_query returned, or raised: an apology. It is rendered. *)
Answered(s) ==
  /\ At(s, {"asking"}) /\ worker[s].at = "done"
  /\ Turns(s, [page[s] EXCEPT !.at = IF worker[s].tool = Statement THEN "answered" ELSE "rendered",
                             !.reply = worker[s]])
  /\ Sets(s, Resting)
  /\ RunOnly /\ UNCHANGED <<talk, cache>>

(* _render_assistant_result: a statement has its download below. *)
Render(s) ==
  /\ At(s, {"answered"})
  /\ Turns(s, [page[s] EXCEPT !.at = "export"])
  /\ RunOnly /\ UNCHANGED <<worker, talk, cache>>

(* The answer joins the conversation last; a question asked on the          *)
(* dashboard turns the page over to the assistant.                          *)
Join(s) ==
  /\ At(s, {"rendered"})
  /\ LET p == page[s]
     IN /\ talk' = [talk EXCEPT ![s] = Append(@, Assistant(p.query.id, p.reply, p.query.since))]
        /\ Turns(s, [Ended(p) EXCEPT !.at = IF p.again THEN "top" ELSE "idle"])
  /\ RunOnly /\ UNCHANGED <<worker, cache>>

Script(s) ==
  \/ Sidebar(s) \/ View(s) \/ Fetch(s) \/ Cached(s)
  \/ Submit(s) \/ Answered(s) \/ Render(s) \/ Join(s)

-----------------------------------------------------------------------------
Agent(w) == Answering(w) /\ UNCHANGED <<limiterVars, program, pageVars>>
World == BooksChange /\ UNCHANGED <<limiterVars, program, pageVars>>

SessionsInit ==
  /\ GatewayInit /\ Init
  /\ program \in {"api", "page"}
  /\ program = "page" => env.secret
  /\ talk = [w \in Workers |-> <<>>] /\ asked = [w \in Workers |-> 0]
  /\ post = [t \in Threads |-> Free]
  /\ page = [s \in Sessions |-> [at |-> "idle", view |-> "assistant", pending |-> None, query |-> None,
                                 want |-> Nothing, reply |-> None, again |-> FALSE,
                                 shown |-> {}, refreshed |-> None]]
  /\ wanted = [s \in Sessions |-> Nothing]
  /\ cache = [name \in {"data", "lists", "export"} |-> None]

SessionsNext ==
  \/ \E t \in Threads : \/ \E q \in Questions, token \in {"valid", "expired"} : Post(t, q, token)
                        \/ Limit(t) \/ Route(t) \/ Respond(t)
  \/ ClockTicks
  \/ \E s \in Sessions : \/ \E q \in Questions : Click(s, q) \/ Type(s, q)
                         \/ ClearChat(s) \/ Refresh(s)
                         \/ \E view \in {"assistant", "dashboard"} : Navigate(s, view)
                         \/ Begin(s) \/ Script(s)
  \/ \E w \in Workers : Agent(w)
  \/ World
SessionsSpec == SessionsInit /\ [][SessionsNext]_sessionsVars

(***************************************************************************)
(* Properties                                                              *)
(***************************************************************************)
Answers(w) == {i \in DOMAIN talk[w] : talk[w][i].role = "assistant"}

(* The type invariant. *)
Views == {"assistant", "dashboard"}
Wants == [ask : Entries \cup {None}, typed : Entries \cup {None}, clear : BOOLEAN, refresh : BOOLEAN,
          view : Views \cup {None}]
Reading(by, questions) == [at : {"reading", "connecting", "calling"}, by : by, tool : Tools,
                           question : questions, left : Nat \ {0}, figures : SUBSET Nat]
Naming == [at : {"reading", "connecting", "calling"}, by : {"rules"}, tool : {None},
           question : Questions, left : {1}, figures : {{}}]
Jobs == {Resting} \cup Replies
        \cup [at : {"model"}, question : Questions, seen : SUBSET Nat]
        \cup Reading({"rules", "model"}, Questions) \cup Reading({"page"}, {None}) \cup Naming
Requests == [status : {"limited", "admitted", "routed"}, question : Questions, token : {"valid"},
             since : Nat]
Messages == [role : {"user"}, id : Nat, question : Questions]
            \cup [role : {"assistant"}, id : Nat, tool : ReplyTools, figures : SUBSET Nat, since : Nat]
Pages == [at : {"idle", "top", "view", "data", "lists", "export", "ready", "asking", "answered", "rendered"},
          view : Views, pending : Entries \cup {None}, query : Entries \cup {None}, want : Wants,
          reply : Replies \cup {None}, again : BOOLEAN, shown : SUBSET Nat,
          refreshed : [at : Nat, alone : BOOLEAN] \cup {None}]

SessionsTypeOK ==
  /\ env \in Environments /\ books \in Nat /\ connected \in BOOLEAN /\ logins \in Nat
  /\ worker \in [Workers -> Jobs] /\ program \in {"api", "page"}
  /\ talk \in [Workers -> Seq(Messages)] /\ asked \in [Workers -> Nat]
  /\ post \in [Threads -> Requests \cup {Free}]
  /\ page \in [Sessions -> Pages] /\ wanted \in [Sessions -> Wants]
  /\ cache \in [{"data", "lists", "export"} -> (SUBSET Nat) \cup {None}]

(* "ERP data always comes from a fresh tool call" (app.py:20): no figure in   *)
(* an answer was read before its question was asked, though the model may    *)
(* repeat what it is sent; the service can promise it only of what its shape *)
(* gives away as a tool's output (_build_history, filter_history).           *)
FiguresAreFresh ==
  \A w \in Workers : \A i \in Answers(w) : \A v \in talk[w][i].figures :
    \/ v >= talk[w][i].since
    \/ w \in Threads /\ \E j \in Answers(w) : j < i /\ talk[w][j].tool \in Short /\ v \in talk[w][j].figures

(* However runs are cut short, cleared and started over, an answer stands     *)
(* right below the question it answers (app.py:671-726).                     *)
AnswersFollowQuestions ==
  \A w \in Workers : \A i \in Answers(w) :
    i > 1 /\ talk[w][i - 1].role = "user" /\ talk[w][i - 1].id = talk[w][i].id

(* What was clicked or typed once is asked at most once, in all the runs that *)
(* follow (_pending_query, app.py:440-444).                                  *)
AskedAtMostOnce ==
  \A w \in Workers : \A i, j \in DOMAIN talk[w] :
    talk[w][i].role = talk[w][j].role /\ talk[w][i].id = talk[w][j].id => i = j

(* The conversation can be shown while Odoo is away: every statement in it    *)
(* has its download in the cache, because the answer joins it last           *)
(* (_render_statement_downloads runs on every rerun, outside any try).       *)
HistoryNeedsNoOdoo ==
  \A s \in Sessions : Statements(talk[s]) # {} => cache["export"] # None

(* After Refresh the dashboard shows what was read since, both of its parts,  *)
(* unless another session was loading it at that moment (app.py:514-520).    *)
RefreshShowsNow ==
  \A s \in Sessions : LET p == page[s] IN
    p.at = "ready" /\ p.refreshed # None /\ p.refreshed.alone => \A v \in p.shown : v >= p.refreshed.at

(* What is not configured stays shut: without a secret the service admits     *)
(* nobody and nothing runs for a request without a valid token; with an       *)
(* Odoo user other than the read-only one no login is even tried             *)
(* (require_auth, validate_startup).                                         *)
FailsClosed ==
  /\ ~env.secret => admitted = <<>> /\ \A t \in Threads : worker[t] = Resting
  /\ \A t \in Threads : worker[t] # Resting => post[t].token = "valid"
  /\ env.config = "refused" => logins = 0 /\ \A w \in Workers : worker[w].at # "connecting"
=============================================================================
