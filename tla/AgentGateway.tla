---------------------------- MODULE AgentGateway ----------------------------
(* One Python process that imports the agent: route_query                   *)
(* (src/agent/router.py) tries the language model (src/services/            *)
(* openai_service.py) and falls back to the rules; the tool it settles on    *)
(* reads Odoo through the one gateway of the process                        *)
(* (src/services/odoo_service.py), whose connection all threads share.      *)
(* What was read is the version of the books; a question is the name of the *)
(* tool that the rules would run for it, or "unknown".                      *)
EXTENDS Naturals, Sequences, FiniteSets

CONSTANTS Workers,     \* who asks: the threads that run route_query
          Tools,       \* the registered tools the run distinguishes
          Reads,       \* how many reads each of them makes
          MaxBooks,    \* bound of the run: changes of the books
          None

ASSUME GatewayAssumption ==
  /\ IsFiniteSet(Workers) /\ Workers # {}
  /\ Reads \in [Tools -> Nat \ {0}]
  /\ MaxBooks \in Nat
  /\ {"unknown", "assistant"} \cap Tools = {}

VARIABLES env,        \* the environment of the process: key, backend, config, secret
          books,      \* the version of the books
          connected,  \* _connection holds a uid and a proxy
          logins,     \* how many authentications succeeded
          worker      \* what each thread does in route_query

gatewayVars == <<env, books, connected, logins, worker>>

Environments == [key : BOOLEAN, secret : BOOLEAN, backend : {"mock"}, config : {"ok"}]
                \cup [key : BOOLEAN, secret : {TRUE}, backend : {"odoo"},
                      config : {"ok", "refused"}]

Resting == [at |-> "resting"]

(* The figures of a reply are the versions that its reads returned. *)
Done(tool, figures, raised) ==
  [at |-> "done", tool |-> tool, figures |-> figures, raised |-> raised]
Running(by, tool, question) ==
  [at |-> "reading", by |-> by, tool |-> tool, question |-> question,
   left |-> Reads[tool], figures |-> {}]

(* _rule_based_route reads the names of the customers first, whatever is    *)
(* asked (_extract_customer); no figure of a reply comes from there.        *)
ByRules(question) ==
  [at |-> "reading", by |-> "rules", tool |-> None, question |-> question,
   left |-> 1, figures |-> {}]

(* Then it runs a tool, or answers with a text when no rule matches. *)
Chosen(question) == IF question \in Tools THEN Running("rules", question, question)
                    ELSE Done("unknown", {}, FALSE)

\* mutant: only errors of the language model's API are caught.
Raised_uncaught(job) == Done(None, {}, TRUE)

(* An exception in run_agent falls back to the rules; from the rules it      *)
(* reaches the caller of route_query.                                       *)
Raised(job) == IF job.by = "model" THEN ByRules(job.question) ELSE Done(None, {}, TRUE)

Sets(w, job) == worker' = [worker EXCEPT ![w] = job]

(* route_query. seen: the figures in the history that the model is sent.    *)
RouteQuery(w, question, seen) ==
  Sets(w, IF env.key THEN [at |-> "model", question |-> question, seen |-> seen]
          ELSE ByRules(question))

(***************************************************************************)
(* The language model                                                      *)
(***************************************************************************)

(* It answers in text, and may repeat figures that it was sent. *)
ModelTalks(w) ==
  /\ worker[w].at = "model"
  /\ \E figures \in {{}, worker[w].seen} : Sets(w, Done("assistant", figures, FALSE))
  /\ UNCHANGED <<env, books, connected, logins>>

(* It calls a registered tool with arguments that bind: the first call is   *)
(* executed, whatever tool the rules would have chosen.                     *)
ModelCalls(w) ==
  /\ worker[w].at = "model"
  /\ \E tool \in Tools : Sets(w, Running("model", tool, worker[w].question))
  /\ UNCHANGED <<env, books, connected, logins>>

(* Its API fails or times out, or it calls what is not registered, does not *)
(* bind, or is not JSON.                                                    *)
ModelFails(w) ==
  /\ worker[w].at = "model"
  /\ Sets(w, Raised([by |-> "model", question |-> worker[w].question]))
  /\ UNCHANGED <<env, books, connected, logins>>

(***************************************************************************)
(* A tool's reads                                                          *)
(***************************************************************************)
ALLOWED_METHODS == {"search", "search_read", "read"}

(* The provider reads with search_read and nothing else. *)
METHOD == "search_read"

(* What a read returns: the rules have the names and choose; a tool reads   *)
(* on, until the formatter has the result.                                  *)
Got(w) ==
  LET job == worker[w]
      figures == job.figures \cup {books}
  IN IF job.tool = None THEN Chosen(job.question)
     ELSE IF job.left = 1 THEN Done(job.tool, figures, FALSE)
     ELSE [job EXCEPT !.at = "reading", !.left = @ - 1, !.figures = figures]

\* mutant: the configuration is not validated.
Connecting_unchecked(w) == [worker[w] EXCEPT !.at = "connecting"]

(* _ensure_connected finds no uid: validate_startup, then authenticate. *)
Connecting(w) == IF env.config = "ok" THEN [worker[w] EXCEPT !.at = "connecting"]
                 ELSE Raised(worker[w])

(* _execute: the guard, then the connection; mock data need neither. *)
StartRead(w) ==
  /\ worker[w].at = "reading"
  /\ env.backend = "odoo" => METHOD \in ALLOWED_METHODS
  /\ Sets(w, IF env.backend = "mock" THEN Got(w)
             ELSE IF connected THEN [worker[w] EXCEPT !.at = "calling"]
             ELSE Connecting(w))
  /\ UNCHANGED <<env, books, connected, logins>>

(* _connection keeps the proxy and the uid for the life of the process. *)
Keep == TRUE

Login(w) ==
  /\ worker[w].at = "connecting"
  /\ connected' = Keep /\ logins' = logins + 1
  /\ Sets(w, [worker[w] EXCEPT !.at = "calling"])
  /\ UNCHANGED <<env, books>>

(* authenticate raises, or returns no uid. *)
LoginFails(w) ==
  /\ worker[w].at = "connecting"
  /\ Sets(w, Raised(worker[w]))
  /\ UNCHANGED <<env, books, connected, logins>>

(* execute_kw. *)
Called(w) ==
  /\ worker[w].at = "calling"
  /\ Sets(w, Got(w))
  /\ UNCHANGED <<env, books, connected, logins>>

(* Odoo is away, or another thread is in the middle of a call on the same   *)
(* proxy, whose one connection takes one request at a time.                 *)
CallFails(w) ==
  /\ worker[w].at = "calling"
  /\ Sets(w, Raised(worker[w]))
  /\ UNCHANGED <<env, books, connected, logins>>

Answering(w) ==
  \/ ModelTalks(w) \/ ModelCalls(w) \/ ModelFails(w)
  \/ StartRead(w) \/ Login(w) \/ LoginFails(w) \/ Called(w) \/ CallFails(w)

(* Somebody books something. *)
BooksChange ==
  /\ env.backend = "odoo" /\ books < MaxBooks
  /\ books' = books + 1
  /\ UNCHANGED <<env, connected, logins, worker>>

GatewayInit ==
  /\ env \in Environments
  /\ books = 0 /\ connected = FALSE /\ logins = 0
  /\ worker = [w \in Workers |-> Resting]

(***************************************************************************)
(* Properties                                                              *)
(***************************************************************************)

(* Once a login succeeded no thread logs in again, except those that were   *)
(* already past the test of the uid: at most one login each, however many   *)
(* reads there are ("Authenticates once", odoo_service.py:9, which holds of *)
(* a process with one thread).                                              *)
LoginsBounded == logins <= Cardinality(Workers)

(* With mock data no question fails, whatever the language model does or    *)
(* calls: "the app keeps working without OpenAI" (router.py:371-376).       *)
NeverFailsOffline ==
  env.backend = "mock" => \A w \in Workers : worker[w].at = "done" => ~worker[w].raised
=============================================================================
