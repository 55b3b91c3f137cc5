# A verification project for the Odoo AI agent

The repository holds two programs that share a `docs/` directory:

- a Python core: an agent that answers business questions from Odoo data
  (`src/agent`, `src/services`, `src/tools`, `src/data`), served by FastAPI
  (`apps/api`) and by a Streamlit page (`app.py`);
- a Next.js application (`apps/web`) with logins, saved conversations, the chat
  dashboard and the delivery-proof workflow, on SQLite through Prisma.

Paths below are relative to the repository root. The directory you are in
holds TLA+ models of the part of this that has state worth worrying about,
the TLC runs that check them, and proofs for the TLA+ proof system.

## 1. Inventory

| Component | State | Operations | What makes it correct |
|---|---|---|---|
| **Delivery proofs** `apps/web/app/actions/delivery-proofs.ts`, `prisma/schema.prisma` | tables `DeliveryProof`, `DeliveryProofAttempt` | create metadata, upload, resubmit, verify, reject, record OCR; lists and views | attempts are an append-only history; each is decided once; the parent row always tells the story of the newest attempt; a verified proof is final |
| **Proof image storage** `apps/web/lib/file-storage.ts` | files on a volume | save under a random name, delete, read, validate | a committed attempt's file is never deleted; no two owners; no orphan unless a fault left it |
| **Proof image routes** `app/api/proofs/**`, `lib/image-auth.ts` | none | serve an image to its driver or an owner | role and ownership |
| **Driver notifications** `app/actions/delivery-notifications.ts`, `app/driver/notifications/page.tsx` | one timestamp per user; the feed is derived on read | list, count unread, mark read | feed = history of the driver's proofs; what was seen stays read; nothing else becomes read |
| **Login** `lib/login-rate-limit.ts`, `lib/auth-credentials.ts`, `app/actions/auth.ts` | failures per username in process memory | check, register a failure, reset, attempt a login | a name is locked exactly while 5 of its logins failed in the last 60 s; overlap adds a bounded number of guesses |
| **Sessions and roles** `auth.ts`, `lib/session-guard.ts`, `lib/api-token.ts` | a signed token per session | issue, refresh, guard, mint an API token | a token never says more than the account |
| **Conversations** `app/actions/conversations.ts` | tables `Conversation`, `Message` | list or create, create, append, rename, delete | ownership; a user always has a conversation; messages in order |
| **Dashboard client** `components/DashboardClient.tsx` | list, active id, messages, loading flag | ask, select, create, delete | what is shown is what is stored |
| **Business day** `lib/business-time.ts` | none | bounds of a local day | days partition time |
| **Chat API** `apps/api/main.py`, `auth.py` | a sliding window of request times, shared by all callers; the client keeps the conversation | authenticate, limit, filter the history, route, reply; health, tools | the limit holds; no token, no work; no stale figure reaches the model as fact |
| **Agent router, registry, model service** `src/agent`, `src/services/openai_service.py`, `src/utils/date_filters.py` | none between calls, but several readings of the clock within one | detect intent, customer, product, period; call a tool; report the call; let the model choose, fall back to the rules | the scope is the one that was asked; never everybody's figures for an unknown name; what is reported is what was run; no error of the model reaches the user |
| **Odoo gateway** `src/services/odoo_*.py` | uid and proxy of the process | validate the environment, guard, authenticate, execute | reads only; refuses to connect before it is sure of the user; logs in once |
| **Data provider** `src/data/provider.py` | none; its reads are pages at different moments | page through customers, invoices, payments, lines and orders; retry without a field; normalise; mock or live | complete lists; every row counted once; status as of today |
| **Business tools** `src/tools` | none; each reads one to twelve tables | fourteen reports, with filters, sums, sorts, scores, cuts | the same debt is the same figure in each; a statement adds up; the worst is not cut |
| **Streamlit page** `app.py` | per session: messages, view, queued question; per process: three caches | run from the top on each interaction; clear, navigate, refresh, ask, answer, download | answers stand below their questions; nothing is asked twice; figures are fresh |
| **Exports, formatting, mock data; proof pages and forms; deployment** | none | render, start | layout |

How they interact. A browser calls a *server action* of the web application;
each action runs in one Node process, and every `await` (Prisma, the file
system, bcrypt) lets another request run. Uploads, resubmissions and reviews
meet only in the two tables and on the volume; the notification feed reads the
attempt rows those actions write. The dashboard calls the conversations
actions and, through a minted token, the Chat API; the Chat API runs the agent in a
thread pool; the agent reads Odoo through the gateway and the provider.

Where it is hard:

- *Checks that are stale when used.* A resubmission reads the status, then
  stores megabytes, then writes. A review reads its clock, then waits for its
  transaction. A page lists, then marks. The login limiter is read, then bcrypt
  runs, then it is charged.
- *One fact in two places.* A review is a column set of the proof and of its
  newest attempt; an image is a row and a file; the feed is derived from the
  attempts, the badge's reset from a timestamp.
- *Failure in the middle.* The file exists before the row; the transaction may
  fail or time out; the clean-up may fail; the process may die anywhere.
- *State captured in a closure.* A dashboard handler goes on after an `await` with the
  list, the active conversation and the question it saw when it started, while other
  handlers, or another tab, have moved on.
- *Shared memory without a lock.* The Chat API's limiter is read, rebound and appended to by the
  threads of a pool.
- *Reads at different moments.* A report is several reads of several pages each, of books that others
  change; an answer reads the clock two or three times.
- *Runs that are cut short.* The page's script starts over on each interaction, wherever the run before it
  was; what it has not yet stored is gone, what it has stored stays.
- *Retries and repetition.* reject, resubmit, reject, ... must keep every
  earlier entry as it was.

`PROJECT.json` lists each such place under `hazards` with the line where it
bites and the properties that cover it.

## 2. The modules

    ProofHistory              what the service promises: an append-only history and a queue
      ^ implemented by (ImplementsHistory)
    DeliveryProofs            tables, volume, handlers in flight, faults
      ^ EXTENDS
    DeliveryNotifications     inbox

    ListFilters               the filter of a list
      ^ EXTENDS
    LoginAttempts             the web login: attempts in flight and the limiter's map
    ChatRateLimit             the Chat API's window under its thread pool
    Conversations             the two tables and their server actions (EXTENDS ListFilters)
      ^ EXTENDS
    Dashboard                 the page and the client that call them, in several tabs

    DateRanges, ToolSchemas   the calendar of date phrases; schemas and registry
      ^ EXTENDS
    RuleRouter                the deterministic router, between readings of the clock

    ProviderRows <- LedgerReports <- SalesReports     rows of Odoo; the fourteen reports as operators
      ^ EXTENDS (with DateRanges)
    LiveReports               a report made page by page over books that change (and ListFilters)

    AgentGateway              route_query, the model, the shared connection to Odoo
      ^ EXTENDS (with ChatRateLimit)
    AgentSessions             the service's requests, the page's runs

    <module>Theorems          proofs about a module: LoginAttempts, Dashboard, RuleRouter,
                              AgentSessions, LiveReports, ListFilters
    DeliveryTheorems          proofs about DeliveryProofs and DeliveryNotifications
    DashboardQuietTheorems    proofs about a tab of Dashboard at rest
    MC<module>                instances for TLC

### DeliveryProofs

State: `proof` and `attempts` are the two tables (primary key to row,
`attempts[p]` from attempt number to row), `files` the volume, `req[r]` the
locals of a handler in flight, `clock` what `new Date()` returns. `issued` and
`leaked` are ghosts: names handed out, and files that a fault left behind. A review in flight also has a ghost,
`seen`: the attempts there were when it read the clock.

Each handler is cut exactly where it awaits something another handler can
observe:

| Action | Code |
|---|---|
| `UploadSave`, `UploadSaveFails` | `uploadDeliveryProof` to the end of `saveProofImage` |
| `CreateMetadata` | `createDeliveryProofMetadata` (the same transaction, no image) |
| `CommitCreate` | the transaction of `createProofWithInitialAttempt` |
| `ResubmitCheck` | the ownership and status read of `resubmitRejectedDeliveryProof` |
| `ResubmitSave`, `ResubmitInvalidImage`, `ResubmitSaveFails` | its `saveProofImage`: stored, refused, write error |
| `CommitResubmit`, `RefuseResubmit` | its transaction: `updateMany ... where status = REJECTED`, new attempt; count 0 |
| `ReviewStart` | `verifyDeliveryProof`, `rejectDeliveryProof` to the transaction: `now` is read here |
| `CommitReview`, `RefuseReview` | the transaction of `reviewDeliveryProof`; count 0 or no attempt |
| `FailTransaction` | any of the three transactions rejects |
| `CleanUp`, `CleanUpFails` | `deleteProofImage` in the catch block |
| `RecordOcrResult` | `recordOcrResult` |
| `Crash`, `Tick` | the process restarts; time passes |

Abstractions. Notes, references, file names and OCR text are dropped: no
property tells them apart, and no branch depends on them. The four review
columns of either table are one record `review`. The role guard at the head of every
action is the choice of the user from `Drivers` or `Owners`. An upload that is
refused as an invalid image changes nothing and is left out, where a
resubmission that is refused after its check is `ResubmitInvalidImage`. A
review request for a proof that does not exist is refused and changes nothing.
The read-only actions (lists, views) are not modelled.

### DeliveryNotifications

Extends DeliveryProofs: every step of the service is a step of the
composition. New state: `cursor[d]` is `User.deliveryNotificationsSeenAt`,
`page[l]` what a loading page holds, `seen` a ghost of what a driver was shown.
The feed is not state: `Feed(d)` is `deriveMyDeliveryEvents`, evaluated on the
tables, as in the code. `List`, `MarkStart`, `MarkLand` are the list query, the call
of `markMyDeliveryNotificationsRead` (which takes the time) and its update;
`PageFails` a rejected query. `IsNextMark` models the adapter, which runs queries one
at a time in the order issued, and so lets two tabs' marks land only in the order of their
times. `List` leaves open which of several events with equal times the cap
drops, because the code's query gives them no order that it relies on.

### ProofHistory

The promise, without tables, handlers, files or time. `DeliveryProofs!Abstract`
is the refinement mapping: the history of `p` is the sequence of its attempt
rows (image and status), the queue is the set of PENDING parents. The
refinement therefore says both that the attempt table behaves as an
append-only history and that the *other* table behaves as its queue.

### LoginAttempts

`failedByKey` is the limiter's map, with the pruning that *reads* do to it
(`Stored`: an empty list deletes its key). An attempt is cut at its one wait, the query and
bcrypt of `verifyCredentials`; everything up to it, and everything after, runs in one
turn of the event loop.

| Action | Code |
|---|---|
| `FormLocked`, `FormSignIn` | `loginAction` asks the limiter before it calls `signIn` |
| `DirectSignIn` | the credentials route of the framework, which skips the form |
| `AttemptLocked`, `AttemptVerify` | `attemptLogin` up to `verifyCredentials` |
| `LoginFails`, `LoginSucceeds`, `LoginThrows` | what it does with the outcome |
| `Restart`, `Tick` | the map is process memory; time passes |

The outcome of a comparison is a free choice, except that only a name with an
account can succeed. `failures` is a ghost log that nothing prunes; the
properties compare the map with it.

### ChatRateLimit

A thread of the pool is cut where CPython may hand over to another and where another
thread could tell: after the source list of the comprehension is looked up (`FilterStart`),
when it ends and the name is rebound (`FilterEnd`), at the `len` (`Refuse`, `Admit`), and
between looking up `append` with the clock read and the append itself (`RegisterStart`,
`RegisterEnd`). Lists are objects: a thread can append to one that the
name no longer refers to. `AgentSessions` puts the rest of the request around it.

### Conversations and Dashboard

`Conversations` has the tables and the server actions; each action is split between its
ownership check and its write (`ServeCheck`, then `ServeRename`, `ServeAppend`, `ServeDelete`, or
`ServeGone` if another tab has deleted the row in between). `calls[t]` is the framework's queue of server
actions of tab `t`, served one at a time in order. `ServeRerender` is the page
that `revalidatePath` may render again on the server: it can create a conversation.

`Dashboard` adds the page (`Visit...`) and the client. `tab[t]` is the React state, `task[t][s]`
a handler in flight with what its closure captured. A handler runs to its next
`await` in one step:

| Action | Code |
|---|---|
| `VisitFind`, `VisitFindsNone`, `VisitCreate`, `VisitLoad`, `VisitFails` | `DashboardPage`, `ensureInitialConversation`, mount |
| `StartAsk`, `TokenReturns`, `ChatAnswers`, `SavedOne`, `SavedBoth` | `handleAsk`: token, agent, the `Promise.all` that saves the turn |
| `TokenFails`, `ChatFails`, `SaveFails` | its catch blocks |
| `StartNew`, `NewReturns` | `handleNew` |
| `StartSelect`, `SelectReturns` | `handleSelect` |
| `StartRename`, `RenameReturns` | `handleRename` |
| `StartDelete`, `DeleteReturns`, `DeleteCreated`, `DeleteLoaded` | `handleDelete` and its two continuations |
| `OthersFail` | a rejected call in any of these four |
| `OrphanReturns` | a call whose handler has gone |

Abstractions. There is one owner: every query is scoped by `userId`, so other owners' rows are not
visible. A list is a sequence, newest first; two rows with the same `updatedAt` do not occur in the model, nor does the
skew between the client's clock (`touchConversation`) and the server's. Titles and
the content of messages are dropped; a message is its question and its role. `asked` is a ghost, and so is `rendered`: the conversations that
a re-rendering on the server created, which no tab is told of. `Patient` and
`Faults` are parameters of a run and not of the code: they say whether the owner starts something while a deletion is
in flight, and which failures are explored. `SpareId` keeps enough of the finite `Ids` for the
creations under way, and is a bound.

### DateRanges, ToolSchemas, RuleRouter

A query is what the router's tests find in it: `words` (the intents whose keywords occur), `names` (the known customers), `target` (what follows
"for"), `subject` (a product, something else or nothing after the trigger phrases) and `text`, its date phrases in order. Which words make a
keyword or a phrase, in either language, is left out; what the code then makes of them is not: the order of the intents, the order of the
parser's tests (`Precedence`: the first *test* that matches decides, not the first phrase), `_extract_period`'s search by substring, the guards and
the reported parameters. A day is its ordinal, so that ranges are arithmetic; `DateRanges` has Python's proleptic calendar.

`RuleRouter` answers one question at a time, cut where the clock is read: `Ask` (`_extract_period`), `Run` (`_dated_sales_route`'s
label or default month, or the tool that parses the query), `Reply` (the label of `_period_params`, or the sales tool's own parse). `NextDay` is midnight, at most
once between question and reply. `plan` is the decision: its `route` says tool, customer, how the call is dated, and whether it is refused. A call is a record of
the tool and of what its parameters carry (`ToolSchemas`), so that the three tables that describe a call can be compared.

### ListFilters

JavaScript's `filter`, as the login limiter and the dashboard use it. It is a recursive function and not a recursive operator, so that it can be proved about.

### ProviderRows, LedgerReports, SalesReports, LiveReports

The reports are operators from rows to a record of the tool's fields: `CustomerStatement`, `TopDebtors`, `CollectionPriorities`, `BusinessAlerts` and the
other ten. Money is an integer, in hundreds of riyals, and so are the thresholds; percentages are kept where something is decided by them, texts are dropped.

`LiveReports` is the machine around them. `books` is Odoo: customers, invoices with residuals, payments, order lines and orders, in the order in which the server
lists them; `adrift` a ghost: what each customer paid in advance and was credited. `Ask` starts a report with the list of its `Reads`; `ReadPage` is one call of `search_read`, in
pages of `PAGE_SIZE`; `ReadFails` a call that raises, with the two retries (`Retried`); a read that the code does not make, because there are no lines or because the tool returns early, counts as one
without rows (`Skipped`); `Reply` composes the report from what was read. The actions of Odoo (`Post`, `Settle`,
`Advance`, `CreditNote`, `Unpost`, `Sell`, `Withdraw`, `NextDay`) happen between any two calls. `job.grew` and `job.shrank` are ghosts: the records that came and went since a read began.

### AgentGateway and AgentSessions

`AgentGateway` is one process that imports the agent. `env` is its environment, fixed at the start: an OpenAI key or none, a secret or none, mock or Odoo, a
configuration that `validate_startup` accepts or refuses. `worker[w]` is what a thread does inside `route_query`: with the model, reading, connecting,
calling, done. The rules read the customers' names before anything else (`ByRules`), whatever is asked, and then run a tool or none (`Chosen`). `books` is a version number, and a figure is the version it was read from. `connected` is `_connection`, which all threads share; `Login` of two threads
may overlap.

`AgentSessions` has both programs that import it, one per behaviour (`program`):

| Action | Code |
|---|---|
| `Post`, `Limit`, `Route`, `Respond` | `POST /chat`: `require_auth`, the limiter of `ChatRateLimit`, `filter_history` and `route_query`, the reply |
| `Click`, `Type`, `ClearChat`, `Navigate`, `Refresh` | the page's widgets |
| `Begin` | a run of `app.py` starts: callbacks first; in place of a run that waits in a call of Streamlit |
| `Sidebar`, `View` | the queued question is popped, the conversation cleared; dashboard or history |
| `Fetch`, `Cached` | a function under `st.cache_data`: dashboard, lists, export |
| `Submit`, `Answered`, `Render`, `Join` | the question joins the conversation, `route_query`, the answer is rendered and joins last |

Abstractions. A run is not cut short while it waits for Odoo or the model, because Streamlit stops a script only in its own calls: the interaction is taken up
at the next such call, which is why a computed answer can be lost after `Answered`. One customer and one format stand for all keys of the
export's cache. `Navigate` goes to the other view only; an item of the current view starts a run and changes nothing else. The client of the
service sends the whole conversation with each question.

## 3. Assumptions about what is outside the source

1. One Node process serves all requests, and a Prisma `$transaction` is atomic
   and rolled back when it throws: SQLite has one writer, and the libsql
   adapter that `lib/db.ts` configures runs one query or transaction at a time.
2. `randomUUID()` never repeats (`SaveImage`: `i \notin issued`).
3. The wall clock does not go backwards. Timestamps may be equal: every action
   can happen at any clock value, and `Tick` is an action of its own.
4. Committed rows and closed files survive a crash of the process; half-written
   files may exist (`SaveImageFails`, `leaked`).
5. Users and proofs are not deleted: no code does it.
6. Next.js sends the server actions of one tab one at a time, in the order they were
   called, and goes on with the next when one has failed.
7. The interpreter switches threads only between bytecodes, as CPython does; `list.append` and
   the rebinding of a name are each one step.
8. Streamlit hands the interactions that arrive during a run to the next one, interrupts a script only in calls of its own, and keeps one
   value per arguments of a cached function, none if it raised.
9. Odoo answers a call of `search_read` from one state of its books, and each call from the state it has by then; it lists the records of a table
   in one order. Its residuals are between 0 and the total.
10. The language model may do anything that its interface lets it: talk, repeat what it was sent, call any tool, or fail.

## 4. What TLC checks

| Run | Instance | States | Question |
|---|---|---|---|
| `proofs_race` | 1 proof, 2 handlers, 2 owners, 3 images, 3 attempts, clock 0..2, crashes, disk faults | 751,171 | does the service implement `ProofHistory`, do the tables agree, is history immutable and verified final, is its timeline in order but for a review that was overtaken, are images neither lost nor shared nor orphaned, in every interleaving |
| `proofs_live` | 1 proof, 2 handlers, 3 images, 2 attempts, crashes, disk faults | 24,384 | does every handler return and every stored image settle |
| `notifications_inbox` | 2 drivers, 1 proof, 2 tabs, 1 handler, 2 attempts, clock 0..1, cap 2, crashes | 212,270 | does the feed follow the status, in its own driver's inbox only; does what was seen stay read |
| `login_overlap` | 2 names, 1 with an account, 2 attempts in flight, limit 2, window 2, clock 0..4, restarts | 895,989 | does the pruned map limit exactly what an unpruned log would; how far does overlap stretch the limit |
| `chat_threads` | 2 threads, limit 2, window 2, clock 0..2 | violation | the contract's limit under the thread pool |
| `dashboard_patient` | 1 tab, 2 handlers, 4 ids, 2 questions, agent faults; nothing overlaps a deletion | 85,244 | does the tab list all that is stored, but for what a re-rendering created, and show what is saved |
| `dashboard_tabs` | 2 tabs, 2 handlers each, 2 ids, 1 question | 320,150 | is a turn saved in the conversation it was asked in, and in order, whatever both tabs do |
| `dashboard_live` | 1 tab, 1 handler, 3 ids, 1 question, agent and server faults | 107,780 | are the controls enabled again after any failure |
| `dashboard_deletes` | 1 tab, 2 handlers, 4 ids | violation | the promise that there is always a conversation to select |
| `agent_routes` | 2 customers one of whose names contains the other's, every intent, date phrases of every kind, days around year ends, leap days and quarter ends | 17,686 | is the answer about the customer and the range that were asked, and does the reply say so |
| `live_reports` | every tool, pages of 2, tables of up to 4 records, 1 change and 1 failed call at any moment | 122,001 | if nothing moved, are the figures Odoo's, are limited lists the head of the ranking, is a critical debtor shown as one; what can paging miss |
| `agent_sessions` | 2 sessions of the page (2 and 1 interactions) or 1 thread of the service (3 requests, limit 2, window 2), every environment, 1 change of the books | 2,603,761 | do answers follow their questions with fresh figures, however runs are cut short; is the limiter exact for requests that do not overlap; does it fail closed |

Why the bounds are enough. Two handlers are the races the code guards against:
every guard compares one handler's stale read with one competing commit; a third
handler can only be another competitor for the same `where` clause. Three
attempts give the history a first, a middle and a newest entry, so that writing
the wrong one shows. Three images let two handlers hold one each while one is
attached. A clock of three values tells before, at and after apart; the inbox, which only asks whether an event is later than a mark, has two. What could leak from one proof
to another is an image's name: the theorems of section 5 cover any number of proofs. The inbox's cap of 2 is below the
three events that two attempts produce (rejected, resubmitted, decided), so the cap
does cut. The theorems of section 5 remove these bounds for the safety
properties of the service.

The limiters only compare counts and ages with their constants: a limit of 2 has
a state below it, at it and (under the mutants) above it, a window of 2 has a request
that is new, one that is old and one on the boundary, and a clock of twice the
window lets a name be locked, age out and be locked again. Two names are needed for pruning one to disturb the other.
In a tab, the controls allow one of ask, select and new at a time; what can
overlap with it is a rename or a deletion, so two handlers are the pairs the code
has. Three conversations tell the deleted one, the active one and a third apart.
Two tabs of one owner are needed where a row can vanish between a check and a write.
`dashboard_live` has one handler at a time to keep the state graph small: the flag that must
be reset is set and reset by one handler, but an overlap in which one handler
resets another's flag is not covered by it.

`agent_routes` is exhaustive in the intents and in the kinds of phrases, pairs of phrases where the order of the parser's tests matters. Its days are those
where a relative range turns over. `live_reports` needs tables longer than a page for paging to matter, a last page that is full and one that is not, and one change: a
repeated or a skipped row takes one. Two changes that cancel out are not covered. In `agent_sessions` the third request meets a full window; two interactions of one session
are a question and what cuts it short; the second session is there for the shared caches and the shared login. The two programs are never in one behaviour, as
they are never in one process.

Symmetry is declared over images, owners, proofs, handlers, drivers, pages, login requests,
conversation ids, questions, slots and tabs, which no formula names, and only in runs without liveness. `MaxAttempts`,
`MaxClock`, `SpareId` (with the size of `Ids` and `Questions`), `Days`, `MaxChanges`, `MaxFaults`, `MaxAsked` and `MaxBooks` are the only bounds that are not the code's own: they disable
`CommitResubmit` beyond the last attempt (a handler then still has
`FailTransaction`), `Tick`, the actions that would need a new id or question, and further days, changes, faults, interactions and requests.

Deadlock is checked in every run except `agent_sessions`, which ends when the last interaction has been served: no handler ever waits for another, and new
requests are always possible (in a dashboard, a rename is).

### Properties

Delivery proofs and inbox:

- `ParentMirrorsLatest`: the redundancy between the two tables. It
  fails if the status is not re-checked in the transaction or if the review lands on
  another attempt than the newest.
- `TimelineOrdered` (`AttemptsInOrder`, `ReviewDated`): an attempt is submitted no earlier than its predecessor was submitted
  and reviewed, and a review is dated no earlier than the submission it decides and every review before it. A review reads the clock
  before its transaction and a resubmission inside it, so that the second half has an exception: a review that another review and a resubmission *overtake*
  commits on an attempt that did not exist when it read the clock, with the old time. `ReviewDated` excepts these reviews (`n \notin seen`) and no others;
  that they exist is disagreement 6 below.
- `NoDanglingImage`, `ImageOwnedOnce`, `NoOrphanImage`: the clean-up in the
  catch block deletes what was not committed and nothing else.
- `HistoryImmutable`, `VerifiedIsFinal`: action properties over every step.
- `ImplementsHistory`: the refinement. That attempts are numbered without a gap
  (`HistoryNumbered`) is part of what it says, and is proved on its own.
- `HandlersEnd`, `ImagesSettle`: liveness.
- `FeedFollowsHistory`: the feed, read from one table, changes exactly when the
  status in the other one does.
- `UnreadFallsOnlyByMark`, `SeenStaysRead`: the badge and the list agree with the
  cursor, in any number of tabs.

Limiters:

- `LimitIsExact`: a name is locked if and only if the unpruned log says so. It fails if a read
  prunes too much or too little, or at the edge of the window.
- `GuessesBounded`: the comparisons made or under way in a window never exceed the limit by more than the
  attempts that were in flight together. The check precedes the await and the charge follows it, so
  the limit itself is *not* the bound.
- `LockoutNotProlonged`: attempts on a locked name do not extend the lock.
- `RollingLimit`, `RefusalEarned`: no more are admitted than the limit, and none is refused below it. In `agent_sessions` both hold for
  one thread, whose requests follow one another; this is no evidence about requests that overlap. With two threads the first is violated (`chat_threads`). What can be
  said of them is in section 5 (`LimitIsKept`, `OvershootIsBounded`).

Dashboard:

- `SavedWhereAsked`, `AnswerFollowsQuestion`: they hold with two tabs and no restraint. The first is
  due to the captured id, the second to the queue of assumption 6.
- `ListMirrorsServer`: once the tab is quiet, the local updates (move to front, prepend, remove) add up to the server's list: the same conversations in the
  same order, none missing and none too many, and the active one among them. The one exception is in the formula: a conversation that a re-rendering on the server
  created (`rendered`) is on no list before the page is loaded again.
- `ShownIsSaved`: what a quiet tab shows is what is saved. Both need
  `Patient`, one tab and a database that answers, and are proved under these conditions (`ListMirrors`, `ShowsSaved`): `OneToSelect` in `dashboard_deletes` shows what overlapping deletions do to the list.
- `ControlsReturn`: liveness.

Agent:

- `PeriodsTile` (`PeriodsAdjoin`, `MonthsPartitionYear`): the relative ranges follow one another without a gap or an overlap, and the
  named months partition the year.
- `ScopeIsHonest` (`StatedIsApplied`, `ScopeIsParsed`): what the reply says was filtered was filtered, and it is what the parser makes of the
  question. The first excepts an answer with midnight between its readings of the clock: the range shown and the range applied may then
  differ, and the second only says that each is what the phrases mean on one of the two days.
- `LongestNameAnswers`, `NeverBroadened`, `ReportedCallIsReal`: entities, the guard, and the three tables that describe a call.
- `ReadIsHonest`: paging by offset misses a record only if one disappeared, and repeats one only if one appeared.
- `FiguresAreOdoos` (`OutstandingIsResidual`, `OverdueIsPastDue`): every tool's figures against Odoo's, if nothing moved while they were read; of books
  that move in between it says nothing.
  The tools never see a total of Odoo's; they add up statuses and differences.
- `StatementAddsUp` (`StatementExplained`, `StatementEndsInBalance`, `RunningNeverNegative`): the statement's difference is exactly the
  advances less the credit notes, the visible part ends in the balance of all, and a customer who pays invoices only never appears to have credit. The Odoo of the model
  neither cancels a payment nor unposts an invoice that was paid: `_odoo_payments` does not ask for a payment's state, so that a cancelled one would be a row of the statement.
- `RankingsAreSound` (`LimitCounts`, `NoneAboveShown`): a limited list has the length asked for (the default if the limit is none), and nobody who comes later or whom the
  limit left out is above one who is shown: by what is owed among the debtors, by what was sold among products, and among the collections at least by not owing more, for
  longer and on more invoices.
- `CriticalIsNotHidden` (`PriorityIsCritical`, `CriticalIsAnnounced`, `CriticalIsNeverLow`): collections and alerts call the same debtors critical, those with
  20,000 or more past due or 30 days late; an alert of theirs is cut only where all that is shown is critical. The risk of `customer_insights_tools.py` is a scale of its own: a critical debtor
  may be "Medium" there if he still buys, but never "Low". A *limited* list of collections may leave out a critical debtor, because it is ordered by score; nothing is claimed of that.
- `FiguresAreFresh`: no answer has a figure older than its question. The service's filter goes by the shape of a text, so it is excepted for short outputs (`Short`).
- `AnswersFollowQuestions`, `AskedAtMostOnce`: what remains of the runs that were cut short.
- `HistoryNeedsNoOdoo`: the unprotected export in the history is always in the cache. It holds because the answer joins the conversation after its export has succeeded.
- `RefreshShowsNow`: after a refresh no older figure is shown, except where another session was loading when the caches were cleared: its result is
  cached afterwards. The model has this case, and the property is no evidence about it.
- `NeverFailsOffline`, `FailsClosed`: the fallback and the gateway. On mock data the rules are taken to raise nothing, which is so in the model; in the code a year 0000 in a date
  phrase makes `date()` raise (`date_filters.py:121`).

Each property of a run that passes has a mutant in `PROJECT.json`: an operator named `<definition>_<what>` beside the
one it mutates, under which TLC finds the property violated.

### Fairness

`FairSpec` assumes weak fairness of each handler's own steps (`Proceed(r)`) and
nothing else. The code justifies it: the event loop serves every settled promise,
Prisma bounds both the wait for a transaction and its run time and
rejects the promise afterwards (`FailTransaction`), and the file system answers or
fails. No fairness is assumed of users, crashes, faults or the clock.

For the dashboard, `FairSpec` assumes weak fairness of `Respond(t)`, the queue of a tab's server actions and the handler that waits
for the oldest, and of `Chat(t, s)`, the end of one call of the agent. The event loops of server and browser justify the first.
For the second, the HTTP request of `chat()` ends with an answer, an error status or a broken
connection. Nothing is assumed of the owner.

### Disagreements found

1. `chat_threads`. `docs/API_CONTRACT.md:183-184` says "max 30 requests per rolling 60 seconds". Two
   threads that pass the `len` before either appends both go on; and the append of one can go to a list that the
   other has just replaced.
2. `dashboard_deletes`. "Never leave the user with zero conversations to select"
   (`DashboardClient.tsx:176`). Two deletions that overlap each compute what remains from the list they
   captured: the second puts back the first one's conversation, and the list may end with deleted conversations only. A reload of the page repairs it.

Four more were met and have no run of their own:

3. `docs/DELIVERY_MANAGEMENT_PLAN.md:491-493` calls a review that commits between
   list and mark "the only genuine correctness risk". A review reads its time before
   it waits for its transaction: if a page lists and marks meanwhile, the event is older
   than the cursor when it is written, after the page has finished. `NotReadOnArrival` of DeliveryNotifications states what fails; in an
   instance with the three clock values it needs, TLC finds the violation.
4. `docs/AI_AGENT_ROUTING.md:35` says the current-month default "applies only when no date phrase exists at all". A year alone is not one that the parser
   knows: "sales in 2024" is answered for the current month of 2024 (`SalesMonth`).
5. `src/services/odoo_service.py:9` says "Authenticates once". With two threads it may be twice. `LoginsBounded`
   states the bound that holds, one login per worker, and is proved (`LoginsAreBounded`).
6. `delivery-proofs.ts:459` says "verifiedAt records when the review happened". It records when the handler read the clock, before it waited for its transaction (line 478): if meanwhile another
   review rejects the attempt and the driver resubmits, this one is committed on the new attempt with a time before its submission, and it may be before that of the other review. The rows are consistent, their
   times are not. `ReviewDated` excepts exactly these reviews; without the exception TLC finds the history.

## 5. What is proved

For every value of the constants:

| Theorem | Property | Module |
|---|---|---|
| `TypeCorrect` | `TypeOK` | DeliveryTheorems |
| `HistoryConsistent` | `HistoryNumbered`, `ParentMirrorsLatest` | |
| `HistoryIsImmutable` | `HistoryImmutable` | |
| `VerifiedProofIsFinal` | `VerifiedIsFinal` | |
| `TimelineIsOrdered` | `TimelineOrdered` | |
| `EvidenceIsKept` | `NoDanglingImage` | |
| `ImagesHaveOneOwner` | `ImageOwnedOnce` | |
| `NoImageIsOrphaned` | `NoOrphanImage` | |
| `HistoryIsImplemented` | `ImplementsHistory` | |
| `InboxTypeCorrect` | `InboxTypeOK` | |
| `FeedFollows` | `FeedFollowsHistory` | |
| `ShownStaysRead` | `SeenStaysRead` | |
| `BadgeFallsByMark` | `UnreadFallsOnlyByMark` | |
| `LimitExact` | `LimitIsExact` | LoginAttemptsTheorems |
| `GuessesAreBounded` | `GuessesBounded` | |
| `LockoutEnds` | `LockoutNotProlonged` | |
| `SavedWhereItWasAsked` | `SavedWhereAsked` | DashboardTheorems |
| `AnswersFollow` (if the database does not fail) | `AnswerFollowsQuestion` | |
| `ListMirrors` (for one patient tab) | `ListMirrorsServer` | DashboardQuietTheorems |
| `ShowsSaved` (for one patient tab) | `ShownIsSaved` | |
| `DaysAreTiled` | `PeriodsTile` | RuleRouterTheorems |
| `RouterInvariant` | the invariants below | |
| `ScopesAreHonest` | `ScopeIsHonest` | |
| `LongestWins` | `LongestNameAnswers` | |
| `OneIsNeverAll` | `NeverBroadened` | |
| `ReportsAreCalls` | `ReportedCallIsReal` | |
| `PagesAreTracked` | the invariant below | LiveReportsTheorems |
| `ReadsAreHonest` | `ReadIsHonest` | |
| `SessionsInvariant` | `SessionsTypeOK` and the invariants below | AgentSessionsTheorems |
| `LoginsAreBounded` | `LoginsBounded` | |
| `MockNeverFails` | `NeverFailsOffline` | |
| `GatewayFailsClosed` | `FailsClosed` | |
| `AnswersAreBelow` | `AnswersFollowQuestions` | |
| `QuestionsAreAskedOnce` | `AskedAtMostOnce` | |
| `AnswersAreFresh` | `FiguresAreFresh` | |
| `ExportIsCached` | `HistoryNeedsNoOdoo` | |
| `RefreshIsNew` | `RefreshShowsNow` | |
| `LimiterInService` | that `SessionsSpec` implements `Spec` of ChatRateLimit | |
| `LimitIsKept` (requests pass the limiter one at a time) | `RollingLimit` | |
| `RefusalsAreEarned` (likewise) | `RefusalEarned` | |
| `OvershootIsBounded` (no request is lost) | what is left of `RollingLimit` when requests overlap | |

Some theorems have a hypothesis besides the module's assumptions, and need it:

- `AnswersFollow` supposes that no server action fails (`"server" \notin Faults`). The turn is saved by two calls at once; if the one that
  saves the question fails and the other does not, an answer is stored without its question, and `AnswerFollowsQuestion` is false.
- `ListMirrors` and `ShowsSaved` suppose what the run `dashboard_patient` does: one tab (`Tabs = {t}`), because what another tab changes is never pushed to it; `Patient`,
  because `handleDelete` shows what it computed from the list it captured (`dashboard_deletes` shows what two deletions do); and `"server" \notin Faults`,
  because after a rejected query the tab keeps what it showed. The agent may fail: `ShownIsSaved` says what is then shown and not saved.
- `LimitIsKept` and `RefusalsAreEarned` are about any number of threads, and suppose of them that no two are between the start of `_is_chat_rate_limited` and the end of `_register_chat_request`
  at once (`OneAtATime`). The code does not see to that; a lock around the two calls would. Agents still answer side by side. Without it `RollingLimit` is false (`chat_threads`).
- `OvershootIsBounded` needs less: threads may overlap between the count and the registration, as they do in the code, but no thread rebinds the list while another rebinds it or appends
  (`ListHeld`). Then a window has fewer requests than the limit and the threads together, and TLC finds instances that reach this bound. If the list is rebound under an append, a
  request is lost, and no bound holds.

Where a proof needs induction over data, it goes through sets: the prover cannot instantiate a theorem about an arbitrary predicate, but
`Counting` of ListFiltersTheorems says that a *set* of numbers that holds 0 and each successor of a member holds every number, and a set can be named
where it is needed: the lengths up to which a filter does something, the numbers that have a least or a greatest element below them.

### The delivery proofs

From `ConstantsAssumption` (the bounds are natural numbers, NULL is not a value of another column) and `Spec`, with
three inductive invariants:

- *History.* `HistoryNumbered` alone is not inductive: nothing would say that a REJECTED
  parent has no undecided attempt. `HistoryInv` states numbering and mirroring
  together, one proof at a time (`HistoryUpTo(p, n)`: the attempts are `1..n`, all before `n` are
  rejected, and the parent equals number `n`). Then a
  review, which fires only at a PENDING parent, hits an undecided newest attempt, and a resubmission,
  which fires only at a REJECTED one, leaves only rejected attempts behind. Immutability and
  finality are consequences of one such step.
- *Timeline.* No recorded time, and no time a handler holds, lies in the future
  (`HandlersPast`, `TimesOf`): so whatever is inserted with the current clock is
  ordered after all that is there. The lemmas are stated about an arbitrary history of one
  proof (`TimesIn`), and cited once per action. For `ReviewDated`, `SeenInv` says of a review in flight that what it saw when it read the clock is dated no later than its
  time; so a decision on an attempt it saw is in order (`DatedAfter`), because all earlier ones were there too.
- *Images.* `OwnersOK` relates five sets abstractly: who is evidence of what, who holds what, what is on
  the volume, what was issued, what leaked. Each action is one of
  a handful of moves on these sets (store, attach, drop, delete, lose), each move preserves
  `OwnersOK`, and the three image properties follow from it.

The refinement `HistoryIsImplemented` rests on the first of these. Each action of a handler is matched with a step of `ProofHistory` under
`DeliveryProofs!Abstract`, or with none: the mapping sees the tables only, so that everything before and after a transaction is a stutter
(`StepsOnTables`). That a row of attempts *is* a sequence is `HistoryNumbered`; that a review of the queue's member decides the newest entry is the mirror of the two tables.

### The inbox

From the assumptions of the delivery proofs and `NSpec`. The composition's steps are steps of the service or leave it alone (`NStepsAreSteps`), so its invariants
hold here too. `FeedFollows` is proved action by action: what a step does to the rows of one proof of a driver (nothing, a first attempt, a further one, a decision) determines what it
does to the events derived from them. The feed is finite at every moment, which its count needs.

`SeenStaysRead` is not inductive: a page shows events when it is listed and writes the cursor later. `InboxInv` says what holds in between: a listed page
holds only what is past, a page that marks does so at a time not before what it lists (`PageInv`), and *not before the cursor*, which is where `IsNextMark`, the
order in which the adapter runs queries, is used; what was shown is never later than the cursor (`CursorInv`). The badge can then fall only by `MarkLand`: in any other step the feed
keeps its unread events and the cursor stays.

### The login limiter

From `LoginAssumption` (limit and window are positive; finitely many attempts at a time) and `Spec`. `MapInv` says that what the map remembers of a name and what was logged of it agree
*after the filter*: `OnlyRecent(Remembered(k), clock) = OnlyRecent(failures[k], clock)`. It is inductive by three facts about filtering: it distributes over `Append`,
filtering twice at one time is filtering once, and filtering now and then later is filtering later, because a failure that has expired stays expired. `LimitExact` is then a comparison of two lengths.

For `GuessesBounded` every failure that counts was either charged while the limit was not reached, or by an attempt that was in flight when it was. Each attempt adds one when it returns,
and leaves the set of those in flight: the sum never passes the limit by more than the attempts there can be.

### The dashboard

From `DashboardAssumption` (`None` is no list of messages and no slot), the assumptions of Conversations, and `Spec`. `DashboardInv` has a part for each place that knows conversations: the tables, the ghost `asked`, handlers, tabs, calls.
Every id in any of them was generated (`used`), a handler that asks has the conversation of its question in its closure (`TasksInv`), and a call that appends carries it on (`CallOK`).
`LinksInv` ties calls to handlers: a handler awaits one call, unless it saves its turn. So a result that returns to a handler is of the kind it waits for. `SavedInv` is what is left in the table.

`AnswersFollow` needs the order of the queue: `OrderInv` says that an answer that may still be saved either has its question in the conversation, or a call that saves it earlier in the
*same tab's* queue, for the same conversation. If the conversation is deleted between the two, both find it gone.

### The dashboard at rest

`ListMirrorsServer` and `ShownIsSaved` say nothing while a call is pending: by then the server has moved a row that the tab has not moved, and the tab shows a message
that no table has. The invariants say what is *due*.

`MirrorInv` (on top of `DashboardInv`) relates queue, handlers, page and rows of the one tab. Of the list it says what it will be once the *oldest* call has returned: the
rows, less those that a re-rendering created (`Visible`, which is `Without(recent, rendered)`). That is enough, because the framework serves the calls of a tab in order, so that only the oldest has changed
anything; `DueList` says for each operation and stage what its handler will do. It rests on

- *who awaits what* (`AllFit`, `AllSave`): each call is one that its handler awaits, with that handler's conversation, which is listed; the two saves of a turn stand next to each
  other, the question first;
- *who runs beside whom* (`AllSole`): `handleAsk`, `handleNew` and `handleSelect` run one at a time and keep the tab busy, a deletion runs alone and has captured the list as it is. That is where
  `Patient` is used. A rename may run beside any of the others;
- *what is active* (`ActiveListed`): the active conversation is listed, unless the one that takes its place is being loaded.

Each step of the server changes rows and stage together, so that what is due stays what the rows say (`ServeMirrors`); each return of a handler makes the list what was due (`EndMirrors`). No check fails and no query finds its row gone
(`HeadExists`): what a call names is listed, and what is listed exists until the tab itself deletes it.

`ShowInv` adds the messages. What is kept of those shown (`Kept`: without the questions whose answer never came) is the saved ones, and behind them `Unsaved`, the part of the turn in
flight that is not stored yet: the question while the agent is asked, both once it has answered, the answer after the first of the two calls, nothing after the second
(`AskShown`). A creation is answered with a conversation that is still empty, and a load with what its conversation still holds when the answer arrives (`AnswerOK`), because nothing is served after it before
it returns. `AppendShows` moves one message from what is unsaved to what is saved; every other step leaves `Unsaved` alone, or replaces what is shown by what was loaded.
TLC checked both invariants on the run's instance before they were proved.

The lemmas about a list and its filters (`SameFilter`, `FrontFiltered`, `FilteredTwice`) are independent of the dashboard, and rest on those of ListFiltersTheorems.

### The router

From `RouterAssumption` and `QueriesAssumption`: days are after the first year, because `date.today()` is; the names in a question are names of the catalogue, because they are found by looking for each
of its entries; the months and years of a phrase are what the regular expressions let through. TLC evaluates both on every run of the router.

- *Calendar.* `Day(y, m, d)` is monotone in the year (`YearsGrow`); of the at most two candidates of `YearOf` one is right, for every day there is; the months of
  a year adjoin, by cases over twelve months and leap years; so do its quarters, and weeks by arithmetic modulo 7. `DaysAreTiled` follows.
- *Decision.* The state between two readings of the clock is `RouterInv`: what was decided about the question is what `_rule_based_route` returns for it (`Routed`), the period is what
  was extracted on the day it was asked, that day or the one before is today, and what the tool was run on was read on one of the two. `AnswerInv` is what remains of it in the reply.
- `ScopesAreHonest` then compares the parser's readings phrase by phrase. That a test which matches decides is a least index; `LongestWins` takes a greatest length. Both exist by `Counting`.
- `OneIsNeverAll` and `ReportsAreCalls` are cases over the decided tool, once `Routed` is known.

### Reading page by page

From `LiveAssumption` (a page has at least one row, the records of a table of Odoo have numbers of their own, every request is for one of the tools) and `Spec`: for every size of a
page, all tables, and any number of changes and faults between two calls.

A report reads rows by offset while the table moves. The argument is how a table moves, where records come (`come`) and go (`gone`):

- *Tables.* `BooksInv`: the tables stay tables. A new record has an id that no other has (`FreshIsNew`), filtering and changing in place keep the ids apart.
- *Moves.* If nothing comes, a record can only move *up* (`MovesUp`: it is no later than it was); if nothing goes, a record that was there can only move *down* (`MovesDown`). Each of the eight
  changes is one of these (`ChangeIsAllowed`), also for the orders, of which a report reads only those of the lines it read before.
- *Pages.* `PagingInv` (`Paged`): if nothing appeared since the read of this table began, no row is repeated and none of those read is still ahead of the offset; if nothing disappeared, whatever is before the offset
  was read, or appeared. The first follows a record that moves up, the second one that moves down (`PagedMoves`); a page moves the offset over exactly the rows it adds (`PagedRead`); a
  retry begins again with nothing read (`Beginning`). `ReadIsHonest` itself says nothing between two pages, and is not inductive.

The last page is the one that is short, so that no record lies beyond the new offset: this is where `ReadIsHonest` follows.

### The programs that import the agent

From `GatewayAssumption` (finitely many workers, every tool reads at least once), `SessionsAssumption` (sessions and threads
are the workers; `None` is no reply, no question, no tool and no set of figures) and `SessionsSpec`. Nothing is assumed of the number of sessions, threads, tools,
interactions or changes of the books. `SessionsInv` is a conjunction:

- *Login.* `LoginsBounded` is not inductive: two threads may be on their way to a login when the first succeeds. `LoginInv` counts these too:
  `logins + Cardinality(LoggingIn)` never exceeds the number of workers, because before the first success every login still
  under way is a different worker, and after it nobody starts another.
- *Gateway.* Where the backend is mock data no job connects or calls, and none ends in an error (`JobOK`): an error of the model sends the
  job to the rules, and the rules of the model have nothing that raises. A refused configuration lets no job connect.
- *Admission.* A thread works only for a request that passed the token and then the limiter; without a secret no request is ever taken up.
- *Page.* A question has a number, and waits in one place at a time: in the interaction that waits (the click or the typed text), as the queued question, as
  the run's query, or in the conversation. `WaitingOK` says that these places hold different numbers, none greater than
  the last one asked (`Apart`). From `Submit` to `Join` the last turn of the conversation is the question of the run (`EndsWith`), so that the
  answer joins below its own question; a run that is cut short in between leaves the question, without an answer, and a number that no place holds
  any more. This is why a question is never asked twice.
- *Client.* The same of the service's conversation, where the thread is the only writer (`ClientOK`).

`FiguresInv`, on top of it, is about what is shown:

- *Runs* (`RunInv`). A run has a job only while it waits; a computation under `st.cache_data` reads once, so that what it caches has one version, of the moment it was read.
- *Export* (`ExportInv`). A conversation that holds a statement, and an answer that has been rendered and is about to join it, have the export in the cache. Nothing clears that cache: the order of
  rendering and joining is the whole argument.
- *Refresh* (`RefreshInv`). After a refresh that found no other session loading, `Since(n)` holds: neither cache has a version older than the refresh, *nor has any
  session a result that it is about to cache*. A session that begins to load later reads later.
- *Freshness* (`FreshInv`). Figures of a tool were read after the question was put (`JobFresh`). A text of the model repeats what it was sent, so that its figures are those of
  a *short* tool answer further up (`Quoted`), and only on the service; the page sends no answers along. By induction over the conversation, which only grows at its end (`TurnsFresh`), there is no other way.

The limiter inside the service is `ChatRateLimit` (`LimiterInService`: every step of `SessionsNext` is one of its steps or leaves it alone), so what is proved of one holds of the other. While
requests pass one at a time, `AloneInv` says that some thread, or none, is inside (`AloneAt`): the list it filters or appends to is the one the name refers to, a request missing from it has expired or
is about to be appended, and a request which passed the `len` finds room. `HeldInv` is what is left of it when requests overlap and none is lost: the list has the whole window, and the window *with* those
who are about to register (`WithinOvershoot`) stays below the limit and the threads together, because the list that a thread counts lacks only requests that other threads are about to append.

`TypeOK` and `SessionsTypeOK` are proved, and the type invariants of the other modules are stated in them and were checked with TLC while
they were written; they are not part of the runs.

### Only model-checked

- The liveness properties `HandlersEnd`, `ImagesSettle`, `ControlsReturn`: the prover does not handle `ENABLED`.
- The invariants of LiveReports: the reports are folds over rows, and their figures are sums. What a fold of the community modules computes for every input is out of the prover's reach.
- The type invariants of the modules without proofs.

## 6. Not modelled, and what could follow

- **Sessions and roles**, **proof image routes**. Issuing and refreshing a signed token is the framework's, and the guards are one comparison at the
  head of each action; the models start after them.
- **Business day**. A pure conversion over the tables of `Intl`, on which no state depends.
- **Exports and formatting**, except for the rows a table shows and what is cached; the **mock data** are constants.
- **The words**: which keywords and regular expressions, in either language, stand for an intent, a name or a date phrase. The router is modelled from
  what its tests find.
- **The language model**, validation of image bytes, text columns, read-only views, **proof pages and forms**, **deployment**.
- **Statements inside a transaction** (assumption 1).

Known limits of the code that were met while modelling and are neither promises broken nor hazards of a model: "last 30 days" covers 31 of them; "from
June 2025 to August 2025" is answered for June, and a month range in reverse order is empty; the router's own search for a month finds "may" inside other
words; when the model fails after a tool ran, the rules may run it again; the calls to Odoo have no
timeout; the panels of one dashboard are read at different moments; Refresh does not clear the cached exports; a queued question is dropped when
another is typed before its run, and one typed on the dashboard is lost if the dashboard then raises.

Proofs that could follow: that `LiveTypeOK` is kept.
