--------------------------- MODULE Conversations ---------------------------
(***************************************************************************)
(* Saved conversations of one owner: the tables and the server actions of  *)
(* apps/web/app/actions/conversations.ts.                                  *)
(*                                                                         *)
(* The framework sends the server actions of one tab one at a time, in the *)
(* order they were called (external); an action awaits its queries, so the *)
(* actions of different tabs interleave between them.                      *)
(***************************************************************************)
EXTENDS Naturals, Sequences, FiniteSets, SequencesExt, Functions, ListFilters

CONSTANTS
    Tabs,                \* the pages the owner has open
    Ids,                 \* conversation ids the database may generate
    Faults,              \* the faults of the environment a run explores
    None

ASSUME ConversationsAssumption ==
    /\ Faults \subseteq {"server", "chat"}
    /\ None \notin Ids

VARIABLES
    messages,   \* tables Conversation and Message: by conversation, oldest first
    recent,     \* the conversations, orderBy updatedAt desc
    calls,      \* the actions each tab has called and not got back, in order
    used,       \* ghost: every id generated so far
    rendered    \* ghost: the conversations that a re-rendering has created

store == <<messages, recent, used, rendered>>
serverVars == <<store, calls>>

-----------------------------------------------------------------------------
\* The tables.

\* An update (@updatedAt) moves its conversation to the front.
ToFront(list, c) == <<c>> \o Without(list, {c})

Exists(c) == c \in DOMAIN messages

Message(q, role) == [question |-> q, role |-> role]

\* insertConversation; ensureUser finds the row there.
Create(c) ==
    /\ c \notin used
    /\ used' = used \cup {c}
    /\ messages' = [d \in DOMAIN messages \cup {c} |-> IF d = c THEN <<>> ELSE messages[d]]
    /\ recent' = <<c>> \o recent

\* The messages go with their conversation (onDelete: Cascade).
Drop(c) ==
    /\ messages' = Restrict(messages, DOMAIN messages \ {c})
    /\ recent' = Without(recent, {c})
    /\ UNCHANGED <<used, rendered>>

Retitle(c) ==
    /\ recent' = ToFront(recent, c)
    /\ UNCHANGED <<messages, used, rendered>>

\* message.create and conversation.update in one transaction.
Add(c, m) ==
    /\ messages' = [messages EXCEPT ![c] = Append(@, m)]
    /\ recent' = ToFront(recent, c)
    /\ UNCHANGED <<used, rendered>>

-----------------------------------------------------------------------------
\* The calls.  `task` is the handler that waits for the answer.

Call(task, op, c, m) == [task |-> task, op |-> op, conv |-> c, msg |-> m,
                         stage |-> "sent", result |-> None]

Oldest(t) == Head(calls[t])

At(t, stage) == calls[t] # <<>> /\ Oldest(t).stage = stage

Stage(t, stage, result) ==
    calls' = [calls EXCEPT ![t] = <<[Oldest(t) EXCEPT !.stage = stage, !.result = result]>>
                                    \o Tail(@)]

\* getApiToken, and loadConversation: the messages, or null.
ServeRead(t) ==
    LET c == Oldest(t).conv IN
    /\ At(t, "sent")
    /\ Oldest(t).op \in {"token", "load"}
    /\ Stage(t, "done", IF Exists(c) THEN messages[c] ELSE None)
    /\ UNCHANGED store

\* createConversation.
ServeCreate(t, c) ==
    /\ At(t, "sent")
    /\ Oldest(t).op = "create"
    /\ Create(c)
    /\ Stage(t, "written", c)
    /\ UNCHANGED rendered

\* findOwnedConversation, ahead of every write.
ServeCheck(t) ==
    /\ At(t, "sent")
    /\ Oldest(t).op \in {"rename", "delete", "append"}
    /\ Stage(t, IF Exists(Oldest(t).conv) THEN "checked" ELSE "failed", None)
    /\ UNCHANGED store

ServeRename(t) ==
    /\ At(t, "checked") /\ Oldest(t).op = "rename"
    /\ Exists(Oldest(t).conv)
    /\ Retitle(Oldest(t).conv)
    /\ Stage(t, "written", None)

ServeAppend(t) ==
    /\ At(t, "checked") /\ Oldest(t).op = "append"
    /\ Exists(Oldest(t).conv)
    /\ Add(Oldest(t).conv, Oldest(t).msg)
    /\ Stage(t, "done", None)

ServeDelete(t) ==
    /\ At(t, "checked") /\ Oldest(t).op = "delete"
    /\ Exists(Oldest(t).conv)
    /\ Drop(Oldest(t).conv)
    /\ Stage(t, "written", None)

\* Another tab has deleted the conversation since the check: the update, the
\* delete or the foreign key of the new message throws.
ServeGone(t) ==
    /\ At(t, "checked")
    /\ ~Exists(Oldest(t).conv)
    /\ Stage(t, "failed", None)
    /\ UNCHANGED store

\* revalidatePath: the framework may render the page again into the response
\* (external), and ensureInitialConversation then creates a conversation if it
\* finds none.  The client's state does not take it up.
ServeRevalidate(t) ==
    /\ At(t, "written")
    /\ Stage(t, "done", Oldest(t).result)
    /\ UNCHANGED store

ServeRerender(t, c) ==
    /\ At(t, "written")
    /\ recent = <<>>
    /\ Create(c)
    /\ rendered' = rendered \cup {c}
    /\ Stage(t, "done", Oldest(t).result)

\* A query rejects before it wrote, or the response is lost after.
ServeThrows(t) ==
    /\ "server" \in Faults
    /\ calls[t] # <<>> /\ Oldest(t).stage # "failed"
    /\ Stage(t, "failed", None)
    /\ UNCHANGED store

\* The tables agree, and the list has no conversation twice.
StoreTypeOK ==
    /\ DOMAIN messages \subseteq used
    /\ used \subseteq Ids
    /\ rendered \subseteq used
    /\ recent \in Seq(Ids)
    /\ ToSet(recent) = DOMAIN messages
    /\ Len(recent) = Cardinality(DOMAIN messages)
=============================================================================
