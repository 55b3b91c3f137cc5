--------------------------- MODULE ChatRateLimit ---------------------------
(***************************************************************************)
(* The limiter in front of /chat (apps/api/main.py).  `chat` is a sync     *)
(* handler, so FastAPI runs it on a pool of threads; the limiter has no    *)
(* lock.  The interpreter switches threads between bytecodes: after a      *)
(* call and between two rounds of a comprehension.                         *)
(*                                                                         *)
(* A list object is a set of requests, each with the time it was           *)
(* registered.  Rebinding _chat_request_times makes a new object; a thread *)
(* may still hold the old one.                                             *)
(***************************************************************************)
EXTENDS Naturals, Sequences, FiniteSetsExt

CONSTANTS
    Threads,             \* the threads of the pool
    RATE_LIMIT_MAX, RATE_LIMIT_WINDOW,
    MaxClock             \* bound on the clock

ASSUME LimiterAssumption ==
    /\ Cardinality(Threads) \in Nat \ {0}
    /\ {RATE_LIMIT_MAX, RATE_LIMIT_WINDOW} \subseteq Nat \ {0}
    /\ MaxClock \in Nat

VARIABLES
    lists,      \* the list objects
    current,    \* the object _chat_request_times is bound to
    thread,     \* what each thread holds
    admitted,   \* the times requests were admitted, in order
    clock       \* time.monotonic()

vars == <<lists, current, thread, admitted, clock>>

\* One object per thread, the current one and a new one.
Objects == 1..(Cardinality(Threads) + 2)

Idle == [pc |-> "idle"]

\* The objects that a name or a thread refers to; the others are garbage.
Live(cur, threads) ==
    {cur} \cup {threads[t].list : t \in {u \in Threads :
                                    threads[u].pc \in {"filtering", "appending"}}}

Init == /\ lists = [o \in Objects |-> {}]
        /\ current = 1
        /\ thread = [t \in Threads |-> Idle]
        /\ admitted = <<>>
        /\ clock = 0

Now == clock

\* chat -> _is_chat_rate_limited: `now` is read, then the list to filter.
FilterStart(t) ==
    /\ thread[t] = Idle
    /\ thread' = [thread EXCEPT ![t] = [pc |-> "filtering", list |-> current, now |-> Now]]
    /\ UNCHANGED <<lists, current, admitted, clock>>

Unexpired_Inclusive(n, now) ==             \* mutant: off by one
    now - admitted[n] <= RATE_LIMIT_WINDOW
Unexpired(n, now) == now - admitted[n] < RATE_LIMIT_WINDOW

\* The comprehension comes to its end, where it has seen all that was ever
\* appended to its source, and the name is bound to the new list.
FilterEnd(t) ==
    LET kept == {n \in lists[thread[t].list] : Unexpired(n, thread[t].now)}
        new == Min(Objects \ Live(current, thread))
        counting == [pc |-> "counting", now |-> thread[t].now] IN
    /\ thread[t].pc = "filtering"
    /\ thread' = [thread EXCEPT ![t] = counting]
    /\ current' = new
    /\ lists' = [o \in Objects |-> IF o = new THEN kept
                                   ELSE IF o \in Live(new, thread') THEN lists[o]
                                   ELSE {}]
    /\ UNCHANGED <<admitted, clock>>

\* len of whatever list the name is bound to by now.
Full_OneMore == Cardinality(lists[current]) > RATE_LIMIT_MAX    \* mutant: off by one
Full == Cardinality(lists[current]) >= RATE_LIMIT_MAX

Refuse(t) ==
    /\ thread[t].pc = "counting"
    /\ Full
    /\ thread' = [thread EXCEPT ![t] = Idle]
    /\ UNCHANGED <<lists, current, admitted, clock>>

Admit(t) ==
    /\ thread[t].pc = "counting"
    /\ ~Full
    /\ thread' = [thread EXCEPT ![t] = [pc |-> "registering"]]
    /\ UNCHANGED <<lists, current, admitted, clock>>

\* _register_chat_request looks up the list's append, then reads the clock.
RegisterStart(t) ==
    /\ thread[t].pc = "registering"
    /\ admitted' = Append(admitted, clock)
    /\ thread' = [thread EXCEPT ![t] = [pc |-> "appending", list |-> current,
                                        request |-> Len(admitted) + 1]]
    /\ UNCHANGED <<lists, current, clock>>

\* The append; then the agent answers, which the limiter does not see.
RegisterEnd(t) ==
    /\ thread[t].pc = "appending"
    /\ lists' = [lists EXCEPT ![thread[t].list] = @ \cup {thread[t].request}]
    /\ thread' = [thread EXCEPT ![t] = Idle]
    /\ UNCHANGED <<current, admitted, clock>>

Tick == /\ clock < MaxClock
        /\ clock' = clock + 1
        /\ UNCHANGED <<lists, current, thread, admitted>>

Next == \/ \E t \in Threads : \/ FilterStart(t) \/ FilterEnd(t)
                              \/ Refuse(t) \/ Admit(t)
                              \/ RegisterStart(t) \/ RegisterEnd(t)
        \/ Tick

Spec == Init /\ [][Next]_vars

-----------------------------------------------------------------------------
(***************************************************************************)
(* Properties.                                                             *)
(***************************************************************************)

Holding(pc) == {t \in Threads : thread[t].pc = pc}

\* The type invariant: a list holds requests that were admitted.
TypeOK ==
    /\ lists \in [Objects -> SUBSET (1..Len(admitted))]
    /\ current \in Objects
    /\ \A t \in Holding("filtering") : thread[t].list \in Objects /\ thread[t].now \in 0..clock
    /\ \A t \in Holding("appending") : /\ thread[t].list \in Objects
                                       /\ thread[t].request \in 1..Len(admitted)
    /\ Threads = UNION {Holding(pc) : pc \in {"idle", "filtering", "counting",
                                              "registering", "appending"}}
    /\ admitted \in Seq(0..MaxClock)
    /\ clock \in 0..MaxClock

\* The requests admitted in the window that ends at `now`.
Window(now) == {n \in 1..Len(admitted) : now - admitted[n] < RATE_LIMIT_WINDOW}

\* docs/API_CONTRACT.md: "max 30 requests per rolling 60 seconds".
RollingLimit == Cardinality(Window(clock)) <= RATE_LIMIT_MAX

\* A request is refused only if the limit was reached by requests admitted
\* in the window before it asked.
RefusalEarned ==
    [][\A t \in Threads : thread[t].pc = "counting" /\ thread'[t] = Idle
          => Cardinality(Window(thread[t].now)) >= RATE_LIMIT_MAX]_vars
=============================================================================
