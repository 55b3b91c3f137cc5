--------------------------- MODULE LoginAttempts ---------------------------
(***************************************************************************)
(* Login attempts and their rate limiter (apps/web/lib/login-rate-limit.ts *)
(* and attemptLogin in lib/auth-credentials.ts).  The limiter is a map in  *)
(* process memory that is pruned by reads.  The limit is read before the   *)
(* password is compared and a failure is charged after it: the comparison  *)
(* awaits the database and bcrypt, so attempts on one name overlap.        *)
(***************************************************************************)
EXTENDS Naturals, Sequences, FiniteSets, Functions, ListFilters

CONSTANTS
    Usernames,           \* names someone tries to log in with
    Accounts,            \* those that have an account and a password
    Requests,            \* slots for the attempts in flight at once
    MAX_ATTEMPTS, WINDOW_MS,
    MaxClock             \* bound on the clock

ASSUME LoginAssumption ==
    /\ Accounts \subseteq Usernames
    /\ MAX_ATTEMPTS \in Nat \ {0}
    /\ WINDOW_MS \in Nat \ {0}
    /\ MaxClock \in Nat
    /\ IsFiniteSet(Requests)

VARIABLES
    failedByKey,    \* the limiter's map: the failures it remembers, by name
    req,            \* what each attempt in flight is doing
    clock,          \* Date.now()
    failures        \* ghost: every failure since the last success or restart

vars == <<failedByKey, req, clock, failures>>

Time == 0..MaxClock

-----------------------------------------------------------------------------
\* The limiter.

IsRecent_Inclusive(t, now) == now - t <= WINDOW_MS    \* mutant: off by one
IsRecent(t, now) == now - t < WINDOW_MS

\* filter keeps what is recent now, in order.
OnlyRecent(times, now) == Without(times, {t \in Nat : ~IsRecent(t, now)})

\* recentAttempts: what it returns ...
Recent(k) == IF k \in DOMAIN failedByKey THEN OnlyRecent(failedByKey[k], clock)
                                         ELSE <<>>

\* ... and what it, and registerFailedLogin, leave in the map.
Stored(k, times) ==
    LET others == Restrict(failedByKey, DOMAIN failedByKey \ {k}) IN
    IF times = <<>> THEN others
    ELSE [u \in DOMAIN others \cup {k} |-> IF u = k THEN times ELSE others[u]]

Limited_OneMore(k) == Len(Recent(k)) > MAX_ATTEMPTS    \* mutant: off by one
Limited(k) == Len(Recent(k)) >= MAX_ATTEMPTS

\* isLoginRateLimited prunes the name it is asked about.
Touch(k) == failedByKey' = Stored(k, Recent(k))

\* registerFailedLogin.
Charge(k) == /\ failedByKey' = Stored(k, Append(Recent(k), clock))
             /\ failures' = [failures EXCEPT ![k] = Append(@, clock)]

-----------------------------------------------------------------------------
\* The attempts.

Idle == [pc |-> "idle"]

Goto(r, pc, k) == req' = [req EXCEPT ![r] = [pc |-> pc, key |-> k]]

Return(r) == req' = [req EXCEPT ![r] = Idle]

Init == /\ failedByKey = [k \in {} |-> <<>>]
        /\ req = [r \in Requests |-> Idle]
        /\ clock = 0
        /\ failures = [k \in Usernames |-> <<>>]

\* loginAction asks the limiter first, to show its own message.
FormLocked(k) ==
    /\ \E r \in Requests : req[r] = Idle
    /\ Limited(k)
    /\ Touch(k)
    /\ UNCHANGED <<req, clock, failures>>

FormSignIn(r, k) ==
    /\ req[r] = Idle
    /\ ~Limited(k)
    /\ Touch(k)
    /\ Goto(r, "signing", k)
    /\ UNCHANGED <<clock, failures>>

\* The framework's own credentials route goes straight to authorize().
DirectSignIn(r, k) ==
    /\ req[r] = Idle
    /\ Goto(r, "signing", k)
    /\ UNCHANGED <<failedByKey, clock, failures>>

\* attemptLogin: locked out, nothing is compared and nothing is charged.
AttemptLocked_Charges(r) ==                \* mutant: a refusal counts as a failure
    /\ req[r].pc = "signing"
    /\ Limited(req[r].key)
    /\ Charge(req[r].key)
    /\ Return(r)
    /\ UNCHANGED clock
AttemptLocked(r) ==
    /\ req[r].pc = "signing"
    /\ Limited(req[r].key)
    /\ Touch(req[r].key)
    /\ Return(r)
    /\ UNCHANGED <<clock, failures>>

\* attemptLogin calls verifyCredentials.
AttemptVerify(r) ==
    /\ req[r].pc = "signing"
    /\ ~Limited(req[r].key)
    /\ Touch(req[r].key)
    /\ Goto(r, "verifying", req[r].key)
    /\ UNCHANGED <<clock, failures>>

\* verifyCredentials returned null: no such name, no usable hash, a wrong
\* password or an unknown role.
LoginFails(r) ==
    /\ req[r].pc = "verifying"
    /\ Charge(req[r].key)
    /\ Return(r)
    /\ UNCHANGED clock

\* It returned a user: resetLoginRateLimit.
LoginSucceeds(r) ==
    LET k == req[r].key IN
    /\ req[r].pc = "verifying"
    /\ k \in Accounts
    /\ failedByKey' = Restrict(failedByKey, DOMAIN failedByKey \ {k})
    /\ failures' = [failures EXCEPT ![k] = <<>>]
    /\ Return(r)
    /\ UNCHANGED clock

\* The query rejects: the attempt is neither charged nor forgiven.
LoginThrows(r) ==
    /\ req[r].pc = "verifying"
    /\ Return(r)
    /\ UNCHANGED <<failedByKey, clock, failures>>

\* The process restarts: the limiter forgets.
Restart ==
    /\ failedByKey' = [k \in {} |-> <<>>]
    /\ req' = [r \in Requests |-> Idle]
    /\ failures' = [k \in Usernames |-> <<>>]
    /\ UNCHANGED clock

Tick == /\ clock < MaxClock
        /\ clock' = clock + 1
        /\ UNCHANGED <<failedByKey, req, failures>>

Next == \/ \E k \in Usernames : FormLocked(k)
        \/ \E r \in Requests, k \in Usernames : FormSignIn(r, k) \/ DirectSignIn(r, k)
        \/ \E r \in Requests : \/ AttemptLocked(r) \/ AttemptVerify(r)
                               \/ LoginFails(r) \/ LoginSucceeds(r) \/ LoginThrows(r)
        \/ Restart
        \/ Tick

Spec == Init /\ [][Next]_vars

-----------------------------------------------------------------------------
(***************************************************************************)
(* Properties.                                                             *)
(***************************************************************************)

\* The type invariant: the map has no empty lists, and a list is in order.
TypeOK ==
    /\ DOMAIN failedByKey \subseteq Usernames
    /\ \A k \in DOMAIN failedByKey :
          /\ failedByKey[k] \in Seq(Time) \ {<<>>}
          /\ \A i, j \in DOMAIN failedByKey[k] : i <= j => failedByKey[k][i] <= failedByKey[k][j]
    /\ req \in [Requests -> {Idle} \cup [pc : {"signing", "verifying"}, key : Usernames]]
    /\ clock \in Time
    /\ failures \in [Usernames -> Seq(Time)]

\* The failures of the last WINDOW_MS.
Last(k) == {i \in DOMAIN failures[k] : clock - failures[k][i] < WINDOW_MS}

InFlight(k) == {r \in Requests : req[r].pc = "verifying" /\ req[r].key = k}

\* Pruning is invisible: a name is limited exactly if MAX_ATTEMPTS logins on
\* that very name have failed in the last WINDOW_MS since its last success,
\* whichever reads have thrown entries or keys away meanwhile.
LimitIsExact ==
    \A k \in Usernames : Limited(k) <=> Cardinality(Last(k)) >= MAX_ATTEMPTS

\* What the limit bounds, given that the check precedes the comparison: the
\* comparisons made or under way in a window never exceed the limit by more
\* than the attempts that were in flight together.
GuessesBounded ==
    \A k \in Usernames :
        Cardinality(Last(k)) + Cardinality(InFlight(k))
            <= MAX_ATTEMPTS - 1 + Cardinality(Requests)

\* Knocking on a locked door does not keep it locked: while a name is limited
\* and no comparison on it is under way, its failures only age.
LockoutNotProlonged ==
    [][\A k \in Usernames :
          Limited(k) /\ InFlight(k) = {} => Last(k)' \subseteq Last(k)]_vars
=============================================================================
