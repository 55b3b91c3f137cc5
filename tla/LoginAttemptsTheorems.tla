----------------------- MODULE LoginAttemptsTheorems -----------------------
(***************************************************************************)
(* Theorems about LoginAttempts, for every set of names and of attempts in *)
(* flight, every limit and every window: pruning is invisible, so that the *)
(* limiter's map counts exactly the failures of the window, and what the   *)
(* limit bounds though the check precedes the comparison.                  *)
(***************************************************************************)
EXTENDS LoginAttempts, ListFiltersTheorems

-----------------------------------------------------------------------------
(***************************************************************************)
(* What is recent in a list of times.                                      *)
(***************************************************************************)

\* What the filter throws away.
Old(now) == {t \in Nat : ~IsRecent(t, now)}

\* The recent times of no times, and of one time more;
LEMMA FilterEquations ==
  ASSUME NEW now
  PROVE  /\ OnlyRecent(<<>>, now) = <<>>
         /\ \A times \in Seq(Nat), t \in Nat :
               OnlyRecent(Append(times, t), now) =
                 IF IsRecent(t, now) THEN Append(OnlyRecent(times, now), t)
                 ELSE OnlyRecent(times, now)
<1>1. Without(<<>>, Old(now)) = <<>>
  BY WithoutNone
<1>2. ASSUME NEW times \in Seq(Nat), NEW t \in Nat
      PROVE  Without(Append(times, t), Old(now)) =
               IF IsRecent(t, now) THEN Append(Without(times, Old(now)), t)
               ELSE Without(times, Old(now))
  <2>1. Without(Append(times, t), Old(now)) =
          IF t \in Old(now) THEN Without(times, Old(now)) ELSE Append(Without(times, Old(now)), t)
    BY WithoutNext
  <2>. QED  BY <2>1 DEF Old
<1>. QED  BY <1>1, <1>2 DEF OnlyRecent, Old

\* they are a list of times;
LEMMA FilterType ==
  ASSUME NEW now
  PROVE  \A times \in Seq(Nat) : OnlyRecent(times, now) \in Seq(Nat)
<1>1. ASSUME NEW times \in Seq(Nat)
      PROVE  Without(times, Old(now)) \in Seq(Nat)
  <2>1. Without(times, Old(now)) \in Seq(Nat \ Old(now))
    BY WithoutType
  <2>. QED  BY <2>1
<1>. QED  BY <1>1 DEF OnlyRecent, Old

\* what is no longer recent will not be again;
LEMMA FilterAgain ==
  ASSUME NEW now \in Nat, NEW later \in Nat, now <= later
  PROVE  \A times \in Seq(Nat) :
            OnlyRecent(OnlyRecent(times, now), later) = OnlyRecent(times, later)
<1>1. Old(now) \subseteq Old(later)
  BY LoginAssumption DEF Old, IsRecent
<1>2. \A times \in Seq(Nat) :
        Without(Without(times, Old(now)), Old(later)) = Without(times, Old(later))
  BY <1>1, WithoutTwice
<1>. QED  BY <1>2 DEF OnlyRecent, Old

\* The entries of a list that are recent.
RecentIn(times, now) == {i \in DOMAIN times : IsRecent(times[i], now)}

\* and there are as many of them as there are recent entries.
LEMMA FilterCounts ==
  ASSUME NEW now
  PROVE  \A times \in Seq(Nat) :
            /\ IsFiniteSet(RecentIn(times, now))
            /\ Len(OnlyRecent(times, now)) = Cardinality(RecentIn(times, now))
<1>1. ASSUME NEW times \in Seq(Nat)
      PROVE  /\ IsFiniteSet(RecentIn(times, now))
             /\ Len(Without(times, Old(now))) = Cardinality(RecentIn(times, now))
  <2>1. RecentIn(times, now) = Places(times, Old(now))
    BY DEF RecentIn, Places, Old
  <2>. QED  BY <2>1, WithoutCounts
<1>. QED  BY <1>1 DEF OnlyRecent, Old

-----------------------------------------------------------------------------
(***************************************************************************)
(* Pruning is invisible.                                                   *)
(***************************************************************************)

\* What the map holds of a name.
Remembered(k) == IF k \in DOMAIN failedByKey THEN failedByKey[k] ELSE <<>>

\* The types of the limiter and of the attempts.
LoginTyped ==
    /\ DOMAIN failedByKey \subseteq Usernames
    /\ \A k \in Usernames : Remembered(k) \in Seq(Nat)
    /\ req \in [Requests -> {Idle} \cup [pc : {"signing", "verifying"}, key : Usernames]]
    /\ clock \in Nat
    /\ failures \in [Usernames -> Seq(Nat)]

\* What is remembered of a name and recent is what failed on it and is recent.
MapInv == \A k \in Usernames :
            OnlyRecent(Remembered(k), clock) = OnlyRecent(failures[k], clock)

\* The result of recentAttempts.
LEMMA RecentIs == \A k : Recent(k) = OnlyRecent(Remembered(k), clock)
BY FilterEquations DEF Recent, Remembered

\* Storing a list, empty or not, changes what is remembered of one name.
LEMMA StoredIs ==
  ASSUME NEW k \in Usernames, NEW times \in Seq(Nat), failedByKey' = Stored(k, times),
         DOMAIN failedByKey \subseteq Usernames
  PROVE  /\ DOMAIN failedByKey' \subseteq Usernames
         /\ Remembered(k)' = times
         /\ \A u \in Usernames \ {k} : Remembered(u)' = Remembered(u)
<1>1. CASE times = <<>>
  BY <1>1 DEF Stored, Remembered, Restrict
<1>2. CASE times # <<>>
  <2>1. /\ DOMAIN failedByKey' = (DOMAIN failedByKey \ {k}) \cup {k}
        /\ failedByKey'[k] = times
        /\ \A u \in DOMAIN failedByKey \ {k} : failedByKey'[u] = failedByKey[u]
    BY <1>2 DEF Stored, Restrict
  <2>. QED  BY <2>1 DEF Remembered
<1>. QED  BY <1>1, <1>2

\* Asking about a name prunes it, and changes nothing that is recent.
LEMMA TouchKeeps ==
  ASSUME LoginTyped, MapInv, NEW k \in Usernames, Touch(k), UNCHANGED <<clock, failures>>
  PROVE  /\ DOMAIN failedByKey' \subseteq Usernames
         /\ \A u \in Usernames : Remembered(u)' \in Seq(Nat)
         /\ MapInv'
<1>. PICK kept : kept = OnlyRecent(Remembered(k), clock)
  OBVIOUS
<1>1. kept \in Seq(Nat) /\ failedByKey' = Stored(k, kept)
  BY RecentIs, FilterType DEF Touch, LoginTyped
<1>2. /\ DOMAIN failedByKey' \subseteq Usernames
      /\ Remembered(k)' = kept
      /\ \A u \in Usernames \ {k} : Remembered(u)' = Remembered(u)
  BY <1>1, StoredIs DEF LoginTyped
<1>3. OnlyRecent(kept, clock) = OnlyRecent(failures[k], clock)
  BY FilterAgain DEF LoginTyped, MapInv
<1>4. \A u \in Usernames : Remembered(u)' \in Seq(Nat)
  BY <1>1, <1>2 DEF LoginTyped
<1>5. \A u \in Usernames : OnlyRecent(Remembered(u)', clock) = OnlyRecent(failures[u], clock)
  BY <1>2, <1>3 DEF MapInv
<1>. QED  BY <1>2, <1>4, <1>5 DEF MapInv

\* Charging a name adds the same entry to what is remembered and what failed.
LEMMA ChargeKeeps ==
  ASSUME LoginTyped, MapInv, NEW k \in Usernames, Charge(k), UNCHANGED clock
  PROVE  /\ DOMAIN failedByKey' \subseteq Usernames
         /\ \A u \in Usernames : Remembered(u)' \in Seq(Nat)
         /\ failures' \in [Usernames -> Seq(Nat)]
         /\ MapInv'
<1>. PICK kept, failed : /\ kept = OnlyRecent(Remembered(k), clock)
                         /\ failed = failures[k]
  OBVIOUS
<1>1. kept \in Seq(Nat) /\ failed \in Seq(Nat) /\ clock \in Nat
  BY FilterType DEF LoginTyped
<1>2. Append(kept, clock) \in Seq(Nat) /\ Append(failed, clock) \in Seq(Nat)
  BY <1>1
<1>3. failedByKey' = Stored(k, Append(kept, clock))
  BY RecentIs DEF Charge
<1>4. /\ DOMAIN failedByKey' \subseteq Usernames
      /\ Remembered(k)' = Append(kept, clock)
      /\ \A u \in Usernames \ {k} : Remembered(u)' = Remembered(u)
  BY <1>2, <1>3, StoredIs DEF LoginTyped
<1>5. /\ failures' \in [Usernames -> Seq(Nat)]
      /\ failures'[k] = Append(failed, clock)
      /\ \A u \in Usernames \ {k} : failures'[u] = failures[u]
  BY <1>2 DEF Charge, LoginTyped
<1>6. OnlyRecent(Append(kept, clock), clock) = OnlyRecent(Append(failed, clock), clock)
  <2>1. IsRecent(clock, clock)
    BY <1>1, LoginAssumption DEF IsRecent
  <2>2. OnlyRecent(kept, clock) = OnlyRecent(failed, clock)
    BY <1>1, FilterAgain DEF LoginTyped, MapInv
  <2>3. /\ OnlyRecent(Append(kept, clock), clock) = Append(OnlyRecent(kept, clock), clock)
        /\ OnlyRecent(Append(failed, clock), clock) = Append(OnlyRecent(failed, clock), clock)
    BY <1>1, <2>1, FilterEquations
  <2>. QED  BY <2>2, <2>3
<1>7. \A u \in Usernames : Remembered(u)' \in Seq(Nat)
  BY <1>2, <1>4 DEF LoginTyped
<1>8. \A u \in Usernames : OnlyRecent(Remembered(u)', clock) = OnlyRecent(failures'[u], clock)
  BY <1>4, <1>5, <1>6 DEF MapInv
<1>. QED  BY <1>4, <1>5, <1>7, <1>8 DEF MapInv

\* Time ages both alike.
LEMMA TickKeeps ==
  ASSUME LoginTyped, MapInv, clock' = clock + 1, UNCHANGED <<failedByKey, failures>>
  PROVE  MapInv'
<1>1. clock \in Nat /\ clock' \in Nat /\ clock <= clock'
  BY DEF LoginTyped
<1>2. ASSUME NEW k \in Usernames
      PROVE  OnlyRecent(Remembered(k), clock') = OnlyRecent(failures[k], clock')
  <2>1. Remembered(k) \in Seq(Nat) /\ failures[k] \in Seq(Nat)
    BY DEF LoginTyped
  <2>2. OnlyRecent(OnlyRecent(Remembered(k), clock), clock') = OnlyRecent(Remembered(k), clock')
    BY <1>1, <2>1, FilterAgain
  <2>3. OnlyRecent(OnlyRecent(failures[k], clock), clock') = OnlyRecent(failures[k], clock')
    BY <1>1, <2>1, FilterAgain
  <2>. QED  BY <2>2, <2>3 DEF MapInv
<1>. QED  BY <1>2 DEF MapInv, Remembered

\* The attempts in flight stay well typed.
LEMMA AttemptsTyped ==
  ASSUME LoginTyped, [Next]_vars
  PROVE  req' \in [Requests -> {Idle} \cup [pc : {"signing", "verifying"}, key : Usernames]]
<1>1. ASSUME NEW r \in Requests, NEW k \in Usernames, FormSignIn(r, k) \/ DirectSignIn(r, k)
      PROVE  req' \in [Requests -> {Idle} \cup [pc : {"signing", "verifying"}, key : Usernames]]
  BY <1>1 DEF LoginTyped, FormSignIn, DirectSignIn, Goto
<1>2. ASSUME NEW r \in Requests, AttemptVerify(r)
      PROVE  req' \in [Requests -> {Idle} \cup [pc : {"signing", "verifying"}, key : Usernames]]
  <2>1. req[r].key \in Usernames
    BY <1>2 DEF LoginTyped, AttemptVerify, Idle
  <2>. QED  BY <1>2, <2>1 DEF LoginTyped, AttemptVerify, Goto
<1>3. ASSUME NEW r \in Requests,
             AttemptLocked(r) \/ LoginFails(r) \/ LoginSucceeds(r) \/ LoginThrows(r)
      PROVE  req' \in [Requests -> {Idle} \cup [pc : {"signing", "verifying"}, key : Usernames]]
  BY <1>3 DEF LoginTyped, AttemptLocked, LoginFails, LoginSucceeds, LoginThrows, Return
<1>4. ASSUME (\E k \in Usernames : FormLocked(k)) \/ Tick \/ UNCHANGED vars
      PROVE  UNCHANGED req
  BY <1>4 DEF FormLocked, Tick, vars
<1>5. Restart => req' \in [Requests -> {Idle} \cup [pc : {"signing", "verifying"}, key : Usernames]]
  BY DEF Restart
<1>. QED  BY <1>1, <1>2, <1>3, <1>4, <1>5 DEF Next, LoginTyped

\* An attempt in flight is on a name.
LEMMA AttemptKey ==
  ASSUME LoginTyped, NEW r \in Requests, req[r].pc \in {"signing", "verifying"}
  PROVE  req[r].key \in Usernames
BY DEF LoginTyped, Idle

\* What each step does to the limiter: it asks about a name, charges one,
\* forgives one, forgets all, or leaves it alone while the clock may tick.
LEMMA LimiterSteps ==
  ASSUME LoginTyped, [Next]_vars
  PROVE  \/ \E k \in Usernames : Touch(k) /\ UNCHANGED <<clock, failures>>
         \/ \E k \in Usernames : Charge(k) /\ UNCHANGED clock
         \/ \E r \in Requests : LoginSucceeds(r)
         \/ Restart
         \/ UNCHANGED <<failedByKey, failures>> /\ clock' \in {clock, clock + 1}
<1>1. ASSUME NEW r \in Requests, AttemptLocked(r) \/ AttemptVerify(r)
      PROVE  \E k \in Usernames : Touch(k) /\ UNCHANGED <<clock, failures>>
  BY <1>1, AttemptKey DEF AttemptLocked, AttemptVerify
<1>2. ASSUME NEW r \in Requests, LoginFails(r)
      PROVE  \E k \in Usernames : Charge(k) /\ UNCHANGED clock
  BY <1>2, AttemptKey DEF LoginFails
<1>3. ASSUME NEW k \in Usernames, FormLocked(k) \/ \E r \in Requests : FormSignIn(r, k)
      PROVE  Touch(k) /\ UNCHANGED <<clock, failures>>
  BY <1>3 DEF FormLocked, FormSignIn
<1>4. ASSUME NEW r \in Requests, LoginThrows(r) \/ \E k \in Usernames : DirectSignIn(r, k)
      PROVE  UNCHANGED <<failedByKey, failures, clock>>
  BY <1>4 DEF LoginThrows, DirectSignIn
<1>5. Tick => UNCHANGED <<failedByKey, failures>> /\ clock' = clock + 1
  BY DEF Tick
<1>6. UNCHANGED vars => UNCHANGED <<failedByKey, failures, clock>>
  BY DEF vars
<1>. QED  BY <1>1, <1>2, <1>3, <1>4, <1>5, <1>6 DEF Next

\* Every step keeps the invariant.
LEMMA LimiterPreserved ==
  ASSUME LoginTyped, MapInv, [Next]_vars
  PROVE  LoginTyped' /\ MapInv'
<1>. DEFINE Kept == /\ DOMAIN failedByKey' \subseteq Usernames
                    /\ \A u \in Usernames : Remembered(u)' \in Seq(Nat)
                    /\ clock' \in Nat
                    /\ failures' \in [Usernames -> Seq(Nat)]
                    /\ MapInv'
<1>1. ASSUME NEW k \in Usernames, Touch(k), UNCHANGED <<clock, failures>>
      PROVE  Kept
  BY <1>1, TouchKeeps DEF LoginTyped
<1>2. ASSUME NEW k \in Usernames, Charge(k), UNCHANGED clock
      PROVE  Kept
  BY <1>2, ChargeKeeps DEF LoginTyped
<1>3. ASSUME NEW r \in Requests, LoginSucceeds(r)
      PROVE  Kept
  <2>. PICK k : k = req[r].key
    OBVIOUS
  <2>1. k \in Usernames
    BY <1>3, AttemptKey DEF LoginSucceeds
  <2>2. /\ DOMAIN failedByKey' = DOMAIN failedByKey \ {k}
        /\ \A u \in DOMAIN failedByKey \ {k} : failedByKey'[u] = failedByKey[u]
    BY <1>3 DEF LoginSucceeds, Restrict
  <2>3. Remembered(k)' = <<>> /\ \A u \in Usernames \ {k} : Remembered(u)' = Remembered(u)
    BY <2>2 DEF Remembered
  <2>4. <<>> \in Seq(Nat)
    OBVIOUS
  <2>5. /\ failures' = [failures EXCEPT ![k] = <<>>]
        /\ clock' = clock
    BY <1>3 DEF LoginSucceeds
  <2>6. /\ failures' \in [Usernames -> Seq(Nat)]
        /\ failures'[k] = <<>> /\ \A u \in Usernames \ {k} : failures'[u] = failures[u]
    BY <2>1, <2>4, <2>5 DEF LoginTyped
  <2>7. \A u \in Usernames : OnlyRecent(Remembered(u)', clock) = OnlyRecent(failures'[u], clock)
    BY <2>3, <2>6 DEF MapInv
  <2>8. MapInv'
    BY <2>5, <2>7 DEF MapInv
  <2>9. \A u \in Usernames : Remembered(u)' \in Seq(Nat)
    BY <2>3, <2>4 DEF LoginTyped
  <2>. QED  BY <2>2, <2>5, <2>6, <2>8, <2>9 DEF LoginTyped
<1>4. ASSUME Restart
      PROVE  Kept
  <2>1. <<>> \in Seq(Nat)
    OBVIOUS
  <2>2. \A u : Remembered(u)' = <<>>
    BY <1>4 DEF Restart, Remembered
  <2>3. failures' = [k \in Usernames |-> <<>>] /\ clock' = clock /\ DOMAIN failedByKey' = {}
    BY <1>4 DEF Restart
  <2>4. \A u \in Usernames : Remembered(u)' \in Seq(Nat) /\ failures'[u] = <<>>
    BY <2>1, <2>2, <2>3
  <2>5. failures' \in [Usernames -> Seq(Nat)]
    BY <2>1, <2>3
  <2>. QED  BY <2>2, <2>3, <2>4, <2>5 DEF LoginTyped, MapInv
<1>5. ASSUME UNCHANGED <<failedByKey, failures>>, clock' \in {clock, clock + 1}
      PROVE  Kept
  <2>1. MapInv'
    <3>1. CASE clock' = clock
      BY <1>5, <3>1 DEF MapInv, Remembered
    <3>2. CASE clock' = clock + 1
      BY <1>5, <3>2, TickKeeps
    <3>. QED  BY <1>5, <3>1, <3>2
  <2>. QED  BY <1>5, <2>1 DEF LoginTyped, Remembered
<1>6. Kept
  BY <1>1, <1>2, <1>3, <1>4, <1>5, LimiterSteps
<1>. QED  BY <1>6, AttemptsTyped DEF LoginTyped

\* It holds in every reachable state.
LEMMA LimiterInvariant == Spec => [](LoginTyped /\ MapInv)
<1>1. Init => LoginTyped /\ MapInv
  <2>. SUFFICES ASSUME Init
                PROVE  LoginTyped /\ MapInv
    OBVIOUS
  <2>1. <<>> \in Seq(Nat)
    OBVIOUS
  <2>2. \A u : Remembered(u) = <<>>
    BY DEF Init, Remembered
  <2>3. /\ failures = [k \in Usernames |-> <<>>] /\ clock = 0 /\ DOMAIN failedByKey = {}
        /\ req = [r \in Requests |-> Idle]
    BY DEF Init
  <2>4. \A u \in Usernames : Remembered(u) \in Seq(Nat) /\ failures[u] = <<>>
    BY <2>1, <2>2, <2>3
  <2>5. failures \in [Usernames -> Seq(Nat)]
    BY <2>1, <2>3
  <2>. QED  BY <2>2, <2>3, <2>4, <2>5 DEF LoginTyped, MapInv
<1>. QED  BY <1>1, LimiterPreserved, PTL DEF Spec

\* The failures of a window are finitely many and Limited counts them.
LEMMA LimitedCounts ==
  ASSUME LoginTyped, MapInv, NEW k \in Usernames
  PROVE  /\ IsFiniteSet(Last(k)) /\ Cardinality(Last(k)) \in Nat
         /\ Limited(k) <=> Cardinality(Last(k)) >= MAX_ATTEMPTS
<1>1. Last(k) = RecentIn(failures[k], clock)
  BY DEF Last, RecentIn, IsRecent
<1>2. failures[k] \in Seq(Nat)
  BY DEF LoginTyped
<1>3. Recent(k) = OnlyRecent(failures[k], clock)
  BY RecentIs DEF MapInv
<1>4. IsFiniteSet(Last(k)) /\ Len(Recent(k)) = Cardinality(Last(k))
  BY <1>1, <1>2, <1>3, FilterCounts
<1>. QED  BY <1>4, FS_CardinalityType DEF Limited

\* Pruning is invisible: the map, of which every read throws away entries and
\* whole keys, limits a name exactly when MAX_ATTEMPTS logins on that name
\* have failed in the window since its last success.
THEOREM LimitExact == Spec => []LimitIsExact
<1>1. LoginTyped /\ MapInv => LimitIsExact
  BY LimitedCounts DEF LimitIsExact
<1>. QED  BY <1>1, LimiterInvariant, PTL

-----------------------------------------------------------------------------
(***************************************************************************)
(* What the limit bounds.                                                  *)
(***************************************************************************)

\* The comparisons under way are finitely many, at most one per slot.
LEMMA InFlightBounded ==
  ASSUME NEW k
  PROVE  /\ IsFiniteSet(InFlight(k)) /\ Cardinality(InFlight(k)) \in Nat
         /\ Cardinality(InFlight(k)) <= Cardinality(Requests) /\ Cardinality(Requests) \in Nat
<1>1. InFlight(k) \in SUBSET Requests
  BY DEF InFlight
<1>2. IsFiniteSet(InFlight(k)) /\ Cardinality(InFlight(k)) <= Cardinality(Requests)
  BY <1>1, FS_Subset, LoginAssumption
<1>. QED  BY <1>2, FS_CardinalityType, LoginAssumption

\* Fewer failures and fewer comparisons are within the bound if more are.
LEMMA FewerIsBounded ==
  ASSUME NEW failed, NEW flying, IsFiniteSet(failed), IsFiniteSet(flying), NEW bound \in Nat,
         Cardinality(failed) + Cardinality(flying) <= bound,
         NEW fewer \in SUBSET failed, NEW less \in SUBSET flying
  PROVE  Cardinality(fewer) + Cardinality(less) <= bound
<1>1. /\ Cardinality(fewer) <= Cardinality(failed) /\ IsFiniteSet(fewer)
      /\ Cardinality(less) <= Cardinality(flying) /\ IsFiniteSet(less)
  BY FS_Subset
<1>. QED  BY <1>1, FS_CardinalityType

\* Time, and a step that charges nothing, only takes failures out of a window.
LEMMA LastAges ==
  ASSUME LoginTyped, NEW k \in Usernames, clock' \in {clock, clock + 1},
         failures'[k] = failures[k]
  PROVE  Last(k)' \subseteq Last(k)
<1>1. clock \in Nat /\ \A i \in DOMAIN failures[k] : failures[k][i] \in Nat
  BY DEF LoginTyped
<1>2. \A i \in DOMAIN failures[k] : clock' - failures[k][i] < WINDOW_MS
                                   => clock - failures[k][i] < WINDOW_MS
  BY <1>1, LoginAssumption
<1>. QED  BY <1>2 DEF Last

\* A step starts a comparison on a name, ends one with a failure, or adds
\* neither a failure nor a comparison to what counts for that name.
LEMMA GuessSteps ==
  ASSUME LoginTyped, [Next]_vars, NEW k \in Usernames
  PROVE  \/ \E r \in Requests : AttemptVerify(r) /\ req[r].key = k
         \/ \E r \in Requests : LoginFails(r) /\ req[r].key = k
         \/ Last(k)' \subseteq Last(k) /\ InFlight(k)' \subseteq InFlight(k)
<1>. DEFINE Fewer == Last(k)' \subseteq Last(k) /\ InFlight(k)' \subseteq InFlight(k)
<1>1. ASSUME NEW r \in Requests, AttemptVerify(r), req[r].key # k
      PROVE  Fewer
  <2>1. Last(k)' \subseteq Last(k)
    BY <1>1, LastAges DEF AttemptVerify
  <2>2. InFlight(k)' \subseteq InFlight(k)
    BY <1>1 DEF AttemptVerify, Goto, InFlight, LoginTyped
  <2>. QED  BY <2>1, <2>2
<1>2. ASSUME NEW r \in Requests, Return(r)
      PROVE  InFlight(k)' \subseteq InFlight(k)
  BY <1>2 DEF Return, InFlight, LoginTyped, Idle
<1>3. ASSUME NEW r \in Requests, LoginFails(r), req[r].key # k
      PROVE  Fewer
  <2>1. Last(k)' \subseteq Last(k)
    <3>1. req[r].key \in Usernames
      BY <1>3, AttemptKey DEF LoginFails
    <3>2. failures'[k] = failures[k] /\ clock' = clock
      BY <1>3, <3>1 DEF LoginFails, Charge, LoginTyped
    <3>. QED  BY <3>2, LastAges
  <2>. QED  BY <1>2, <1>3, <2>1 DEF LoginFails
<1>4. ASSUME NEW r \in Requests, LoginSucceeds(r)
      PROVE  Fewer
  <2>1. clock' = clock /\ (failures'[k] = failures[k] \/ failures'[k] = <<>>)
    BY <1>4 DEF LoginSucceeds, LoginTyped
  <2>2. Last(k)' \subseteq Last(k)
    <3>1. CASE failures'[k] = failures[k]
      BY <2>1, <3>1, LastAges
    <3>2. CASE failures'[k] = <<>>
      BY <3>2 DEF Last
    <3>. QED  BY <2>1, <3>1, <3>2
  <2>. QED  BY <1>2, <1>4, <2>2 DEF LoginSucceeds
<1>5. ASSUME NEW r \in Requests, LoginThrows(r) \/ AttemptLocked(r)
      PROVE  Fewer
  <2>1. Last(k)' \subseteq Last(k)
    BY <1>5, LastAges DEF LoginThrows, AttemptLocked
  <2>. QED  BY <1>2, <1>5, <2>1 DEF LoginThrows, AttemptLocked
<1>6. ASSUME NEW r \in Requests, NEW u \in Usernames, FormSignIn(r, u) \/ DirectSignIn(r, u)
      PROVE  Fewer
  <2>1. Last(k)' \subseteq Last(k)
    BY <1>6, LastAges DEF FormSignIn, DirectSignIn
  <2>2. req' = [req EXCEPT ![r] = [pc |-> "signing", key |-> u]]
    BY <1>6 DEF FormSignIn, DirectSignIn, Goto
  <2>3. InFlight(k)' \subseteq InFlight(k)
    BY <2>2 DEF InFlight, LoginTyped
  <2>. QED  BY <2>1, <2>3
<1>7. ASSUME (\E u \in Usernames : FormLocked(u)) \/ Tick \/ UNCHANGED vars
      PROVE  Fewer
  <2>1. UNCHANGED <<req, failures>> /\ clock' \in {clock, clock + 1}
    BY <1>7 DEF FormLocked, Tick, vars
  <2>. QED  BY <2>1, LastAges DEF InFlight
<1>8. ASSUME Restart
      PROVE  Fewer
  BY <1>8 DEF Restart, Last, InFlight, Idle
<1>. QED  BY <1>1, <1>3, <1>4, <1>5, <1>6, <1>7, <1>8 DEF Next

\* Every step keeps the bound.
LEMMA GuessesPreserved ==
  ASSUME LoginTyped, MapInv, LoginTyped', MapInv', GuessesBounded, [Next]_vars
  PROVE  GuessesBounded'
<1>. SUFFICES ASSUME NEW k \in Usernames
              PROVE  (Cardinality(Last(k)) + Cardinality(InFlight(k))
                        <= MAX_ATTEMPTS - 1 + Cardinality(Requests))'
  BY DEF GuessesBounded
<1>. PICK bound : bound = MAX_ATTEMPTS - 1 + Cardinality(Requests)
  OBVIOUS
<1>1. /\ bound \in Nat
      /\ Cardinality(Last(k)) + Cardinality(InFlight(k)) <= bound
  BY InFlightBounded, LoginAssumption DEF GuessesBounded
<1>2. /\ IsFiniteSet(Last(k)) /\ Cardinality(Last(k)) \in Nat
      /\ IsFiniteSet(InFlight(k)) /\ Cardinality(InFlight(k)) \in Nat
  BY LimitedCounts, InFlightBounded
<1>3. ASSUME NEW r \in Requests, AttemptVerify(r), req[r].key = k
      PROVE  Cardinality(Last(k)') + Cardinality(InFlight(k)') <= bound
  <2>1. ~Limited(k) /\ Last(k)' = Last(k)
    BY <1>3 DEF AttemptVerify, Last
  <2>2. Cardinality(Last(k)) <= MAX_ATTEMPTS - 1
    BY <1>2, <2>1, LimitedCounts, LoginAssumption
  <2>3. PICK flying : flying = InFlight(k)'
    OBVIOUS
  <2>4. flying \in SUBSET Requests
    BY <2>3 DEF InFlight
  <2>5. /\ Cardinality(flying) <= Cardinality(Requests) /\ Cardinality(flying) \in Nat
        /\ Cardinality(Requests) \in Nat
    BY <2>4, FS_Subset, FS_CardinalityType, LoginAssumption
  <2>. QED  BY <1>2, <2>1, <2>2, <2>3, <2>5, LoginAssumption
<1>4. ASSUME NEW r \in Requests, LoginFails(r), req[r].key = k
      PROVE  Cardinality(Last(k)') + Cardinality(InFlight(k)') <= bound
  <2>1. /\ failures' = [failures EXCEPT ![k] = Append(failures[k], clock)]
        /\ clock' = clock
        /\ req[r].pc = "verifying" /\ req' = [req EXCEPT ![r] = Idle]
    BY <1>4 DEF LoginFails, Charge, Return
  <2>2. InFlight(k)' = InFlight(k) \ {r} /\ r \in InFlight(k)
    BY <1>4, <2>1 DEF InFlight, LoginTyped, Idle
  <2>3. PICK n : n = Len(failures[k]) + 1
    OBVIOUS
  <2>4. Last(k)' \subseteq Last(k) \cup {n}
    <3>1. failures'[k] = Append(failures[k], clock) /\ failures[k] \in Seq(Nat)
      BY <2>1 DEF LoginTyped
    <3>2. /\ DOMAIN failures'[k] = DOMAIN failures[k] \cup {n}
          /\ \A i \in DOMAIN failures[k] : failures'[k][i] = failures[k][i]
      BY <2>3, <3>1
    <3>. QED  BY <2>1, <3>2 DEF Last
  <2>5. /\ IsFiniteSet(Last(k) \cup {n})
        /\ Cardinality(Last(k) \cup {n}) <= Cardinality(Last(k)) + 1
        /\ Cardinality(Last(k) \cup {n}) \in Nat
    <3>1. /\ IsFiniteSet(Last(k) \cup {n})
          /\ Cardinality(Last(k) \cup {n}) =
               IF n \in Last(k) THEN Cardinality(Last(k)) ELSE Cardinality(Last(k)) + 1
      BY <1>2, FS_AddElement
    <3>. QED  BY <1>2, <3>1
  <2>6. IsFiniteSet(InFlight(k)') /\ Cardinality(InFlight(k)') = Cardinality(InFlight(k)) - 1
    BY <1>2, <2>2, FS_RemoveElement
  <2>7. PICK failed, flying : failed = Last(k) \cup {n} /\ flying = InFlight(k)'
    OBVIOUS
  <2>8. Cardinality(failed) + Cardinality(flying) <= bound
    BY <1>1, <1>2, <2>5, <2>6, <2>7
  <2>. QED  BY <1>1, <2>4, <2>5, <2>6, <2>7, <2>8, FewerIsBounded
<1>5. CASE Last(k)' \subseteq Last(k) /\ InFlight(k)' \subseteq InFlight(k)
  BY <1>1, <1>2, <1>5, FewerIsBounded
<1>6. Cardinality(Last(k)') + Cardinality(InFlight(k)') <= bound
  BY <1>3, <1>4, <1>5, GuessSteps
<1>. QED  BY <1>6

\* The check precedes the comparison and the charge follows it, so that the
\* failures and comparisons that count in a window exceed the limit by no more
\* than the attempts that can be in flight together.
THEOREM GuessesAreBounded == Spec => []GuessesBounded
<1>1. Init => GuessesBounded
  <2>. SUFFICES ASSUME Init, NEW k \in Usernames
                PROVE  Cardinality(Last(k)) + Cardinality(InFlight(k))
                         <= MAX_ATTEMPTS - 1 + Cardinality(Requests)
    BY DEF GuessesBounded
  <2>1. Last(k) = {} /\ InFlight(k) = {}
    BY DEF Init, Last, InFlight, Idle
  <2>. QED  BY <2>1, FS_EmptySet, InFlightBounded, LoginAssumption
<1>2. /\ LoginTyped /\ MapInv /\ LoginTyped' /\ MapInv' /\ GuessesBounded /\ [Next]_vars
      => GuessesBounded'
  BY GuessesPreserved
<1>. QED  BY <1>1, <1>2, LimiterInvariant, PTL DEF Spec

\* Knocking on a locked door does not keep it locked: a name that is limited
\* with no comparison under way is charged by no step.
THEOREM LockoutEnds == Spec => LockoutNotProlonged
<1>1. ASSUME LoginTyped, [Next]_vars
      PROVE  \A k \in Usernames : Limited(k) /\ InFlight(k) = {} => Last(k)' \subseteq Last(k)
  <2>. SUFFICES ASSUME NEW k \in Usernames, Limited(k), InFlight(k) = {}
                PROVE  Last(k)' \subseteq Last(k)
    OBVIOUS
  <2>1. ~\E r \in Requests : AttemptVerify(r) /\ req[r].key = k
    BY DEF AttemptVerify
  <2>2. ~\E r \in Requests : LoginFails(r) /\ req[r].key = k
    BY DEF LoginFails, InFlight
  <2>. QED  BY <1>1, <2>1, <2>2, GuessSteps
<1>. QED  BY <1>1, LimiterInvariant, PTL DEF Spec, LockoutNotProlonged
=============================================================================
