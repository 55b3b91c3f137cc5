----------------------- MODULE DeliveryNotifications -----------------------
(***************************************************************************)
(* The driver's notification inbox                                         *)
(* (apps/web/app/actions/delivery-notifications.ts and the page            *)
(* app/driver/notifications), composed with the delivery-proof service.    *)
(* There is no notification table: the feed is derived from the attempt    *)
(* rows on every read, and one timestamp per driver says how far it was    *)
(* read.  The page lists, then marks; both await the database, so reviews  *)
(* commit before, between and during them, and a driver may have the page  *)
(* open in several tabs.  The adapter runs one query at a time in the      *)
(* order they were issued (external).                                      *)
(***************************************************************************)
EXTENDS DeliveryProofs

CONSTANTS
    Loads,               \* slots for the inbox pages loading at once
    MaxNotifications     \* cap on the rendered list

ASSUME CapAssumption == MaxNotifications \in Nat \ {0}

VARIABLES
    cursor,     \* User.deliveryNotificationsSeenAt, by driver
    page,       \* what each inbox page that is loading holds
    seen        \* ghost: the events on the pages each driver was shown

inboxVars == <<cursor, page, seen>>
allVars == <<vars, inboxVars>>

-----------------------------------------------------------------------------
\* The feed.

Submitted(p, n) == [proof |-> p, number |-> n, type |-> "RESUBMITTED_PENDING",
                    at |-> attempts[p][n].submittedAt, reason |-> None]

Decided(p, n) == [proof |-> p, number |-> n, type |-> attempts[p][n].review.status,
                  at |-> attempts[p][n].review.at,
                  reason |-> attempts[p][n].review.reason]

\* A first submission is no event, only a resubmission is.
IsResubmission(n) == n > 1

\* The attempt has been reviewed.
IsDecided(p, n) == attempts[p][n].review # Pending

\* What an attempt contributes: its resubmission, its decision, both or none.
EventsOf(p, n) == {e \in {Submitted(p, n)} : IsResubmission(n)}
                    \cup {e \in {Decided(p, n)} : IsDecided(p, n)}

\* deriveMyDeliveryEvents, as a set: the order is in the timestamps.
Feed_Everyone(d) ==                        \* mutant: not scoped to the driver
    UNION {UNION {EventsOf(p, n) : n \in DOMAIN attempts[p]} : p \in DOMAIN proof}
Feed(d) == UNION {UNION {EventsOf(p, n) : n \in DOMAIN attempts[p]} :
                    p \in {q \in DOMAIN proof : proof[q].driver = d}}

\* The comparison with the cursor that the list and the badge share.
Unread_AtCursor(e, seenAt) ==              \* mutant: off by one at the cursor
    seenAt = None \/ e.at >= seenAt
Unread(e, seenAt) == seenAt = None \/ e.at > seenAt

\* getMyUnreadDeliveryNotificationCount: the badge, not capped.
UnreadCount(d) == Cardinality({e \in Feed(d) : Unread(e, cursor[d])})

\* sort by eventAt descending and slice: the newest events up to the cap; the
\* query gives equal timestamps no order.
IsListing(list, events) ==
    /\ list \subseteq events
    /\ Cardinality(list) = IF Cardinality(events) < MaxNotifications
                           THEN Cardinality(events) ELSE MaxNotifications
    /\ \A e \in list, f \in events \ list : e.at >= f.at

-----------------------------------------------------------------------------
\* The page.

NoPage == [pc |-> "idle"]

NInit == /\ Init
         /\ cursor = [d \in Drivers |-> None]
         /\ page = [l \in Loads |-> NoPage]
         /\ seen = [d \in Drivers |-> {}]

\* listMyDeliveryNotifications, for a page driver d opens.
List(l, d) ==
    /\ page[l] = NoPage
    /\ \E list \in SUBSET Feed(d) :
          /\ IsListing(list, Feed(d))
          /\ page' = [page EXCEPT ![l] = [pc |-> "listed", driver |-> d, list |-> list]]
    /\ UNCHANGED <<vars, cursor, seen>>

\* markMyDeliveryNotificationsRead is called: the clock is read now, the
\* update awaits the database.
MarkStart(l) ==
    /\ page[l].pc = "listed"
    /\ page' = [page EXCEPT ![l] = [pc |-> "marking", driver |-> page[l].driver,
                                    list |-> page[l].list, at |-> clock]]
    /\ UNCHANGED <<vars, cursor, seen>>

\* The updates of a driver's cursor run in the order they were issued.
IsNextMark(l) ==
    \A m \in Loads : page[m].pc = "marking" /\ page[m].driver = page[l].driver
                       => page[l].at <= page[m].at

\* The update lands and the page is rendered.
MarkLand(l) ==
    LET d == page[l].driver IN
    /\ page[l].pc = "marking"
    /\ IsNextMark(l)
    /\ cursor' = [cursor EXCEPT ![d] = page[l].at]
    /\ seen' = [seen EXCEPT ![d] = @ \cup page[l].list]
    /\ page' = [page EXCEPT ![l] = NoPage]
    /\ UNCHANGED vars

\* A query fails: the driver gets an error page.
PageFails(l) ==
    /\ page[l] # NoPage
    /\ page' = [page EXCEPT ![l] = NoPage]
    /\ UNCHANGED <<vars, cursor, seen>>

\* The steps of the delivery-proof service that are not a crash.
Service ==
    \/ \E r \in Requests : Arrive(r) \/ Proceed(r)
    \/ \E p \in Proofs, s \in OcrRecorded : RecordOcrResult(p, s)
    \/ Tick

NNext ==
    \/ Service /\ UNCHANGED inboxVars
    \/ Crash /\ page' = [l \in Loads |-> NoPage] /\ UNCHANGED <<cursor, seen>>
    \/ \E l \in Loads, d \in Drivers : List(l, d)
    \/ \E l \in Loads : MarkStart(l) \/ MarkLand(l) \/ PageFails(l)

NSpec == NInit /\ [][NNext]_allVars

-----------------------------------------------------------------------------
(***************************************************************************)
(* Properties.                                                             *)
(***************************************************************************)

Event == [proof : Proofs, number : 1..MaxAttempts,
          type : {"VERIFIED", "REJECTED", "RESUBMITTED_PENDING"},
          at : Time, reason : Reasons \cup {None}]

\* The type invariant of the inbox.
InboxTypeOK ==
    /\ \A d \in Drivers : Feed(d) \subseteq Event /\ seen[d] \subseteq Event
    /\ cursor \in [Drivers -> Time \cup {None}]
    /\ \A l \in Loads : page[l] # NoPage =>
          /\ page[l].driver \in Drivers /\ page[l].list \subseteq Event
          /\ page[l].pc \in {"listed", "marking"}

\* The feed never shows what did not happen and never loses what did: an event
\* once derivable stays so, unchanged, and exactly the change of a proof's
\* status to VERIFIED, REJECTED or back to PENDING adds one event of that
\* kind to the feed of its driver, though status is read from the proof row
\* and the feed from the attempt rows.
FeedFollowsHistory ==
    [][\A d \in Drivers :
          LET new == Feed(d)' \ Feed(d)
              moved == {p \in DOMAIN proof : proof[p].driver = d
                          /\ proof'[p].review.status # proof[p].review.status} IN
          /\ Feed(d) \subseteq Feed(d)'
          /\ Cardinality(new) = Cardinality(moved)
          /\ \A p \in moved : \E e \in new :
                /\ e.proof = p
                /\ e.type = IF proof'[p].review.status = "PENDING"
                            THEN "RESUBMITTED_PENDING" ELSE proof'[p].review.status
      ]_allVars

\* The badge never falls unless a page was opened: neither reviews nor
\* resubmissions, which clear the parent's review columns, mark anything read.
UnreadFallsOnlyByMark ==
    [][\A d \in Drivers : UnreadCount(d)' < UnreadCount(d) =>
          \E l \in Loads : /\ page[l].pc = "marking" /\ page[l].driver = d
                           /\ page'[l] = NoPage]_allVars

\* What a driver was shown on a page that finished loading is never unread
\* again, however late the mark lands, whatever commits around it and in
\* whatever other tab the page is loading.
SeenStaysRead ==
    \A d \in Drivers : \A e \in seen[d] : ~Unread(e, cursor[d])

\* The plan of D8 (docs/DELIVERY_MANAGEMENT_PLAN.md): "the only genuine
\* correctness risk" of the cursor is a review committing "between a driver's
\* inbox-list query and the follow-up mark-read write".  So an event that
\* commits while its driver has no page loading would not be older than the
\* cursor. This does not hold, and no run checks it: a review that took its time
\* before a page listed and marked may commit after.
NotReadOnArrival ==
    [][\A d \in Drivers : (\A l \in Loads : page[l] = NoPage) =>
          \A e \in Feed(d)' \ Feed(d) : cursor[d] = None \/ e.at >= cursor[d]
      ]_allVars
=============================================================================
