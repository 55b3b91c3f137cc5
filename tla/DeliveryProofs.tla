--------------------------- MODULE DeliveryProofs ---------------------------
(***************************************************************************)
(* The delivery-proof service (apps/web/app/actions/delivery-proofs.ts and *)
(* the image store behind it): drivers upload proofs and resubmit rejected *)
(* ones, owners review them.                                               *)
(*                                                                         *)
(* The two tables are functions from primary key to row.  A prisma         *)
(* $transaction is one step that commits or a step that fails and leaves   *)
(* the tables alone: SQLite has a single writer and rolls back.  All that  *)
(* a handler does outside its transaction - a first read, the image file,  *)
(* reading the clock, the clean-up - is a step of its own, so that every   *)
(* interleaving of the awaits of concurrent handlers is a behaviour.       *)
(***************************************************************************)
EXTENDS Naturals, Sequences, FiniteSetsExt

CONSTANTS
    Drivers, Owners,     \* user ids by role
    Proofs,              \* proof ids the database may generate
    Images,              \* file names randomUUID may generate
    Reasons,             \* rejection reasons (trimmed, not empty, in length)
    Requests,            \* slots for the handlers in flight at once
    Faults,              \* the faults of the environment a run explores
    OcrRecorded,         \* the OCR states a run records
    None,                \* SQL NULL
    MaxAttempts,         \* bound on the attempts of one proof
    MaxClock             \* bound on the clock

OcrStatus == {"NOT_STARTED", "PROCESSING", "COMPLETED", "FAILED"}

\* The bounds are numbers, the NULL is no value of any other column.
ASSUME ConstantsAssumption ==
    /\ MaxAttempts \in Nat \ {0}
    /\ MaxClock \in Nat
    /\ Faults \subseteq {"crash", "disk"}
    /\ OcrRecorded \subseteq OcrStatus
    /\ None \notin Images
    /\ None \notin 0..MaxClock
    /\ None \notin Owners
    /\ None \notin Reasons

VARIABLES
    proof,      \* table DeliveryProof
    attempts,   \* table DeliveryProofAttempt, by proof and attemptNumber
    files,      \* the images on the volume
    req,        \* what each handler in flight holds in its locals, and for a
                \* review the ghost `seen': the attempts when it began
    clock,      \* the server's wall clock
    issued,     \* ghost: every file name generated so far
    leaked      \* ghost: files a fault left behind

vars == <<proof, attempts, files, req, clock, issued, leaked>>

-----------------------------------------------------------------------------
\* Columns and rows.

Time == 0..MaxClock

\* The columns status, rejectionReason, verifiedAt/reviewedAt and
\* verifiedById/reviewedById, which both tables have.
Pending == [status |-> "PENDING", reason |-> None, at |-> None, by |-> None]

Decision == [status : {"VERIFIED"}, reason : {None}]
              \cup [status : {"REJECTED"}, reason : Reasons]

Reviewed(decision, at, by) == [status |-> decision.status,
                               reason |-> decision.reason,
                               at |-> at, by |-> by]

Review == {Pending} \cup {Reviewed(d, t, o) : d \in Decision, t \in Time, o \in Owners}

ProofRow == [driver : Drivers, image : Images \cup {None}, review : Review,
             uploadedAt : Time, ocr : OcrStatus]

AttemptRow == [image : Images \cup {None}, submittedAt : Time, review : Review]

\* Rows the code inserts: always PENDING.
NewAttempt(image, at) == [image |-> image, submittedAt |-> at, review |-> Pending]

NewProof(driver, image, at) == [driver |-> driver, image |-> image,
                                review |-> Pending, uploadedAt |-> at,
                                ocr |-> "NOT_STARTED"]

\* UPDATEs: the review columns of either row, and what a resubmission writes.
WithReview(row, review) == [row EXCEPT !.review = review]

RecordReview(history, n, review) == [history EXCEPT ![n] = WithReview(@, review)]

Resubmitted(row, image) == [row EXCEPT !.image = image, !.review = Pending,
                                       !.ocr = "NOT_STARTED"]

\* INSERT of a row under a new primary key.
Insert(table, key, row) ==
    [k \in DOMAIN table \cup {key} |-> IF k = key THEN row ELSE table[k]]

\* findFirst(orderBy: attemptNumber desc)
LatestNumber(p) == Max(DOMAIN attempts[p])

Latest(p) == attempts[p][LatestNumber(p)]

\* `updateMany where status = ...`: the row exists and has that status.
HasStatus(p, status) == p \in DOMAIN proof /\ proof[p].review.status = status

-----------------------------------------------------------------------------
\* The handlers in flight.

Idle == [pc |-> "idle"]

Creating == [pc : {"creating"}, driver : Drivers, image : Images \cup {None}, at : Time]
Checked == [pc : {"checked"}, driver : Drivers, proof : Proofs]
Resubmitting == [pc : {"resubmitting"}, driver : Drivers, proof : Proofs, image : Images]
Reviewing == [pc : {"reviewing"}, by : Owners, proof : Proofs, decision : Decision,
              at : Time, seen : SUBSET (1..MaxAttempts)]
Cleaning == [pc : {"cleaning"}, image : Images]

Handler == {Idle} \cup Creating \cup Checked \cup Resubmitting \cup Reviewing \cup Cleaning

\* The request returns, with a view or with an error.
Return(r) == req' = [req EXCEPT ![r] = Idle]

Goto(r, handler) == req' = [req EXCEPT ![r] = handler]

\* The catch block: a handler that stored a file goes on to delete it.
Abort_KeepsFile(r) == Return(r)            \* mutant: no clean-up
Abort_Retries(r) == UNCHANGED req          \* mutant: tries again for ever
Abort(r) ==
    IF req[r].pc \in {"creating", "resubmitting"} /\ req[r].image # None
    THEN Goto(r, [pc |-> "cleaning", image |-> req[r].image])
    ELSE Return(r)

\* The try block ends without an exception: the file is kept.
Committed_CleansUp(r) == Abort(r)          \* mutant: clean-up in a finally
Committed(r) == Return(r)

-----------------------------------------------------------------------------
Init ==
    /\ proof = [p \in {} |-> None]
    /\ attempts = [p \in {} |-> None]
    /\ files = {}
    /\ req = [r \in Requests |-> Idle]
    /\ clock = 0
    /\ issued = {}
    /\ leaked = {}

\* saveProofImage: a fresh name, opened with "wx", so nothing is overwritten.
SaveImage_ClientName(i) ==                 \* mutant: the name is not fresh
    /\ files' = files \cup {i}
    /\ issued' = issued \cup {i}
    /\ UNCHANGED leaked
SaveImage(i) ==
    /\ i \notin issued
    /\ files' = files \cup {i}
    /\ issued' = issued \cup {i}
    /\ UNCHANGED leaked

\* writeFile fails half-way: the handler reports it, the bytes stay.
SaveImageFails(i) ==
    /\ "disk" \in Faults
    /\ i \notin issued
    /\ files' = files \cup {i}
    /\ issued' = issued \cup {i}
    /\ leaked' = leaked \cup {i}

\* uploadDeliveryProof up to createProofWithInitialAttempt, which reads the
\* clock as soon as the file is stored.
UploadSave(r, d, i) ==
    /\ req[r] = Idle
    /\ DOMAIN proof # Proofs
    /\ SaveImage(i)
    /\ Goto(r, [pc |-> "creating", driver |-> d, image |-> i, at |-> clock])
    /\ UNCHANGED <<proof, attempts, clock>>

UploadSaveFails(r, i) ==
    /\ req[r] = Idle
    /\ SaveImageFails(i)
    /\ UNCHANGED <<proof, attempts, req, clock>>

\* createDeliveryProofMetadata: the same transaction without an image.
CreateMetadata(r, d) ==
    /\ req[r] = Idle
    /\ DOMAIN proof # Proofs
    /\ Goto(r, [pc |-> "creating", driver |-> d, image |-> None, at |-> clock])
    /\ UNCHANGED <<proof, attempts, files, clock, issued, leaked>>

\* The transaction of createProofWithInitialAttempt.
CommitCreate(r, p) ==
    LET q == req[r] IN
    /\ q.pc = "creating"
    /\ p \notin DOMAIN proof
    /\ proof' = Insert(proof, p, NewProof(q.driver, q.image, q.at))
    /\ attempts' = Insert(attempts, p, [n \in {1} |-> NewAttempt(q.image, q.at)])
    /\ Committed(r)
    /\ UNCHANGED <<files, clock, issued, leaked>>

\* resubmitRejectedDeliveryProof, steps 1-2: ownership and status are read
\* outside the transaction.
ResubmitCheck(r, d, p) ==
    /\ req[r] = Idle
    /\ HasStatus(p, "REJECTED")
    /\ proof[p].driver = d
    /\ Goto(r, [pc |-> "checked", driver |-> d, proof |-> p])
    /\ UNCHANGED <<proof, attempts, files, clock, issued, leaked>>

\* Steps 3-4: the image is validated and stored.
ResubmitSave(r, i) ==
    /\ req[r].pc = "checked"
    /\ SaveImage(i)
    /\ Goto(r, [pc |-> "resubmitting", driver |-> req[r].driver,
                proof |-> req[r].proof, image |-> i])
    /\ UNCHANGED <<proof, attempts, clock>>

ResubmitInvalidImage(r) ==
    /\ req[r].pc = "checked"
    /\ Return(r)
    /\ UNCHANGED <<proof, attempts, files, clock, issued, leaked>>

ResubmitSaveFails(r, i) ==
    /\ req[r].pc = "checked"
    /\ SaveImageFails(i)
    /\ Return(r)
    /\ UNCHANGED <<proof, attempts, clock>>

\* Step 5's WHERE clause, evaluated when the transaction writes.
Resubmittable(q) == /\ HasStatus(q.proof, "REJECTED")
                    /\ proof[q.proof].driver = q.driver

\* attemptNumber of the row step 5 inserts.
NextNumber_Same(p) == LatestNumber(p)      \* mutant: the attempt is edited
NextNumber(p) == LatestNumber(p) + 1

\* submittedAt is read inside the transaction.
SubmittedAt(q) == clock

\* Step 5: the parent goes back to PENDING with the new image, its review and
\* OCR columns are cleared, and the next attempt is inserted.
CommitResubmit(r) ==
    LET q == req[r]
        p == q.proof IN
    /\ q.pc = "resubmitting"
    /\ Resubmittable(q)
    /\ NextNumber(p) \in 1..MaxAttempts
    /\ proof' = [proof EXCEPT ![p] = Resubmitted(@, q.image)]
    /\ attempts' = [attempts EXCEPT
                      ![p] = Insert(@, NextNumber(p), NewAttempt(q.image, SubmittedAt(q)))]
    /\ Committed(r)
    /\ UNCHANGED <<files, clock, issued, leaked>>

RefuseResubmit(r) ==
    /\ req[r].pc = "resubmitting"
    /\ ~Resubmittable(req[r])
    /\ Abort(r)
    /\ UNCHANGED <<proof, attempts, files, clock, issued, leaked>>

\* `now' of reviewDeliveryProof.
ReviewTime_Upload(p) == proof[p].uploadedAt     \* mutant: the first upload's time
ReviewTime(p) == clock

\* verifyDeliveryProof and rejectDeliveryProof up to the transaction of
\* reviewDeliveryProof: the review time is read before it.
ReviewStart(r, o, p, decision) ==
    /\ req[r] = Idle
    /\ p \in DOMAIN proof
    /\ Goto(r, [pc |-> "reviewing", by |-> o, proof |-> p,
                decision |-> decision, at |-> ReviewTime(p),
                seen |-> DOMAIN attempts[p]])
    /\ UNCHANGED <<proof, attempts, files, clock, issued, leaked>>

\* The gate of the review transaction: the parent is PENDING, and it has an
\* attempt to record the decision on.
Reviewable_Any(p) == p \in DOMAIN proof /\ DOMAIN attempts[p] # {}   \* mutant: no gate
Reviewable_NotVerified(p) ==               \* mutant: a rejection can be re-decided
    /\ HasStatus(p, "PENDING") \/ HasStatus(p, "REJECTED")
    /\ DOMAIN attempts[p] # {}
Reviewable(p) == HasStatus(p, "PENDING") /\ DOMAIN attempts[p] # {}

\* The attempt a review is recorded on.
ReviewTarget_Oldest(p) == Min(DOMAIN attempts[p])     \* mutant: orderBy asc
ReviewTarget(p) == LatestNumber(p)

CommitReview(r) ==
    LET q == req[r]
        review == Reviewed(q.decision, q.at, q.by) IN
    /\ q.pc = "reviewing"
    /\ Reviewable(q.proof)
    /\ proof' = [proof EXCEPT ![q.proof] = WithReview(@, review)]
    /\ attempts' = [attempts EXCEPT ![q.proof] =
                      RecordReview(@, ReviewTarget(q.proof), review)]
    /\ Committed(r)
    /\ UNCHANGED <<files, clock, issued, leaked>>

RefuseReview(r) ==
    /\ req[r].pc = "reviewing"
    /\ ~Reviewable(req[r].proof)
    /\ Return(r)
    /\ UNCHANGED <<proof, attempts, files, clock, issued, leaked>>

\* A transaction that times out or finds the database busy rolls back and
\* rejects its promise.
FailTransaction(r) ==
    /\ req[r].pc \in {"creating", "resubmitting", "reviewing"}
    /\ Abort(r)
    /\ UNCHANGED <<proof, attempts, files, clock, issued, leaked>>

\* deleteProofImage, the last step of a failed upload or resubmission.
CleanUp(r) ==
    /\ req[r].pc = "cleaning"
    /\ files' = files \ {req[r].image}
    /\ Return(r)
    /\ UNCHANGED <<proof, attempts, clock, issued, leaked>>

\* unlink fails; deleteProofImage swallows the error.
CleanUpFails(r) ==
    /\ "disk" \in Faults
    /\ req[r].pc = "cleaning"
    /\ leaked' = leaked \cup {req[r].image}
    /\ Return(r)
    /\ UNCHANGED <<proof, attempts, files, clock, issued>>

\* recordOcrResult: addressed by proof id alone, whatever its status.
RecordOcrResult(p, status) ==
    /\ p \in DOMAIN proof
    /\ proof' = [proof EXCEPT ![p].ocr = status]
    /\ UNCHANGED <<attempts, files, req, clock, issued, leaked>>

\* The images the handlers in flight have stored and not yet committed or
\* deleted.
Held == {req[r].image : r \in {s \in Requests :
            req[s].pc \in {"creating", "resubmitting", "cleaning"}}} \ {None}

\* The server process dies and restarts: the handlers are gone, the database
\* and the volume are not.
Crash ==
    /\ "crash" \in Faults
    /\ req' = [r \in Requests |-> Idle]
    /\ leaked' = leaked \cup Held
    /\ UNCHANGED <<proof, attempts, files, clock, issued>>

Tick ==
    /\ clock < MaxClock
    /\ clock' = clock + 1
    /\ UNCHANGED <<proof, attempts, files, req, issued, leaked>>

\* The steps a handler in flight takes on its own.
Proceed(r) ==
    \/ \E p \in Proofs : CommitCreate(r, p)
    \/ \E i \in Images : ResubmitSave(r, i) \/ ResubmitSaveFails(r, i)
    \/ ResubmitInvalidImage(r)
    \/ CommitResubmit(r)
    \/ RefuseResubmit(r)
    \/ CommitReview(r)
    \/ RefuseReview(r)
    \/ FailTransaction(r)
    \/ CleanUp(r)
    \/ CleanUpFails(r)

\* A user sends a request.
Arrive(r) ==
    \/ \E d \in Drivers, i \in Images : UploadSave(r, d, i)
    \/ \E i \in Images : UploadSaveFails(r, i)
    \/ \E d \in Drivers : CreateMetadata(r, d)
    \/ \E d \in Drivers, p \in Proofs : ResubmitCheck(r, d, p)
    \/ \E o \in Owners, p \in Proofs, decision \in Decision : ReviewStart(r, o, p, decision)

Next ==
    \/ \E r \in Requests : Arrive(r) \/ Proceed(r)
    \/ \E p \in Proofs, s \in OcrRecorded : RecordOcrResult(p, s)
    \/ Crash
    \/ Tick

Spec == Init /\ [][Next]_vars

\* The event loop serves every handler and every transaction ends (prisma
\* bounds its waiting and its running time); users owe nothing.
FairSpec == Spec /\ \A r \in Requests : WF_vars(Proceed(r))

-----------------------------------------------------------------------------
(***************************************************************************)
(* Properties.                                                             *)
(***************************************************************************)

\* The type invariant: both tables hold well-typed rows, every proof has an
\* entry in the attempt table, handlers hold well-typed locals.
TypeOK ==
    /\ DOMAIN proof \subseteq Proofs
    /\ proof \in [DOMAIN proof -> ProofRow]
    /\ attempts = [p \in DOMAIN proof |-> attempts[p]]
    /\ \A p \in DOMAIN proof :
          /\ DOMAIN attempts[p] \subseteq 1..MaxAttempts
          /\ attempts[p] \in [DOMAIN attempts[p] -> AttemptRow]
    /\ files \subseteq Images
    /\ req \in [Requests -> Handler]
    /\ clock \in Time
    /\ issued \subseteq Images
    /\ leaked \subseteq Images

\* The attempts of a proof are numbered 1..n without a gap, and all but the
\* newest were rejected: what reviewDeliveryProof and the resubmission rely on
\* when they take the greatest attemptNumber for the attempt under review.
HistoryNumbered ==
    \A p \in DOMAIN proof :
        \E n \in 1..MaxAttempts :
            /\ DOMAIN attempts[p] = 1..n
            /\ \A k \in 1..(n - 1) : attempts[p][k].review.status = "REJECTED"

\* The parent row is a copy of the newest attempt (image, status, reason,
\* review time and reviewer), and keeps the upload time of the first one,
\* though the two tables are written by different statements.
ParentMirrorsLatest ==
    \A p \in DOMAIN proof :
        /\ proof[p].review = Latest(p).review
        /\ proof[p].image = Latest(p).image
        /\ proof[p].uploadedAt = attempts[p][1].submittedAt

\* An attempt is submitted no earlier than its predecessor was submitted and
\* reviewed.
AttemptsInOrder ==
    \A p \in DOMAIN proof : \A n \in DOMAIN attempts[p] :
        n + 1 \in DOMAIN attempts[p] =>
            /\ attempts[p][n].submittedAt <= attempts[p][n + 1].submittedAt
            /\ attempts[p][n].review.at <= attempts[p][n + 1].submittedAt

\* Handler r decides attempt n of proof p in this step.
Decides(r, p, n) ==
    /\ req[r].pc = "reviewing" /\ req[r].proof = p /\ req'[r] = Idle
    /\ attempts'[p][n].review = Reviewed(req[r].decision, req[r].at, req[r].by)

\* The time written for a decision is not before the submission of the attempt
\* it decides, nor before the review of an earlier one.  The exception is the
\* review that was overtaken: one that read the clock before its attempt
\* existed, while another review rejected the previous attempt and the driver
\* resubmitted, is committed on the new attempt with the old time.
ReviewDated ==
    \A p \in DOMAIN proof : \A n \in DOMAIN attempts[p] :
        attempts'[p][n].review # attempts[p][n].review =>
            \E r \in Requests :
                /\ Decides(r, p, n)
                /\ n \in req[r].seen =>
                      /\ attempts[p][n].submittedAt <= req[r].at
                      /\ \A m \in DOMAIN attempts[p] :
                            m < n => attempts[p][m].review.at <= req[r].at

\* The timeline of a proof is ordered, though a review reads the clock before
\* its transaction and a resubmission inside it: attempts follow one another
\* and the reviews of their predecessors, and a review is dated after what it
\* decides unless a resubmission overtook it.
TimelineOrdered == []AttemptsInOrder /\ [][ReviewDated]_vars

\* The images some attempt refers to.
Attached == (UNION {{attempts[p][n].image : n \in DOMAIN attempts[p]} : p \in DOMAIN proof})
              \ {None}

\* No attempt, old or new, refers to an image that is not on the volume: a
\* clean-up never removes the evidence of a committed attempt.
NoDanglingImage == Attached \subseteq files

\* An image belongs to one attempt, or to one handler that may still delete
\* it: never to both, never to two.
ImageOwnedOnce ==
    /\ \A p, q \in DOMAIN proof : \A m \in DOMAIN attempts[p], n \in DOMAIN attempts[q] :
          /\ attempts[p][m].image = attempts[q][n].image
          /\ attempts[p][m].image # None
          => p = q /\ m = n
    /\ Attached \cap Held = {}
    /\ \A r, s \in Requests :
          /\ {req[r].pc, req[s].pc} \subseteq {"creating", "resubmitting", "cleaning"}
          /\ req[r].image = req[s].image
          /\ req[r].image # None
          => r = s

\* A file on the volume is some attempt's evidence, or in the hands of a
\* handler that will attach or delete it, or left by a fault: a failed or
\* refused transaction leaves no orphan.
NoOrphanImage == files \subseteq Attached \cup Held \cup leaked

\* History is immutable: a step never removes an attempt or changes what was
\* submitted, and changes a review only from PENDING, on the newest attempt,
\* together with the parent.
HistoryStep ==
    \A p \in DOMAIN proof : \A n \in DOMAIN attempts[p] :
        /\ p \in DOMAIN proof'
        /\ n \in DOMAIN attempts'[p]
        /\ attempts'[p][n].image = attempts[p][n].image
        /\ attempts'[p][n].submittedAt = attempts[p][n].submittedAt
        /\ attempts'[p][n].review # attempts[p][n].review =>
              /\ attempts[p][n].review = Pending
              /\ n = LatestNumber(p)
              /\ proof'[p].review = attempts'[p][n].review

HistoryImmutable == [][HistoryStep]_vars

\* A verified proof is final: no later review, resubmission or race changes
\* its decision, its image or its history.
VerifiedStep ==
    \A p \in DOMAIN proof :
        proof[p].review.status = "VERIFIED" =>
            /\ proof'[p].review = proof[p].review
            /\ proof'[p].image = proof[p].image
            /\ attempts'[p] = attempts[p]

VerifiedIsFinal == [][VerifiedStep]_vars

\* Every handler ends, crash or not: none waits for another.
HandlersEnd == \A r \in Requests : req[r].pc # "idle" ~> req[r].pc = "idle"

\* A stored image ends up as evidence or is deleted, unless a fault lost it.
ImagesSettle ==
    \A i \in Images : i \in Held ~> (i \in Attached \/ i \notin files \/ i \in leaked)

\* The service implements the abstract history: the attempt table is the
\* append-only history, the parents in status PENDING are the queue.
Abstract == INSTANCE ProofHistory WITH
    Evidence <- Images \cup {None},
    history <- [p \in Proofs |->
                  IF p \in DOMAIN proof
                  THEN [n \in 1..Cardinality(DOMAIN attempts[p]) |->
                          [image |-> attempts[p][n].image,
                           status |-> attempts[p][n].review.status]]
                  ELSE <<>>],
    queue <- {p \in DOMAIN proof : proof[p].review.status = "PENDING"}

ImplementsHistory == Abstract!HSpec
=============================================================================
