-------------------------- MODULE DeliveryTheorems --------------------------
(***************************************************************************)
(* Theorems about the delivery proofs and the driver's inbox, for every    *)
(* set of users, proofs, images, handlers and pages and for every bound.   *)
(*                                                                         *)
(* About DeliveryProofs: the tables agree, history is immutable and in     *)
(* order, it is the one that ProofHistory promises, and every image that   *)
(* it refers to is kept.  About DeliveryNotifications, which runs with     *)
(* that service and leaves its state alone: the feed follows the history,  *)
(* the badge falls only by a page that finished loading, and what such a   *)
(* page showed stays read.                                                 *)
(***************************************************************************)
EXTENDS DeliveryNotifications, FiniteSetTheorems, TLAPS

-----------------------------------------------------------------------------
(***************************************************************************)
(* Lemmas about the helpers.                                               *)
(***************************************************************************)

\* The greatest of the numbers 1..n is n.
LEMMA MaxOfInterval ==
  ASSUME NEW n \in Nat, n >= 1
  PROVE  Max(1..n) = n
<1>1. n \in 1..n /\ \A y \in 1..n : n >= y
  OBVIOUS
<1>2. \A x \in 1..n : (\A y \in 1..n : x >= y) => x = n
  OBVIOUS
<1>. QED  BY <1>1, <1>2 DEF Max

\* A decision with its time and reviewer is a review, and is not PENDING.
LEMMA ReviewedIsReview ==
  ASSUME NEW d \in Decision, NEW t \in Time, NEW o \in Owners
  PROVE  /\ Reviewed(d, t, o) \in Review
         /\ Reviewed(d, t, o).status \in {"VERIFIED", "REJECTED"}
         /\ Reviewed(d, t, o).status = d.status
BY DEF Review, Reviewed, Decision

\* A row that was not reviewed has a well-typed review.
LEMMA PendingIsReview == Pending \in Review /\ Pending.status = "PENDING"
BY DEF Review, Pending

\* Inserting a row under a key adds the key and leaves the other rows alone.
LEMMA InsertRow ==
  ASSUME NEW table, NEW Row, table \in [DOMAIN table -> Row],
         NEW key, NEW row \in Row
  PROVE  /\ DOMAIN Insert(table, key, row) = DOMAIN table \cup {key}
         /\ Insert(table, key, row) \in [DOMAIN table \cup {key} -> Row]
         /\ Insert(table, key, row)[key] = row
         /\ \A k \in DOMAIN table \ {key} : Insert(table, key, row)[k] = table[k]
BY DEF Insert

\* Writing the review columns of a row changes nothing else in it.
LEMMA WithReviewProof ==
  ASSUME NEW row \in ProofRow, NEW review \in Review
  PROVE  /\ WithReview(row, review) \in ProofRow
         /\ WithReview(row, review).review = review
         /\ WithReview(row, review).image = row.image
         /\ WithReview(row, review).uploadedAt = row.uploadedAt
         /\ WithReview(row, review).driver = row.driver
BY DEF WithReview, ProofRow

\* The same for a row of the attempt table.
LEMMA WithReviewAttempt ==
  ASSUME NEW row \in AttemptRow, NEW review \in Review
  PROVE  /\ WithReview(row, review) \in AttemptRow
         /\ WithReview(row, review).review = review
         /\ WithReview(row, review).image = row.image
         /\ WithReview(row, review).submittedAt = row.submittedAt
BY DEF WithReview, AttemptRow

\* What a resubmission writes to the parent row.
LEMMA ResubmittedProof ==
  ASSUME NEW row \in ProofRow, NEW image \in Images
  PROVE  /\ Resubmitted(row, image) \in ProofRow
         /\ Resubmitted(row, image).review = Pending
         /\ Resubmitted(row, image).image = image
         /\ Resubmitted(row, image).uploadedAt = row.uploadedAt
         /\ Resubmitted(row, image).driver = row.driver
BY PendingIsReview DEF Resubmitted, ProofRow, OcrStatus

\* The pc of a handler says what its other locals are.
LEMMA HandlerByPc ==
  ASSUME NEW h \in Handler
  PROVE  /\ h.pc = "creating" => h \in Creating
         /\ h.pc = "checked" => h \in Checked
         /\ h.pc = "resubmitting" => h \in Resubmitting
         /\ h.pc = "reviewing" => h \in Reviewing
         /\ h.pc = "cleaning" => h \in Cleaning
BY DEF Handler, Idle, Creating, Checked, Resubmitting, Reviewing, Cleaning

-----------------------------------------------------------------------------
(***************************************************************************)
(* Type correctness.                                                       *)
(***************************************************************************)

\* The part of TypeOK about the two tables.
TablesOK ==
    /\ DOMAIN proof \subseteq Proofs
    /\ proof \in [DOMAIN proof -> ProofRow]
    /\ attempts = [p \in DOMAIN proof |-> attempts[p]]
    /\ \A p \in DOMAIN proof :
          /\ DOMAIN attempts[p] \subseteq 1..MaxAttempts
          /\ attempts[p] \in [DOMAIN attempts[p] -> AttemptRow]

\* The part of TypeOK about everything else.
RestOK ==
    /\ files \subseteq Images
    /\ req \in [Requests -> Handler]
    /\ clock \in Time
    /\ issued \subseteq Images
    /\ leaked \subseteq Images

\* The two parts together are TypeOK.
LEMMA TypeParts == TypeOK <=> TablesOK /\ RestOK
BY DEF TypeOK, TablesOK, RestOK

\* Moving a handler to a well-typed step keeps all handlers well typed.
LEMMA GotoHandler ==
  ASSUME req \in [Requests -> Handler], NEW r \in Requests,
         NEW h \in Handler, Goto(r, h)
  PROVE  req' \in [Requests -> Handler]
BY DEF Goto

\* So does returning,
LEMMA ReturnHandler ==
  ASSUME req \in [Requests -> Handler], NEW r \in Requests, Return(r)
  PROVE  req' \in [Requests -> Handler]
BY DEF Return, Handler

\* and so does the catch block.
LEMMA AbortHandler ==
  ASSUME req \in [Requests -> Handler], NEW r \in Requests, Abort(r)
  PROVE  req' \in [Requests -> Handler]
<1>1. CASE Return(r)
  BY <1>1, ReturnHandler
<1>2. CASE /\ req[r].pc \in {"creating", "resubmitting"}
           /\ req[r].image # None
           /\ Goto(r, [pc |-> "cleaning", image |-> req[r].image])
  <2>1. req[r].image \in Images
    BY <1>2, HandlerByPc DEF Creating, Resubmitting
  <2>2. [pc |-> "cleaning", image |-> req[r].image] \in Handler
    BY <2>1 DEF Handler, Cleaning
  <2>. QED  BY <1>2, <2>2, GotoHandler
<1>. QED  BY <1>1, <1>2 DEF Abort

\* The steps that leave both tables alone preserve their types.
LEMMA TablesStutter == TablesOK /\ UNCHANGED <<proof, attempts>> => TablesOK'
BY DEF TablesOK

\* Four actions write the tables; every other step leaves them alone.
LEMMA StepsOnTables ==
  ASSUME [Next]_vars
  PROVE  \/ \E r \in Requests, p \in Proofs : CommitCreate(r, p)
         \/ \E r \in Requests : CommitResubmit(r) \/ CommitReview(r)
         \/ \E p \in Proofs, s \in OcrRecorded : RecordOcrResult(p, s)
         \/ UNCHANGED <<proof, attempts>>
<1>1. ASSUME NEW r \in Requests, Arrive(r)
      PROVE  UNCHANGED <<proof, attempts>>
  BY <1>1 DEF Arrive, UploadSave, UploadSaveFails, CreateMetadata,
              ResubmitCheck, ReviewStart
<1>2. ASSUME NEW r \in Requests, Proceed(r)
      PROVE  \/ \E p \in Proofs : CommitCreate(r, p)
             \/ CommitResubmit(r) \/ CommitReview(r)
             \/ UNCHANGED <<proof, attempts>>
  BY <1>2 DEF Proceed, ResubmitSave, ResubmitSaveFails, ResubmitInvalidImage,
              RefuseResubmit, RefuseReview, FailTransaction, CleanUp, CleanUpFails
<1>3. Crash \/ Tick \/ UNCHANGED vars => UNCHANGED <<proof, attempts>>
  BY DEF Crash, Tick, vars
<1>. QED  BY <1>1, <1>2, <1>3 DEF Next

\* Recording a change of the columns of one row keeps the tables typed.
LEMMA UpdateParent ==
  ASSUME TablesOK, NEW p \in DOMAIN proof, NEW row \in ProofRow,
         proof' = [proof EXCEPT ![p] = row], UNCHANGED attempts
  PROVE  TablesOK'
BY DEF TablesOK

\* The same for a row of each table.
LEMMA UpdateBoth ==
  ASSUME TablesOK, NEW p \in DOMAIN proof, NEW row \in ProofRow,
         NEW S \in SUBSET (1..MaxAttempts), NEW h \in [S -> AttemptRow],
         proof' = [proof EXCEPT ![p] = row],
         attempts' = [attempts EXCEPT ![p] = h]
  PROVE  TablesOK'
BY DEF TablesOK

\* The four actions that write the tables keep them typed: an upload,
LEMMA CommitCreateTables ==
  ASSUME TypeOK,
         NEW r \in Requests, NEW p \in Proofs, CommitCreate(r, p)
  PROVE  TablesOK'
<1>. DEFINE q == req[r]
<1>1. q \in Creating
  BY HandlerByPc DEF TypeOK, CommitCreate
<1>2. NewProof(q.driver, q.image, q.at) \in ProofRow
  BY <1>1, PendingIsReview DEF NewProof, ProofRow, Creating, OcrStatus
<1>3. NewAttempt(q.image, q.at) \in AttemptRow
  BY <1>1, PendingIsReview DEF NewAttempt, AttemptRow, Creating
<1>4. /\ DOMAIN proof' = DOMAIN proof \cup {p}
      /\ proof' \in [DOMAIN proof' -> ProofRow]
  BY <1>2 DEF Insert, CommitCreate, TypeOK
<1>5. /\ attempts' = [k \in DOMAIN proof' |-> attempts'[k]]
      /\ attempts'[p] = [n \in {1} |-> NewAttempt(q.image, q.at)]
      /\ \A k \in DOMAIN proof : attempts'[k] = attempts[k]
  BY <1>4 DEF CommitCreate, Insert, TypeOK
<1>6. /\ DOMAIN attempts'[p] \subseteq 1..MaxAttempts
      /\ attempts'[p] \in [DOMAIN attempts'[p] -> AttemptRow]
  BY <1>3, <1>5, ConstantsAssumption
<1>. QED  BY <1>4, <1>5, <1>6 DEF TablesOK, TypeOK

\* a resubmission,
LEMMA CommitResubmitTables ==
  ASSUME TypeOK, NEW r \in Requests, CommitResubmit(r)
  PROVE  TablesOK'
<1>. DEFINE q == req[r]
            p == q.proof
            row == NewAttempt(q.image, SubmittedAt(q))
            n == NextNumber(p)
<1>1. q \in Resubmitting
  BY HandlerByPc DEF TypeOK, CommitResubmit
<1>2. p \in DOMAIN proof
  BY DEF CommitResubmit, Resubmittable, HasStatus
<1>3. Resubmitted(proof[p], q.image) \in ProofRow
  BY <1>1, <1>2, ResubmittedProof DEF TypeOK, Resubmitting
<1>4. proof' = [proof EXCEPT ![p] = Resubmitted(proof[p], q.image)]
  BY DEF CommitResubmit
<1>5. row \in AttemptRow
  BY <1>1, PendingIsReview DEF NewAttempt, AttemptRow, Resubmitting, SubmittedAt, TypeOK
<1>6. /\ Insert(attempts[p], n, row) \in [DOMAIN attempts[p] \cup {n} -> AttemptRow]
      /\ DOMAIN attempts[p] \cup {n} \in SUBSET (1..MaxAttempts)
  BY <1>2, <1>5, InsertRow DEF TypeOK, CommitResubmit
<1>7. attempts' = [attempts EXCEPT ![p] = Insert(attempts[p], n, row)]
  BY DEF CommitResubmit
<1>. QED  BY <1>2, <1>3, <1>4, <1>6, <1>7, UpdateBoth, TypeParts

\* a review,
LEMMA CommitReviewTables ==
  ASSUME TypeOK, NEW r \in Requests, CommitReview(r)
  PROVE  TablesOK'
<1>. DEFINE q == req[r]
            p == q.proof
            review == Reviewed(q.decision, q.at, q.by)
            t == ReviewTarget(p)
            h == RecordReview(attempts[p], t, review)
<1>1. q \in Reviewing
  BY HandlerByPc DEF TypeOK, CommitReview
<1>2. p \in DOMAIN proof
  BY DEF CommitReview, Reviewable, HasStatus
<1>3. review \in Review
  BY <1>1, ReviewedIsReview DEF Reviewing
<1>4. WithReview(proof[p], review) \in ProofRow
  BY <1>2, <1>3, WithReviewProof DEF TypeOK
<1>5. proof' = [proof EXCEPT ![p] = WithReview(proof[p], review)]
  BY DEF CommitReview
<1>6. h \in [DOMAIN attempts[p] -> AttemptRow]
  <2>1. attempts[p] \in [DOMAIN attempts[p] -> AttemptRow]
    BY <1>2 DEF TypeOK
  <2>2. t \in DOMAIN attempts[p] => WithReview(attempts[p][t], review) \in AttemptRow
    BY <2>1, <1>3, WithReviewAttempt
  <2>. QED  BY <2>1, <2>2 DEF RecordReview
<1>7. DOMAIN attempts[p] \in SUBSET (1..MaxAttempts)
  BY <1>2 DEF TypeOK
<1>8. attempts' = [attempts EXCEPT ![p] = h]
  BY DEF CommitReview
<1>. QED  BY <1>2, <1>4, <1>5, <1>6, <1>7, <1>8, UpdateBoth, TypeParts

\* an OCR result.
LEMMA RecordOcrTables ==
  ASSUME TypeOK, NEW p \in Proofs, NEW s \in OcrRecorded, RecordOcrResult(p, s)
  PROVE  TablesOK'
<1>1. [proof[p] EXCEPT !.ocr = s] \in ProofRow
  BY ConstantsAssumption DEF RecordOcrResult, TypeOK, ProofRow
<1>2. proof' = [proof EXCEPT ![p] = [proof[p] EXCEPT !.ocr = s]]
  BY DEF RecordOcrResult, TypeOK
<1>. QED  BY <1>1, <1>2, UpdateParent, TypeParts DEF RecordOcrResult

\* Every step keeps the tables typed.
LEMMA ServiceTables ==
  ASSUME TypeOK, [Next]_vars
  PROVE  TablesOK'
<1>1. ASSUME NEW r \in Requests, NEW p \in Proofs, CommitCreate(r, p)
      PROVE  TablesOK'
  BY <1>1, CommitCreateTables
<1>2. ASSUME NEW r \in Requests, CommitResubmit(r)
      PROVE  TablesOK'
  BY <1>2, CommitResubmitTables
<1>3. ASSUME NEW r \in Requests, CommitReview(r)
      PROVE  TablesOK'
  BY <1>3, CommitReviewTables
<1>4. ASSUME NEW p \in Proofs, NEW s \in OcrRecorded, RecordOcrResult(p, s)
      PROVE  TablesOK'
  BY <1>4, RecordOcrTables
<1>5. \/ \E r \in Requests, p \in Proofs : CommitCreate(r, p)
      \/ \E r \in Requests : CommitResubmit(r) \/ CommitReview(r)
      \/ \E p \in Proofs, s \in OcrRecorded : RecordOcrResult(p, s)
      \/ UNCHANGED <<proof, attempts>>
  BY StepsOnTables
<1>. QED  BY <1>1, <1>2, <1>3, <1>4, <1>5, TablesStutter, TypeParts

\* Every step keeps the files, the handlers and the clock typed.
LEMMA ServiceRest ==
  ASSUME TypeOK, [Next]_vars
  PROVE  RestOK'
<1>. USE DEF TypeOK, RestOK
<1>1. ASSUME NEW r \in Requests, Arrive(r)
      PROVE  RestOK'
  <2>1. ASSUME NEW d \in Drivers, NEW i \in Images, UploadSave(r, d, i)
        PROVE  RestOK'
    <3>1. [pc |-> "creating", driver |-> d, image |-> i, at |-> clock] \in Handler
      BY DEF Handler, Creating
    <3>. QED  BY <2>1, <3>1, GotoHandler DEF UploadSave, SaveImage
  <2>2. ASSUME NEW i \in Images, UploadSaveFails(r, i)
        PROVE  RestOK'
    BY <2>2 DEF UploadSaveFails, SaveImageFails
  <2>3. ASSUME NEW d \in Drivers, CreateMetadata(r, d)
        PROVE  RestOK'
    <3>1. [pc |-> "creating", driver |-> d, image |-> None, at |-> clock] \in Handler
      BY DEF Handler, Creating
    <3>. QED  BY <2>3, <3>1, GotoHandler DEF CreateMetadata
  <2>4. ASSUME NEW d \in Drivers, NEW p \in Proofs, ResubmitCheck(r, d, p)
        PROVE  RestOK'
    <3>1. [pc |-> "checked", driver |-> d, proof |-> p] \in Handler
      BY DEF Handler, Checked
    <3>. QED  BY <2>4, <3>1, GotoHandler DEF ResubmitCheck
  <2>5. ASSUME NEW o \in Owners, NEW p \in Proofs, NEW decision \in Decision,
               ReviewStart(r, o, p, decision)
        PROVE  RestOK'
    <3>1. p \in DOMAIN proof /\ ReviewTime(p) \in Time
      BY <2>5 DEF ReviewStart, ReviewTime
    <3>2. DOMAIN attempts[p] \in SUBSET (1..MaxAttempts)
      BY <3>1
    <3>3. [pc |-> "reviewing", by |-> o, proof |-> p, decision |-> decision,
           at |-> ReviewTime(p), seen |-> DOMAIN attempts[p]] \in Handler
      BY <3>1, <3>2 DEF Handler, Reviewing
    <3>. QED  BY <2>5, <3>3, GotoHandler DEF ReviewStart
  <2>. QED  BY <1>1, <2>1, <2>2, <2>3, <2>4, <2>5 DEF Arrive
<1>2. ASSUME NEW r \in Requests, Proceed(r)
      PROVE  RestOK'
  <2>1. ASSUME NEW i \in Images, ResubmitSave(r, i)
        PROVE  RestOK'
    <3>1. req[r] \in Checked
      BY <2>1, HandlerByPc DEF ResubmitSave
    <3>2. [pc |-> "resubmitting", driver |-> req[r].driver,
           proof |-> req[r].proof, image |-> i] \in Handler
      BY <3>1 DEF Handler, Checked, Resubmitting
    <3>. QED  BY <2>1, <3>2, GotoHandler DEF ResubmitSave, SaveImage
  <2>2. ASSUME NEW i \in Images, ResubmitSaveFails(r, i)
        PROVE  RestOK'
    BY <2>2, ReturnHandler DEF ResubmitSaveFails, SaveImageFails
  <2>3. ASSUME RefuseResubmit(r) \/ FailTransaction(r)
        PROVE  RestOK'
    BY <2>3, AbortHandler DEF RefuseResubmit, FailTransaction
  <2>4. ASSUME \/ \E p \in Proofs : CommitCreate(r, p)
               \/ CommitResubmit(r)
               \/ CommitReview(r)
        PROVE  RestOK'
    BY <2>4, ReturnHandler DEF CommitCreate, CommitResubmit, CommitReview, Committed
  <2>5. ASSUME ResubmitInvalidImage(r) \/ RefuseReview(r) \/ CleanUp(r)
        PROVE  RestOK'
    BY <2>5, ReturnHandler DEF ResubmitInvalidImage, RefuseReview, CleanUp
  <2>6. ASSUME CleanUpFails(r)
        PROVE  RestOK'
    <3>1. req[r].image \in Images
      BY <2>6, HandlerByPc DEF CleanUpFails, Cleaning
    <3>. QED  BY <2>6, <3>1, ReturnHandler DEF CleanUpFails
  <2>. QED  BY <1>2, <2>1, <2>2, <2>3, <2>4, <2>5, <2>6 DEF Proceed
<1>3. ASSUME NEW p \in Proofs, NEW s \in OcrRecorded, RecordOcrResult(p, s)
      PROVE  RestOK'
  BY <1>3 DEF RecordOcrResult
<1>4. ASSUME Crash
      PROVE  RestOK'
  <2>1. Held \subseteq Images
    BY HandlerByPc DEF Held, Creating, Resubmitting, Cleaning
  <2>. QED  BY <1>4, <2>1 DEF Crash, Handler
<1>5. ASSUME Tick
      PROVE  RestOK'
  BY <1>5, ConstantsAssumption DEF Tick, Time
<1>6. ASSUME UNCHANGED vars
      PROVE  RestOK'
  BY <1>6 DEF vars
<1>. QED  BY <1>1, <1>2, <1>3, <1>4, <1>5, <1>6 DEF Next

\* Type correctness: in every reachable state both tables and every handler
\* hold well-typed rows and locals.
THEOREM TypeCorrect == Spec => []TypeOK
<1>1. Init => TypeOK
  BY ConstantsAssumption DEF Init, TypeOK, Handler, Time
<1>2. TypeOK /\ [Next]_vars => TypeOK'
  BY ServiceTables, ServiceRest, TypeParts, PTL
<1>. QED  BY <1>1, <1>2, PTL DEF Spec

-----------------------------------------------------------------------------
(***************************************************************************)
(* The parent row and the attempt history of a proof agree.                *)
(***************************************************************************)

\* Proof p has attempts 1..n, all but the last rejected, and its row copies
\* the last one.
HistoryUpTo(p, n) ==
    /\ DOMAIN attempts[p] = 1..n
    /\ \A k \in 1..(n - 1) : attempts[p][k].review.status = "REJECTED"
    /\ proof[p].review = attempts[p][n].review
    /\ proof[p].image = attempts[p][n].image
    /\ proof[p].uploadedAt = attempts[p][1].submittedAt

HistoryInv == \A p \in DOMAIN proof : \E n \in 1..MaxAttempts : HistoryUpTo(p, n)

\* The numbering of the next attempt and the target of a review, given that
\* the attempts are 1..n.
LEMMA LatestOfHistory ==
  ASSUME NEW p, NEW n \in 1..MaxAttempts, DOMAIN attempts[p] = 1..n
  PROVE  LatestNumber(p) = n /\ NextNumber(p) = n + 1 /\ ReviewTarget(p) = n
BY MaxOfInterval, ConstantsAssumption DEF LatestNumber, NextNumber, ReviewTarget

\* The invariant implies the two properties it is named for.
LEMMA HistoryInvMeans == HistoryInv => HistoryNumbered /\ ParentMirrorsLatest
BY LatestOfHistory DEF HistoryInv, HistoryUpTo, HistoryNumbered,
                       ParentMirrorsLatest, Latest

\* A proof whose rows a step leaves alone keeps its history.
LEMMA HistoryStutter ==
  ASSUME NEW p \in DOMAIN proof, HistoryInv,
         attempts'[p] = attempts[p],
         proof'[p].review = proof[p].review,
         proof'[p].image = proof[p].image,
         proof'[p].uploadedAt = proof[p].uploadedAt
  PROVE  \E n \in 1..MaxAttempts : HistoryUpTo(p, n)'
BY DEF HistoryInv, HistoryUpTo

\* An upload starts a history,
LEMMA CommitCreateHistory ==
  ASSUME TypeOK, HistoryInv, NEW r \in Requests, NEW p \in Proofs, CommitCreate(r, p)
  PROVE  HistoryInv'
<1>. PICK q : q = req[r]
  OBVIOUS
<1>1. /\ DOMAIN proof' = DOMAIN proof \cup {p}
      /\ proof'[p] = NewProof(q.driver, q.image, q.at)
      /\ attempts'[p] = [n \in {1} |-> NewAttempt(q.image, q.at)]
      /\ \A k \in DOMAIN proof : proof'[k] = proof[k] /\ attempts'[k] = attempts[k]
  BY DEF CommitCreate, Insert, TypeOK
<1>2. HistoryUpTo(p, 1)'
  BY <1>1 DEF HistoryUpTo, NewProof, NewAttempt
<1>3. ASSUME NEW k \in DOMAIN proof
      PROVE  \E n \in 1..MaxAttempts : HistoryUpTo(k, n)'
  BY <1>1, HistoryStutter
<1>. QED  BY <1>1, <1>2, <1>3, ConstantsAssumption DEF HistoryInv

\* a resubmission extends one by a PENDING attempt,
LEMMA CommitResubmitHistory ==
  ASSUME TypeOK, HistoryInv, NEW r \in Requests, CommitResubmit(r)
  PROVE  HistoryInv'
<1>. PICK q : q = req[r]
  OBVIOUS
<1>. DEFINE p == q.proof
            row == NewAttempt(q.image, SubmittedAt(q))
<1>1. p \in DOMAIN proof /\ proof[p].review.status = "REJECTED" /\ q.image \in Images
  BY HandlerByPc DEF CommitResubmit, Resubmittable, HasStatus, TypeOK, Resubmitting
<1>2. PICK n \in 1..MaxAttempts : HistoryUpTo(p, n)
  BY <1>1 DEF HistoryInv
<1>3. NextNumber(p) = n + 1 /\ n + 1 \in 1..MaxAttempts
  BY <1>2, LatestOfHistory DEF HistoryUpTo, CommitResubmit
<1>4. /\ DOMAIN proof' = DOMAIN proof
      /\ proof'[p] = Resubmitted(proof[p], q.image)
      /\ attempts'[p] = Insert(attempts[p], n + 1, row)
      /\ \A k \in DOMAIN proof \ {p} : proof'[k] = proof[k] /\ attempts'[k] = attempts[k]
  BY <1>1, <1>3 DEF CommitResubmit, TypeOK
<1>5. /\ proof'[p].review = Pending
      /\ proof'[p].image = q.image
      /\ proof'[p].uploadedAt = proof[p].uploadedAt
  BY <1>1, <1>4, ResubmittedProof DEF TypeOK
<1>6. /\ DOMAIN attempts'[p] = 1..(n + 1)
      /\ attempts'[p][n + 1] = row
      /\ \A k \in 1..n : attempts'[p][k] = attempts[p][k]
  <2>1. DOMAIN attempts[p] = 1..n /\ n \in Nat \ {0}
    BY <1>2, ConstantsAssumption DEF HistoryUpTo
  <2>2. attempts'[p] = Insert(attempts[p], n + 1, row)
    BY <1>4
  <2>. QED  BY ONLY <2>1, <2>2 DEF Insert
<1>7. HistoryUpTo(p, n + 1)'
  <2>1. \A k \in 1..n : attempts[p][k].review.status = "REJECTED"
    BY <1>1, <1>2 DEF HistoryUpTo
  <2>2. row.review = Pending /\ row.image = q.image
    BY DEF NewAttempt
  <2>3. proof[p].uploadedAt = attempts[p][1].submittedAt /\ n \in Nat /\ 1 \in 1..n
    BY <1>2, ConstantsAssumption DEF HistoryUpTo
  <2>4. \A k \in 1..(n + 1 - 1) : attempts'[p][k].review.status = "REJECTED"
    <3>1. n + 1 - 1 = n
      BY <2>3
    <3>. QED  BY <1>6, <2>1, <3>1
  <2>5. attempts'[p][1].submittedAt = attempts[p][1].submittedAt
    BY <1>6, <2>3
  <2>6. attempts'[p][n + 1].review = Pending /\ attempts'[p][n + 1].image = q.image
    BY <1>6, <2>2
  <2>. QED  BY ONLY <1>5, <1>6, <2>3, <2>4, <2>5, <2>6 DEF HistoryUpTo
<1>8. ASSUME NEW k \in DOMAIN proof \ {p}
      PROVE  \E m \in 1..MaxAttempts : HistoryUpTo(k, m)'
  BY <1>4, HistoryStutter
<1>. QED  BY <1>3, <1>4, <1>7, <1>8 DEF HistoryInv

\* a review decides the newest attempt and its parent alike,
LEMMA CommitReviewHistory ==
  ASSUME TypeOK, HistoryInv, NEW r \in Requests, CommitReview(r)
  PROVE  HistoryInv'
<1>. PICK q : q = req[r]
  OBVIOUS
<1>. DEFINE p == q.proof
            review == Reviewed(q.decision, q.at, q.by)
<1>1. p \in DOMAIN proof /\ review \in Review
  BY HandlerByPc, ReviewedIsReview
     DEF CommitReview, Reviewable, HasStatus, TypeOK, Reviewing
<1>2. PICK n \in 1..MaxAttempts : HistoryUpTo(p, n)
  BY <1>1 DEF HistoryInv
<1>3. ReviewTarget(p) = n
  BY <1>2, LatestOfHistory DEF HistoryUpTo
<1>4. /\ DOMAIN proof' = DOMAIN proof
      /\ proof'[p] = WithReview(proof[p], review)
      /\ attempts'[p] = RecordReview(attempts[p], n, review)
      /\ \A k \in DOMAIN proof \ {p} : proof'[k] = proof[k] /\ attempts'[k] = attempts[k]
  BY <1>1, <1>3 DEF CommitReview, TypeOK
<1>5. /\ proof'[p].review = review
      /\ proof'[p].image = proof[p].image
      /\ proof'[p].uploadedAt = proof[p].uploadedAt
  BY <1>1, <1>4, WithReviewProof DEF TypeOK
<1>6. attempts[p] \in [1..n -> AttemptRow]
  BY <1>1, <1>2 DEF TypeOK, HistoryUpTo
<1>7. /\ DOMAIN attempts'[p] = 1..n
      /\ attempts'[p][n] = WithReview(attempts[p][n], review)
      /\ \A k \in 1..(n - 1) : attempts'[p][k] = attempts[p][k]
  BY <1>4, <1>6 DEF RecordReview
<1>8. /\ attempts'[p][n].review = review
      /\ attempts'[p][n].image = attempts[p][n].image
      /\ attempts'[p][n].submittedAt = attempts[p][n].submittedAt
  BY <1>1, <1>6, <1>7, WithReviewAttempt
<1>9. HistoryUpTo(p, n)'
  <2>1. \A k \in 1..(n - 1) : attempts'[p][k].review.status = "REJECTED"
    BY <1>2, <1>7 DEF HistoryUpTo
  <2>2. attempts'[p][1].submittedAt = attempts[p][1].submittedAt
    <3>1. n = 1 \/ 1 \in 1..(n - 1)
      OBVIOUS
    <3>. QED  BY <1>7, <1>8, <3>1
  <2>3. /\ proof[p].image = attempts[p][n].image
        /\ proof[p].uploadedAt = attempts[p][1].submittedAt
    BY <1>2 DEF HistoryUpTo
  <2>. QED  BY <1>5, <1>7, <1>8, <2>1, <2>2, <2>3 DEF HistoryUpTo
<1>10. ASSUME NEW k \in DOMAIN proof \ {p}
       PROVE  \E m \in 1..MaxAttempts : HistoryUpTo(k, m)'
  BY <1>4, HistoryStutter
<1>. QED  BY <1>2, <1>4, <1>9, <1>10 DEF HistoryInv

\* and an OCR result touches neither.
LEMMA RecordOcrHistory ==
  ASSUME TypeOK, HistoryInv, NEW p \in Proofs, NEW s \in OcrRecorded,
         RecordOcrResult(p, s)
  PROVE  HistoryInv'
<1>1. /\ DOMAIN proof' = DOMAIN proof
      /\ UNCHANGED attempts
      /\ \A k \in DOMAIN proof \ {p} : proof'[k] = proof[k]
      /\ proof'[p].review = proof[p].review
      /\ proof'[p].image = proof[p].image
      /\ proof'[p].uploadedAt = proof[p].uploadedAt
  BY DEF RecordOcrResult, TypeOK, ProofRow
<1>. QED  BY <1>1, HistoryStutter DEF HistoryInv

\* Every step preserves the invariant.
LEMMA HistoryPreserved ==
  ASSUME TypeOK, HistoryInv, [Next]_vars
  PROVE  HistoryInv'
<1>1. UNCHANGED <<proof, attempts>> => HistoryInv'
  BY DEF HistoryInv, HistoryUpTo
<1>. QED  BY <1>1, StepsOnTables, CommitCreateHistory, CommitResubmitHistory,
             CommitReviewHistory, RecordOcrHistory

\* The invariant holds in every reachable state.
LEMMA HistoryInvariant == Spec => []HistoryInv
<1>1. Init => HistoryInv
  BY DEF Init, HistoryInv
<1>. QED  BY <1>1, HistoryPreserved, TypeCorrect, PTL DEF Spec

\* Attempts are numbered 1..n, all but the newest rejected, and the parent row
\* mirrors the newest, whatever the interleaving of the handlers.
THEOREM HistoryConsistent == Spec => [](HistoryNumbered /\ ParentMirrorsLatest)
BY HistoryInvariant, HistoryInvMeans, PTL

-----------------------------------------------------------------------------
(***************************************************************************)
(* What a step may never do to the history.                                *)
(***************************************************************************)

\* What a create, a resubmission and a review do to the rows, in terms of the
\* helpers: used by the action properties and by the image invariants.
LEMMA CreateEffect ==
  ASSUME TypeOK, NEW r \in Requests, NEW p \in Proofs, CommitCreate(r, p)
  PROVE  /\ p \notin DOMAIN proof
         /\ DOMAIN proof' = DOMAIN proof \cup {p}
         /\ attempts'[p] = [n \in {1} |-> NewAttempt(req[r].image, req[r].at)]
         /\ \A k \in DOMAIN proof : proof'[k] = proof[k] /\ attempts'[k] = attempts[k]
BY DEF CommitCreate, Insert, TypeOK

\* A resubmission inserts one attempt after the newest.
LEMMA ResubmitEffect ==
  ASSUME TypeOK, HistoryInv, NEW r \in Requests, CommitResubmit(r),
         NEW p, p = req[r].proof
  PROVE  /\ p \in DOMAIN proof
         /\ proof[p].review.status = "REJECTED"
         /\ DOMAIN proof' = DOMAIN proof
         /\ \E n \in 1..MaxAttempts :
               /\ DOMAIN attempts[p] = 1..n
               /\ attempts'[p] = Insert(attempts[p], n + 1,
                                       NewAttempt(req[r].image, clock))
         /\ \A k \in DOMAIN proof \ {p} : proof'[k] = proof[k] /\ attempts'[k] = attempts[k]
<1>1. p \in DOMAIN proof /\ proof[p].review.status = "REJECTED"
  BY DEF CommitResubmit, Resubmittable, HasStatus
<1>2. PICK n \in 1..MaxAttempts : DOMAIN attempts[p] = 1..n
  BY <1>1 DEF HistoryInv, HistoryUpTo
<1>3. NextNumber(p) = n + 1
  BY <1>2, LatestOfHistory
<1>. QED  BY <1>1, <1>2, <1>3 DEF CommitResubmit, SubmittedAt, TypeOK

\* A review writes the parent and the newest attempt, both PENDING before.
LEMMA ReviewEffect ==
  ASSUME TypeOK, HistoryInv, NEW r \in Requests, CommitReview(r),
         NEW p, p = req[r].proof
  PROVE  /\ p \in DOMAIN proof
         /\ proof[p].review.status = "PENDING"
         /\ DOMAIN proof' = DOMAIN proof
         /\ \E n \in 1..MaxAttempts, review \in Review :
               /\ HistoryUpTo(p, n)
               /\ review = Reviewed(req[r].decision, req[r].at, req[r].by)
               /\ proof'[p] = WithReview(proof[p], review)
               /\ attempts'[p] = RecordReview(attempts[p], n, review)
         /\ \A k \in DOMAIN proof \ {p} : proof'[k] = proof[k] /\ attempts'[k] = attempts[k]
<1>1. p \in DOMAIN proof /\ proof[p].review.status = "PENDING"
  BY DEF CommitReview, Reviewable, HasStatus
<1>2. PICK n \in 1..MaxAttempts : HistoryUpTo(p, n)
  BY <1>1 DEF HistoryInv
<1>3. ReviewTarget(p) = n
  BY <1>2, LatestOfHistory DEF HistoryUpTo
<1>4. Reviewed(req[r].decision, req[r].at, req[r].by) \in Review
  BY HandlerByPc, ReviewedIsReview DEF CommitReview, TypeOK, Reviewing
<1>. QED  BY <1>1, <1>2, <1>3, <1>4 DEF CommitReview, TypeOK

\* A review in status PENDING is the empty one: nobody is recorded on it.
LEMMA PendingStatus ==
  ASSUME NEW review \in Review, review.status = "PENDING"
  PROVE  review = Pending
BY DEF Review, Reviewed, Decision

\* Recording a review on attempt n of 1..n.
LEMMA RecordReviewRows ==
  ASSUME NEW n \in Nat, NEW h \in [1..n -> AttemptRow], NEW review \in Review
  PROVE  /\ DOMAIN RecordReview(h, n, review) = 1..n
         /\ \A k \in 1..n :
               /\ RecordReview(h, n, review)[k].image = h[k].image
               /\ RecordReview(h, n, review)[k].submittedAt = h[k].submittedAt
               /\ k # n => RecordReview(h, n, review)[k] = h[k]
               /\ k = n => RecordReview(h, n, review)[k].review = review
BY WithReviewAttempt DEF RecordReview

\* Every step respects the history.
LEMMA HistoryStepHolds ==
  ASSUME TypeOK, HistoryInv, [Next]_vars
  PROVE  HistoryStep
<1>. SUFFICES ASSUME NEW p \in DOMAIN proof, NEW n \in DOMAIN attempts[p],
                     NEW now, now = attempts'[p]
              PROVE  /\ p \in DOMAIN proof'
                     /\ n \in DOMAIN now
                     /\ now[n].image = attempts[p][n].image
                     /\ now[n].submittedAt = attempts[p][n].submittedAt
                     /\ now[n].review # attempts[p][n].review =>
                           /\ attempts[p][n].review = Pending
                           /\ n = LatestNumber(p)
                           /\ proof'[p].review = now[n].review
  BY DEF HistoryStep
<1>1. ASSUME NEW r \in Requests, NEW k \in Proofs, CommitCreate(r, k)
      PROVE  p \in DOMAIN proof' /\ now = attempts[p]
  BY <1>1, CreateEffect
<1>2. CASE \E r \in Requests : CommitResubmit(r)
  <2>1. PICK r \in Requests : CommitResubmit(r)
    BY <1>2
  <2>2. CASE p = req[r].proof
    <3>1. PICK m \in 1..MaxAttempts :
             /\ DOMAIN attempts[p] = 1..m
             /\ now = Insert(attempts[p], m + 1, NewAttempt(req[r].image, clock))
      BY <2>1, <2>2, ResubmitEffect
    <3>2. n \in DOMAIN now /\ now[n] = attempts[p][n]
      BY <3>1 DEF Insert
    <3>. QED  BY <2>1, <2>2, <3>2, ResubmitEffect
  <2>3. CASE p # req[r].proof
    BY <2>1, <2>3, ResubmitEffect
  <2>. QED  BY <2>2, <2>3
<1>3. CASE \E r \in Requests : CommitReview(r)
  <2>1. PICK r \in Requests : CommitReview(r)
    BY <1>3
  <2>2. CASE p = req[r].proof
    <3>1. PICK m \in 1..MaxAttempts, review \in Review :
             /\ HistoryUpTo(p, m)
             /\ proof'[p] = WithReview(proof[p], review)
             /\ now = RecordReview(attempts[p], m, review)
      BY <2>1, <2>2, ReviewEffect
    <3>2. attempts[p] \in [1..m -> AttemptRow] /\ LatestNumber(p) = m
      BY <3>1, LatestOfHistory DEF TypeOK, HistoryUpTo
    <3>3. proof[p].review = Pending /\ attempts[p][m].review = Pending
      <4>1. p \in DOMAIN proof /\ proof[p].review.status = "PENDING"
        BY <2>1, <2>2, ReviewEffect
      <4>2. proof[p].review \in Review
        BY <4>1 DEF TypeOK, ProofRow
      <4>3. proof[p].review = Pending
        BY <4>1, <4>2, PendingStatus
      <4>. QED  BY <3>1, <4>3 DEF HistoryUpTo
    <3>4. proof'[p].review = review
      BY <3>1, WithReviewProof DEF TypeOK
    <3>. QED  BY <2>1, <2>2, <3>1, <3>2, <3>3, <3>4, ReviewEffect, RecordReviewRows
  <2>3. CASE p # req[r].proof
    BY <2>1, <2>3, ReviewEffect
  <2>. QED  BY <2>2, <2>3
<1>4. ASSUME NEW k \in Proofs, NEW s \in OcrRecorded, RecordOcrResult(k, s)
      PROVE  p \in DOMAIN proof' /\ now = attempts[p]
  BY <1>4 DEF RecordOcrResult, TypeOK
<1>. QED  BY <1>1, <1>2, <1>3, <1>4, StepsOnTables

\* Every step leaves a verified proof alone.
LEMMA VerifiedStepHolds ==
  ASSUME TypeOK, HistoryInv, [Next]_vars
  PROVE  VerifiedStep
<1>. SUFFICES ASSUME NEW p \in DOMAIN proof, proof[p].review.status = "VERIFIED"
              PROVE  /\ proof'[p].review = proof[p].review
                     /\ proof'[p].image = proof[p].image
                     /\ attempts'[p] = attempts[p]
  BY DEF VerifiedStep
<1>1. ASSUME NEW r \in Requests, NEW k \in Proofs, CommitCreate(r, k)
      PROVE  proof'[p] = proof[p] /\ attempts'[p] = attempts[p]
  BY <1>1, CreateEffect
<1>2. ASSUME NEW r \in Requests, CommitResubmit(r)
      PROVE  proof'[p] = proof[p] /\ attempts'[p] = attempts[p]
  BY <1>2, ResubmitEffect
<1>3. ASSUME NEW r \in Requests, CommitReview(r)
      PROVE  proof'[p] = proof[p] /\ attempts'[p] = attempts[p]
  BY <1>3, ReviewEffect
<1>4. ASSUME NEW k \in Proofs, NEW s \in OcrRecorded, RecordOcrResult(k, s)
      PROVE  /\ proof'[p].review = proof[p].review
             /\ proof'[p].image = proof[p].image
             /\ attempts'[p] = attempts[p]
  BY <1>4 DEF RecordOcrResult, TypeOK, ProofRow
<1>. QED  BY <1>1, <1>2, <1>3, <1>4, StepsOnTables

\* The history is append-only, and a review is written once, on the newest
\* attempt, with the parent.
THEOREM HistoryIsImmutable == Spec => HistoryImmutable
BY HistoryInvariant, HistoryStepHolds, TypeCorrect, PTL DEF Spec, HistoryImmutable

\* Nothing changes a verified proof.
THEOREM VerifiedProofIsFinal == Spec => VerifiedIsFinal
BY HistoryInvariant, VerifiedStepHolds, TypeCorrect, PTL DEF Spec, VerifiedIsFinal

-----------------------------------------------------------------------------
(***************************************************************************)
(* The timeline of a proof.                                                *)
(***************************************************************************)

\* The times a handler or a row has recorded are not in the future.
HandlersPast ==
    \A r \in Requests : req[r].pc \in {"creating", "reviewing"} => req[r].at <= clock

\* The times a history has recorded by the time `now' follow one another.
TimesIn(history, now) ==
    \A n \in DOMAIN history :
        /\ history[n].submittedAt <= now
        /\ history[n].review # Pending => history[n].review.at <= now
        /\ n + 1 \in DOMAIN history =>
              /\ history[n].submittedAt <= history[n + 1].submittedAt
              /\ history[n].review.at <= history[n + 1].submittedAt

\* The invariant, attempt by attempt of proof p.
TimesOf(p) == TimesIn(attempts[p], clock)

TimelineInv == HandlersPast /\ \A p \in DOMAIN proof : TimesOf(p)

\* The clock never goes back.
LEMMA ClockGrows ==
  ASSUME TypeOK, [Next]_vars
  PROVE  clock' >= clock /\ clock \in Nat /\ clock' \in Nat
<1>1. clock \in Nat
  BY ConstantsAssumption DEF TypeOK, Time
<1>2. ASSUME NEW r \in Requests, Arrive(r) \/ Proceed(r)
      PROVE  clock' = clock
  BY <1>2 DEF Arrive, UploadSave, UploadSaveFails, CreateMetadata, ResubmitCheck,
              ReviewStart, Proceed, CommitCreate, ResubmitSave, ResubmitSaveFails,
              ResubmitInvalidImage, CommitResubmit, RefuseResubmit, CommitReview,
              RefuseReview, FailTransaction, CleanUp, CleanUpFails
<1>3. ASSUME NEW p \in Proofs, NEW s \in OcrRecorded, RecordOcrResult(p, s)
      PROVE  clock' = clock
  BY <1>3 DEF RecordOcrResult
<1>4. Crash \/ UNCHANGED vars => clock' = clock
  BY DEF Crash, vars
<1>5. Tick => clock' = clock + 1
  BY DEF Tick
<1>. QED  BY <1>1, <1>2, <1>3, <1>4, <1>5 DEF Next

\* Every step preserves the handlers' part of the invariant.
LEMMA HandlersPastPreserved ==
  ASSUME TypeOK, HandlersPast, [Next]_vars
  PROVE  HandlersPast'
<1>1. clock' >= clock /\ clock \in Nat /\ clock' \in Nat
  BY ClockGrows
<1>2. \A r \in Requests : req[r].pc \in {"creating", "reviewing"} => req[r].at \in Nat
  BY HandlerByPc DEF TypeOK, Creating, Reviewing, Time
<1>3. UNCHANGED req => HandlersPast'
  BY <1>1, <1>2 DEF HandlersPast
<1>4. ASSUME NEW r \in Requests, NEW h, Goto(r, h),
             h.pc \in {"creating", "reviewing"} => h.at = clock
      PROVE  HandlersPast'
  BY <1>1, <1>2, <1>4 DEF HandlersPast, Goto, TypeOK
<1>5. ASSUME NEW r \in Requests, Return(r)
      PROVE  HandlersPast'
  BY <1>1, <1>2, <1>5 DEF HandlersPast, Return, Idle, TypeOK
<1>6. ASSUME NEW r \in Requests, Abort(r)
      PROVE  HandlersPast'
  BY <1>4, <1>5, <1>6 DEF Abort
<1>7. ASSUME NEW r \in Requests, Arrive(r)
      PROVE  HandlersPast'
  BY <1>3, <1>4, <1>7 DEF Arrive, UploadSave, UploadSaveFails, CreateMetadata,
                          ResubmitCheck, ReviewStart, ReviewTime
<1>8. ASSUME NEW r \in Requests, Proceed(r)
      PROVE  HandlersPast'
  BY <1>4, <1>5, <1>6, <1>8
     DEF Proceed, CommitCreate, ResubmitSave, ResubmitSaveFails,
         ResubmitInvalidImage, CommitResubmit, RefuseResubmit, CommitReview,
         RefuseReview, FailTransaction, CleanUp, CleanUpFails, Committed
<1>9. Crash => HandlersPast'
  BY DEF Crash, HandlersPast, Idle
<1>10. ASSUME \/ \E p \in Proofs, s \in OcrRecorded : RecordOcrResult(p, s)
              \/ Tick \/ UNCHANGED vars
       PROVE  UNCHANGED req
  BY <1>10 DEF RecordOcrResult, Tick, vars
<1>. QED  BY <1>3, <1>7, <1>8, <1>9, <1>10 DEF Next

\* The times in the attempt rows are numbers.
LEMMA TimesAreNumbers ==
  ASSUME NEW row \in AttemptRow
  PROVE  /\ row.submittedAt \in Nat
         /\ row.review # Pending => row.review.at \in Nat
<1>1. row.submittedAt \in Time /\ row.review \in Review
  BY DEF AttemptRow
<1>2. ASSUME row.review # Pending
      PROVE  row.review.at \in Time
  BY <1>1, <1>2 DEF Review, Reviewed
<1>. QED  BY <1>1, <1>2, ConstantsAssumption DEF Time

\* Time passes.
LEMMA TimesLater ==
  ASSUME NEW n \in Nat, NEW history \in [1..n -> AttemptRow],
         NEW now \in Nat, NEW later \in Nat, now <= later,
         TimesIn(history, now)
  PROVE  TimesIn(history, later)
<1>. SUFFICES ASSUME NEW k \in 1..n
              PROVE  /\ history[k].submittedAt <= later
                     /\ history[k].review # Pending => history[k].review.at <= later
  BY DEF TimesIn
<1>1. /\ history[k].submittedAt <= now
      /\ history[k].review # Pending => history[k].review.at <= now
  BY DEF TimesIn
<1>2. /\ history[k].submittedAt \in Nat
      /\ history[k].review # Pending => history[k].review.at \in Nat
  BY TimesAreNumbers
<1>. QED  BY <1>1, <1>2

\* An attempt is added to a history whose newest attempt was reviewed.
LEMMA TimesInserted ==
  ASSUME NEW n \in Nat \ {0}, NEW history \in [1..n -> AttemptRow],
         NEW now \in Nat, TimesIn(history, now),
         NEW image, history[n].review # Pending
  PROVE  TimesIn(Insert(history, n + 1, NewAttempt(image, now)), now)
<1>1. PICK longer : longer = Insert(history, n + 1, NewAttempt(image, now))
  OBVIOUS
<1>2. /\ DOMAIN longer = 1..(n + 1)
      /\ \A k \in 1..n : longer[k] = history[k]
      /\ longer[n + 1].submittedAt = now
      /\ longer[n + 1].review = Pending
  BY <1>1 DEF Insert, NewAttempt
<1>3. ASSUME NEW k \in 1..n
      PROVE  /\ longer[k].submittedAt <= now
             /\ longer[k].review # Pending => longer[k].review.at <= now
             /\ longer[k].submittedAt <= longer[k + 1].submittedAt
             /\ longer[k].review.at <= longer[k + 1].submittedAt
  <2>1. /\ longer[k] = history[k]
        /\ history[k].submittedAt <= now
        /\ history[k].review # Pending => history[k].review.at <= now
    BY <1>2 DEF TimesIn
  <2>2. CASE k = n
    BY <1>2, <2>1, <2>2
  <2>3. CASE k # n
    <3>1. k + 1 \in 1..n /\ k \in 1..n
      BY <2>3
    <3>2. longer[k + 1] = history[k + 1]
      BY <1>2, <3>1
    <3>3. /\ history[k].submittedAt <= history[k + 1].submittedAt
          /\ history[k].review.at <= history[k + 1].submittedAt
      BY <3>1 DEF TimesIn
    <3>. QED  BY <2>1, <3>2, <3>3
  <2>. QED  BY <2>2, <2>3
<1>4. longer[n + 1].submittedAt <= now /\ n + 2 \notin DOMAIN longer
  BY <1>2
<1>5. ASSUME NEW k \in 1..(n + 1)
      PROVE  k \in 1..n \/ (k = n + 1 /\ k + 1 = n + 2)
  OBVIOUS
<1>6. TimesIn(longer, now)
  BY <1>2, <1>3, <1>4, <1>5 DEF TimesIn
<1>. QED  BY <1>1, <1>6

\* The newest attempt of a history is reviewed.
LEMMA TimesReviewed ==
  ASSUME NEW n \in Nat \ {0}, NEW history \in [1..n -> AttemptRow],
         NEW now \in Nat, TimesIn(history, now),
         NEW review \in Review, review.at \in Nat, review.at <= now
  PROVE  TimesIn(RecordReview(history, n, review), now)
<1>1. PICK reviewed : reviewed = RecordReview(history, n, review)
  OBVIOUS
<1>2. /\ DOMAIN reviewed = 1..n
      /\ \A k \in 1..n :
            /\ reviewed[k].submittedAt = history[k].submittedAt
            /\ k # n => reviewed[k] = history[k]
            /\ k = n => reviewed[k].review = review
  BY <1>1, RecordReviewRows
<1>3. ASSUME NEW k \in 1..n
      PROVE  /\ reviewed[k].submittedAt <= now
             /\ reviewed[k].review # Pending => reviewed[k].review.at <= now
             /\ k + 1 \in 1..n =>
                   /\ reviewed[k].submittedAt <= reviewed[k + 1].submittedAt
                   /\ reviewed[k].review.at <= reviewed[k + 1].submittedAt
  <2>1. /\ history[k].submittedAt <= now
        /\ history[k].review # Pending => history[k].review.at <= now
    BY DEF TimesIn
  <2>2. CASE k = n
    <3>1. k + 1 \notin 1..n
      BY <2>2
    <3>. QED  BY <1>2, <2>1, <2>2, <3>1
  <2>3. CASE k # n
    <3>1. ASSUME k + 1 \in 1..n
          PROVE  /\ history[k].submittedAt <= history[k + 1].submittedAt
                 /\ history[k].review.at <= history[k + 1].submittedAt
      BY <3>1 DEF TimesIn
    <3>2. reviewed[k] = history[k]
      BY <1>2, <2>3
    <3>3. k + 1 \in 1..n => reviewed[k + 1].submittedAt = history[k + 1].submittedAt
      BY <1>2
    <3>. QED  BY <2>1, <3>1, <3>2, <3>3
  <2>. QED  BY <2>2, <2>3
<1>4. TimesIn(reviewed, now)
  BY <1>2, <1>3 DEF TimesIn
<1>. QED  BY <1>1, <1>4

\* Every step preserves the rows' part of the invariant.
LEMMA TimesPreserved ==
  ASSUME TypeOK, HistoryInv, TimelineInv, [Next]_vars
  PROVE  \A p \in DOMAIN proof' : TimesOf(p)'
<1>1. clock' >= clock /\ clock \in Nat /\ clock' \in Nat
  BY ClockGrows
<1>2. ASSUME NEW p \in DOMAIN proof, attempts'[p] = attempts[p]
      PROVE  TimesOf(p)'
  <2>1. PICK n \in 1..MaxAttempts : attempts[p] \in [1..n -> AttemptRow]
    BY DEF HistoryInv, HistoryUpTo, TypeOK
  <2>2. TimesIn(attempts[p], clock) /\ n \in Nat
    BY ConstantsAssumption DEF TimelineInv, TimesOf
  <2>3. TimesIn(attempts[p], clock')
    BY <1>1, <2>1, <2>2, TimesLater
  <2>. QED  BY <1>2, <2>3 DEF TimesOf
<1>3. ASSUME NEW r \in Requests, NEW p \in Proofs, CommitCreate(r, p)
      PROVE  \A k \in DOMAIN proof' : TimesOf(k)'
  <2>1. req[r].at \in Nat /\ req[r].at <= clock /\ clock' = clock
    BY <1>3, HandlerByPc, ConstantsAssumption
       DEF CommitCreate, TypeOK, Creating, Time, TimelineInv, HandlersPast
  <2>2. PICK first : first = [n \in {1} |-> NewAttempt(req[r].image, req[r].at)]
    OBVIOUS
  <2>3. first[1].submittedAt = req[r].at /\ first[1].review = Pending
    BY <2>2 DEF NewAttempt
  <2>4. DOMAIN first = {1} /\ \A n \in {1} : n + 1 \notin {1}
    BY <2>2
  <2>5. TimesIn(first, clock)
    BY <2>1, <2>3, <2>4 DEF TimesIn
  <2>6. attempts'[p] = first
    BY <1>3, <2>2, CreateEffect
  <2>7. TimesOf(p)'
    BY <2>1, <2>5, <2>6 DEF TimesOf
  <2>. QED  BY <1>2, <1>3, <2>7, CreateEffect
<1>4. ASSUME NEW r \in Requests, CommitResubmit(r)
      PROVE  \A k \in DOMAIN proof' : TimesOf(k)'
  <2>1. PICK p : p = req[r].proof
    OBVIOUS
  <2>2. PICK n \in 1..MaxAttempts :
           /\ DOMAIN attempts[p] = 1..n
           /\ attempts'[p] = Insert(attempts[p], n + 1, NewAttempt(req[r].image, clock))
    BY <1>4, <2>1, ResubmitEffect
  <2>3. /\ p \in DOMAIN proof
        /\ proof[p].review.status = "REJECTED"
        /\ HistoryUpTo(p, n)
    BY <1>4, <2>1, <2>2, ResubmitEffect DEF HistoryInv, HistoryUpTo
  <2>4. attempts[p][n].review # Pending /\ n \in Nat \ {0}
    BY <2>2, <2>3, PendingIsReview, ConstantsAssumption DEF HistoryUpTo
  <2>5. attempts[p] \in [1..n -> AttemptRow] /\ TimesIn(attempts[p], clock)
    BY <2>2, <2>3 DEF TypeOK, TimelineInv, TimesOf
  <2>6. TimesIn(attempts'[p], clock)
    BY <1>1, <2>2, <2>4, <2>5, TimesInserted
  <2>7. clock' = clock
    BY <1>4 DEF CommitResubmit
  <2>8. TimesOf(p)'
    BY <2>6, <2>7 DEF TimesOf
  <2>. QED  BY <1>2, <1>4, <2>1, <2>8, ResubmitEffect
<1>5. ASSUME NEW r \in Requests, CommitReview(r)
      PROVE  \A k \in DOMAIN proof' : TimesOf(k)'
  <2>1. PICK p : p = req[r].proof
    OBVIOUS
  <2>2. PICK n \in 1..MaxAttempts, review \in Review :
           /\ HistoryUpTo(p, n)
           /\ review = Reviewed(req[r].decision, req[r].at, req[r].by)
           /\ attempts'[p] = RecordReview(attempts[p], n, review)
    BY <1>5, <2>1, ReviewEffect
  <2>3. review.at \in Nat /\ review.at <= clock
    BY <1>5, <2>2, HandlerByPc, ConstantsAssumption
       DEF CommitReview, TypeOK, Reviewing, Time, Reviewed, TimelineInv, HandlersPast
  <2>4. p \in DOMAIN proof /\ attempts[p] \in [1..n -> AttemptRow] /\ n \in Nat \ {0}
    <3>1. p \in DOMAIN proof
      BY <1>5, <2>1, ReviewEffect
    <3>2. DOMAIN attempts[p] = 1..n /\ n \in Nat \ {0}
      BY <2>2, ConstantsAssumption DEF HistoryUpTo
    <3>. QED  BY <3>1, <3>2 DEF TypeOK
  <2>5. TimesIn(attempts[p], clock)
    BY <2>4 DEF TimelineInv, TimesOf
  <2>6. TimesIn(attempts'[p], clock)
    BY <1>1, <2>2, <2>3, <2>4, <2>5, TimesReviewed
  <2>7. clock' = clock
    BY <1>5 DEF CommitReview
  <2>8. TimesOf(p)'
    BY <2>6, <2>7 DEF TimesOf
  <2>. QED  BY <1>2, <1>5, <2>1, <2>8, ReviewEffect
<1>6. UNCHANGED <<proof, attempts>> \/ (\E k \in Proofs, s \in OcrRecorded : RecordOcrResult(k, s))
        => \A p \in DOMAIN proof' : TimesOf(p)'
  BY <1>2 DEF RecordOcrResult, TypeOK
<1>. QED  BY <1>3, <1>4, <1>5, <1>6, StepsOnTables

\* The invariant holds in every reachable state.
LEMMA TimelineInvariant == Spec => []TimelineInv
<1>1. Init => TimelineInv
  BY DEF Init, TimelineInv, HandlersPast, Idle
<1>2. TypeOK /\ HistoryInv /\ TimelineInv /\ [Next]_vars => TimelineInv'
  BY HandlersPastPreserved, TimesPreserved DEF TimelineInv
<1>. QED  BY <1>1, <1>2, TypeCorrect, HistoryInvariant, PTL DEF Spec

\* What a review was opened for is dated before the time the review took: the
\* attempts it has seen, and the reviews of the earlier ones.
DatedAfter(rows, known, at) ==
    /\ known \subseteq DOMAIN rows
    /\ \A n \in known : rows[n].submittedAt <= at
    /\ \A n \in known, m \in DOMAIN rows : m < n => rows[m].review.at <= at

SeenInv ==
    \A r \in Requests : req[r].pc = "reviewing" =>
        /\ req[r].proof \in DOMAIN proof
        /\ DatedAfter(attempts[req[r].proof], req[r].seen, req[r].at)

\* It stays so: only the newest attempt can change, and only its review.
LEMMA DatedStays ==
  ASSUME TypeOK, HistoryInv, HistoryInv', HistoryStep,
         NEW p \in DOMAIN proof, NEW known, NEW at,
         DatedAfter(attempts[p], known, at)
  PROVE  p \in DOMAIN proof' /\ DatedAfter(attempts'[p], known, at)
<1>1. PICK n \in 1..MaxAttempts : DOMAIN attempts[p] = 1..n
  BY DEF HistoryInv, HistoryUpTo
<1>2. LatestNumber(p) = n /\ n \in Nat
  BY <1>1, LatestOfHistory, ConstantsAssumption
<1>3. p \in DOMAIN proof'
  BY <1>1 DEF HistoryStep
<1>4. PICK later \in 1..MaxAttempts : DOMAIN attempts'[p] = 1..later
  BY <1>3 DEF HistoryInv, HistoryUpTo
<1>5. PICK now : now = attempts'[p]
  OBVIOUS
<1>6. \A k \in 1..n :
         /\ k \in DOMAIN now
         /\ now[k].submittedAt = attempts[p][k].submittedAt
         /\ k # n => now[k].review = attempts[p][k].review
  BY <1>1, <1>2, <1>5 DEF HistoryStep
<1>7. known \subseteq 1..n
  BY <1>1 DEF DatedAfter
<1>8. ASSUME NEW k \in known
      PROVE  /\ k \in DOMAIN now
             /\ now[k].submittedAt <= at
  BY <1>6, <1>7 DEF DatedAfter
<1>9. ASSUME NEW k \in known, NEW m \in DOMAIN now, m < k
      PROVE  now[m].review.at <= at
  <2>1. k \in 1..n /\ m \in 1..later
    BY <1>4, <1>5, <1>7
  <2>2. m \in 1..n /\ m # n
    BY <1>2, <1>9, <2>1
  <2>3. attempts[p][m].review.at <= at
    BY <1>1, <1>9, <2>2 DEF DatedAfter
  <2>. QED  BY <1>6, <2>2, <2>3
<1>10. DatedAfter(now, known, at)
  BY <1>8, <1>9 DEF DatedAfter
<1>. QED  BY <1>3, <1>5, <1>10

\* A handler that is reviewing was so before the step, or began with it.
LEMMA ReviewingSteps ==
  ASSUME TypeOK, [Next]_vars, NEW r \in Requests, req'[r].pc = "reviewing"
  PROVE  \/ req'[r] = req[r]
         \/ \E o \in Owners, p \in Proofs, decision \in Decision :
               ReviewStart(r, o, p, decision)
<1>1. ASSUME NEW s \in Requests, NEW h, Goto(s, h), h.pc # "reviewing"
      PROVE  req'[r] = req[r]
  BY <1>1 DEF Goto, TypeOK
<1>2. ASSUME NEW s \in Requests, Return(s)
      PROVE  req'[r] = req[r]
  BY <1>2 DEF Return, Idle, TypeOK
<1>3. ASSUME NEW s \in Requests, Abort(s)
      PROVE  req'[r] = req[r]
  BY <1>1, <1>2, <1>3 DEF Abort
<1>4. ASSUME NEW s \in Requests, NEW o \in Owners, NEW p \in Proofs,
             NEW decision \in Decision, ReviewStart(s, o, p, decision)
      PROVE  req'[r] = req[r] \/ ReviewStart(r, o, p, decision)
  <2>1. CASE s = r
    BY <1>4, <2>1
  <2>2. CASE s # r
    BY <1>4, <2>2 DEF ReviewStart, Goto, TypeOK
  <2>. QED  BY <2>1, <2>2
<1>5. ASSUME NEW s \in Requests, Arrive(s)
      PROVE  \/ req'[r] = req[r]
             \/ \E o \in Owners, p \in Proofs, decision \in Decision :
                   ReviewStart(r, o, p, decision)
  BY <1>1, <1>4, <1>5 DEF Arrive, UploadSave, UploadSaveFails, CreateMetadata,
                          ResubmitCheck
<1>6. ASSUME NEW s \in Requests, Proceed(s)
      PROVE  req'[r] = req[r]
  BY <1>1, <1>2, <1>3, <1>6
     DEF Proceed, CommitCreate, ResubmitSave, ResubmitSaveFails,
         ResubmitInvalidImage, CommitResubmit, RefuseResubmit, CommitReview,
         RefuseReview, FailTransaction, CleanUp, CleanUpFails, Committed
<1>7. ~Crash
  BY DEF Crash, Idle
<1>8. ASSUME \/ \E p \in Proofs, s \in OcrRecorded : RecordOcrResult(p, s)
             \/ Tick \/ UNCHANGED vars
      PROVE  req'[r] = req[r]
  BY <1>8 DEF RecordOcrResult, Tick, vars
<1>. QED  BY <1>5, <1>6, <1>7, <1>8 DEF Next

\* A review that begins now has seen attempts of the past alone, all of them
\* but the newest reviewed.
LEMMA ReviewBegins ==
  ASSUME TypeOK, HistoryInv, TimelineInv, NEW p \in DOMAIN proof
  PROVE  DatedAfter(attempts[p], DOMAIN attempts[p], clock)
<1>1. PICK n \in 1..MaxAttempts : HistoryUpTo(p, n)
  BY DEF HistoryInv
<1>2. TimesIn(attempts[p], clock) /\ DOMAIN attempts[p] = 1..n /\ n \in Nat
  BY <1>1, ConstantsAssumption DEF TimelineInv, TimesOf, HistoryUpTo
<1>3. ASSUME NEW k \in 1..n, NEW m \in 1..n, m < k
      PROVE  attempts[p][m].review.at <= clock
  <2>1. m \in 1..(n - 1)
    BY <1>2, <1>3
  <2>2. attempts[p][m].review # Pending
    BY <1>1, <2>1, PendingIsReview DEF HistoryUpTo
  <2>. QED  BY <1>2, <2>2 DEF TimesIn
<1>. QED  BY <1>2, <1>3 DEF DatedAfter, TimesIn

\* Every step preserves the invariant.
LEMMA SeenPreserved ==
  ASSUME TypeOK, HistoryInv, HistoryInv', TimelineInv, SeenInv, [Next]_vars
  PROVE  SeenInv'
<1>. SUFFICES ASSUME NEW r \in Requests, req'[r].pc = "reviewing"
              PROVE  /\ req'[r].proof \in DOMAIN proof'
                     /\ DatedAfter(attempts'[req'[r].proof], req'[r].seen, req'[r].at)
  BY DEF SeenInv
<1>1. HistoryStep
  BY HistoryStepHolds
<1>2. CASE req'[r] = req[r]
  BY <1>1, <1>2, DatedStays DEF SeenInv
<1>3. ASSUME NEW o \in Owners, NEW p \in Proofs, NEW decision \in Decision,
             ReviewStart(r, o, p, decision)
      PROVE  /\ req'[r].proof \in DOMAIN proof'
             /\ DatedAfter(attempts'[req'[r].proof], req'[r].seen, req'[r].at)
  <2>1. /\ p \in DOMAIN proof
        /\ UNCHANGED <<proof, attempts>>
        /\ req'[r].proof = p
        /\ req'[r].seen = DOMAIN attempts[p]
        /\ req'[r].at = clock
    BY <1>3 DEF ReviewStart, ReviewTime, Goto, TypeOK
  <2>. QED  BY <2>1, ReviewBegins
<1>. QED  BY <1>2, <1>3, ReviewingSteps

\* The invariant holds in every reachable state.
LEMMA SeenInvariant == Spec => []SeenInv
<1>1. Init => SeenInv
  BY DEF Init, SeenInv, Idle
<1>. QED  BY <1>1, SeenPreserved, TypeCorrect, HistoryInvariant,
             TimelineInvariant, PTL DEF Spec

\* The only step that changes a review is the transaction of a handler, and it
\* writes the time that handler took.
LEMMA ReviewIsDated ==
  ASSUME TypeOK, HistoryInv, SeenInv, [Next]_vars
  PROVE  ReviewDated
<1>. SUFFICES ASSUME NEW p \in DOMAIN proof, NEW n \in DOMAIN attempts[p],
                     attempts'[p][n].review # attempts[p][n].review
              PROVE  \E r \in Requests :
                        /\ Decides(r, p, n)
                        /\ n \in req[r].seen =>
                              /\ attempts[p][n].submittedAt <= req[r].at
                              /\ \A m \in DOMAIN attempts[p] :
                                    m < n => attempts[p][m].review.at <= req[r].at
  BY DEF ReviewDated
<1>1. ASSUME NEW r \in Requests, NEW k \in Proofs, CommitCreate(r, k)
      PROVE  FALSE
  BY <1>1, CreateEffect
<1>2. ASSUME NEW r \in Requests, CommitResubmit(r)
      PROVE  FALSE
  <2>1. CASE p = req[r].proof
    <3>1. PICK m \in 1..MaxAttempts :
             /\ DOMAIN attempts[p] = 1..m
             /\ attempts'[p] = Insert(attempts[p], m + 1, NewAttempt(req[r].image, clock))
      BY <1>2, <2>1, ResubmitEffect
    <3>2. attempts'[p][n] = attempts[p][n]
      BY <3>1 DEF Insert
    <3>. QED  BY <3>2
  <2>2. CASE p # req[r].proof
    BY <1>2, <2>2, ResubmitEffect
  <2>. QED  BY <2>1, <2>2
<1>3. ASSUME NEW r \in Requests, CommitReview(r)
      PROVE  /\ Decides(r, p, n)
             /\ n \in req[r].seen =>
                   /\ attempts[p][n].submittedAt <= req[r].at
                   /\ \A m \in DOMAIN attempts[p] :
                         m < n => attempts[p][m].review.at <= req[r].at
  <2>1. p = req[r].proof
    BY <1>3, ReviewEffect
  <2>2. PICK k \in 1..MaxAttempts, review \in Review :
           /\ HistoryUpTo(p, k)
           /\ review = Reviewed(req[r].decision, req[r].at, req[r].by)
           /\ attempts'[p] = RecordReview(attempts[p], k, review)
    BY <1>3, <2>1, ReviewEffect
  <2>3. attempts[p] \in [1..k -> AttemptRow] /\ k \in Nat
    BY <2>2, ConstantsAssumption DEF HistoryUpTo, TypeOK
  <2>4. n = k /\ attempts'[p][n].review = review
    BY <2>2, <2>3, RecordReviewRows
  <2>5. req[r].pc = "reviewing" /\ req'[r] = Idle
    BY <1>3 DEF CommitReview, Committed, Return, TypeOK
  <2>6. Decides(r, p, n)
    BY <2>1, <2>2, <2>4, <2>5 DEF Decides
  <2>7. DatedAfter(attempts[p], req[r].seen, req[r].at)
    BY <2>1, <2>5 DEF SeenInv
  <2>. QED  BY <2>6, <2>7 DEF DatedAfter
<1>4. ASSUME NEW k \in Proofs, NEW s \in OcrRecorded, RecordOcrResult(k, s)
      PROVE  FALSE
  BY <1>4 DEF RecordOcrResult
<1>5. ~UNCHANGED <<proof, attempts>>
  OBVIOUS
<1>. QED  BY <1>1, <1>2, <1>3, <1>4, <1>5, StepsOnTables

\* Attempts follow one another and the reviews of their predecessors; and a
\* review is dated after the attempt it decides and after every earlier
\* review, unless that attempt was submitted after the review had begun.
THEOREM TimelineIsOrdered == Spec => TimelineOrdered
<1>1. TimelineInv => AttemptsInOrder
  BY DEF TimelineInv, TimesOf, TimesIn, AttemptsInOrder
<1>2. TypeOK /\ HistoryInv /\ SeenInv /\ [Next]_vars => [ReviewDated]_vars
  BY ReviewIsDated
<1>. QED  BY <1>1, <1>2, TimelineInvariant, SeenInvariant, TypeCorrect,
             HistoryInvariant, PTL DEF Spec, TimelineOrdered

-----------------------------------------------------------------------------
(***************************************************************************)
(* The two tables implement the abstract history.                          *)
(***************************************************************************)

\* What the abstract specification sees of an attempt, of a proof and of the
\* tables: the refinement mapping, spelled out.
EntryOf(row) == [image |-> row.image, status |-> row.review.status]

EntriesOf(rows) == [n \in 1..Cardinality(DOMAIN rows) |-> EntryOf(rows[n])]

HistoryOf(p) == IF p \in DOMAIN proof THEN EntriesOf(attempts[p]) ELSE <<>>

Histories == [p \in Proofs |-> HistoryOf(p)]

Queue == {p \in DOMAIN proof : proof[p].review.status = "PENDING"}

\* The abstract actions, in these terms.
LEMMA AbstractSteps ==
  ASSUME NEW p \in Proofs, NEW e, NEW v
  PROVE  /\ Abstract!HInit <=> Histories = [q \in Proofs |-> <<>>] /\ Queue = {}
         /\ Abstract!HSubmit(p, e) <=>
              /\ Histories[p] = <<>>
              /\ Histories' = [Histories EXCEPT ![p] = <<[image |-> e, status |-> "PENDING"]>>]
              /\ Queue' = Queue \cup {p}
         /\ Abstract!HDecide(p, v) <=>
              /\ p \in Queue
              /\ Histories' = [Histories EXCEPT
                                 ![p] = [Histories[p] EXCEPT ![Len(Histories[p])].status = v]]
              /\ Queue' = Queue \ {p}
         /\ Abstract!HResubmit(p, e) <=>
              /\ Histories[p] # <<>>
              /\ Histories[p][Len(Histories[p])].status = "REJECTED"
              /\ Histories' = [Histories EXCEPT
                                 ![p] = Append(Histories[p], [image |-> e, status |-> "PENDING"])]
              /\ Queue' = Queue \cup {p}
         /\ UNCHANGED Abstract!historyVars <=> Histories' = Histories /\ Queue' = Queue
<1>. USE DEF Histories, HistoryOf, EntriesOf, EntryOf, Queue
<1>1. Abstract!HInit <=> Histories = [q \in Proofs |-> <<>>] /\ Queue = {}
  BY DEF Abstract!HInit
<1>2. Abstract!HSubmit(p, e) <=>
              /\ Histories[p] = <<>>
              /\ Histories' = [Histories EXCEPT ![p] = <<[image |-> e, status |-> "PENDING"]>>]
              /\ Queue' = Queue \cup {p}
  BY DEF Abstract!HSubmit
<1>3. Abstract!HDecide(p, v) <=>
              /\ p \in Queue
              /\ Histories' = [Histories EXCEPT
                                 ![p] = [Histories[p] EXCEPT ![Len(Histories[p])].status = v]]
              /\ Queue' = Queue \ {p}
  BY DEF Abstract!HDecide
<1>4. Abstract!HResubmit(p, e) <=>
              /\ Histories[p] # <<>>
              /\ Histories[p][Len(Histories[p])].status = "REJECTED"
              /\ Histories' = [Histories EXCEPT
                                 ![p] = Append(Histories[p], [image |-> e, status |-> "PENDING"])]
              /\ Queue' = Queue \cup {p}
  BY DEF Abstract!HResubmit, Abstract!Newest
<1>5. UNCHANGED Abstract!historyVars <=> Histories' = Histories /\ Queue' = Queue
  BY DEF Abstract!historyVars
<1>. QED  BY <1>1, <1>2, <1>3, <1>4, <1>5

\* The entries of n attempts are n.
LEMMA EntriesUpTo ==
  ASSUME NEW n \in Nat, NEW rows, DOMAIN rows = 1..n
  PROVE  EntriesOf(rows) = [k \in 1..n |-> EntryOf(rows[k])]
<1>1. Cardinality(1..n) = n
  BY FS_Interval
<1>. QED  BY <1>1 DEF EntriesOf

\* An upload's only attempt is one pending entry;
LEMMA EntriesStart ==
  ASSUME NEW image, NEW at
  PROVE  EntriesOf([n \in {1} |-> NewAttempt(image, at)]) = <<[image |-> image, status |-> "PENDING"]>>
<1>. DEFINE rows == [n \in {1} |-> NewAttempt(image, at)]
<1>1. DOMAIN rows = 1..1
  OBVIOUS
<1>2. EntriesOf(rows) = [k \in 1..1 |-> EntryOf(rows[k])]
  BY <1>1, EntriesUpTo
<1>3. EntryOf(rows[1]) = [image |-> image, status |-> "PENDING"]
  BY DEF EntryOf, NewAttempt, Pending
<1>. HIDE DEF rows
<1>4. [k \in 1..1 |-> EntryOf(rows[k])] = <<EntryOf(rows[1])>>
  OBVIOUS
<1>. QED  BY <1>2, <1>3, <1>4 DEF rows

\* a resubmission appends one;
LEMMA EntriesGrow ==
  ASSUME NEW n \in Nat, NEW rows \in [1..n -> AttemptRow], NEW image, NEW at
  PROVE  EntriesOf(Insert(rows, n + 1, NewAttempt(image, at)))
           = Append(EntriesOf(rows), [image |-> image, status |-> "PENDING"])
<1>. PICK longer : longer = Insert(rows, n + 1, NewAttempt(image, at))
  OBVIOUS
<1>1. /\ DOMAIN longer = 1..(n + 1)
      /\ \A k \in 1..n : longer[k] = rows[k]
      /\ longer[n + 1] = NewAttempt(image, at)
  BY DEF Insert
<1>2. EntriesOf(longer) = [k \in 1..(n + 1) |-> EntryOf(longer[k])]
  BY <1>1, EntriesUpTo
<1>3. EntriesOf(rows) = [k \in 1..n |-> EntryOf(rows[k])]
  BY EntriesUpTo
<1>4. EntryOf(longer[n + 1]) = [image |-> image, status |-> "PENDING"]
  BY <1>1 DEF EntryOf, NewAttempt, Pending
<1>5. Append(EntriesOf(rows), EntryOf(longer[n + 1])) = [k \in 1..(n + 1) |-> EntryOf(longer[k])]
  BY <1>1, <1>3
<1>. QED  BY <1>2, <1>4, <1>5

\* a review changes the status of the last.
LEMMA EntriesReviewed ==
  ASSUME NEW n \in Nat \ {0}, NEW rows \in [1..n -> AttemptRow], NEW review \in Review
  PROVE  EntriesOf(RecordReview(rows, n, review))
           = [EntriesOf(rows) EXCEPT ![Len(EntriesOf(rows))].status = review.status]
<1>. PICK reviewed : reviewed = RecordReview(rows, n, review)
  OBVIOUS
<1>1. /\ DOMAIN reviewed = 1..n
      /\ \A k \in 1..n : k # n => reviewed[k] = rows[k]
      /\ reviewed[n].image = rows[n].image /\ reviewed[n].review = review
  BY RecordReviewRows
<1>2. EntriesOf(reviewed) = [k \in 1..n |-> EntryOf(reviewed[k])]
  BY <1>1, EntriesUpTo
<1>3. EntriesOf(rows) = [k \in 1..n |-> EntryOf(rows[k])] /\ Len(EntriesOf(rows)) = n
  BY EntriesUpTo
<1>4. EntryOf(reviewed[n]) = [EntryOf(rows[n]) EXCEPT !.status = review.status]
  BY <1>1 DEF EntryOf
<1>5. \A k \in 1..n : k # n => EntryOf(reviewed[k]) = EntryOf(rows[k])
  BY <1>1
<1>6. PICK h : h = EntriesOf(rows)
  OBVIOUS
<1>7. h = [k \in 1..n |-> EntryOf(rows[k])] /\ Len(h) = n
  BY <1>3, <1>6
<1>8. [h EXCEPT ![n].status = review.status] = [k \in 1..n |-> EntryOf(reviewed[k])]
  <2>1. h[n] = EntryOf(rows[n])
    BY <1>7
  <2>2. [h EXCEPT ![n] = EntryOf(reviewed[n])] = [k \in 1..n |-> EntryOf(reviewed[k])]
    BY <1>5, <1>7
  <2>. QED  BY <1>4, <2>1, <2>2
<1>. QED  BY <1>2, <1>6, <1>7, <1>8

\* A proof of which a step changes nothing but the OCR columns looks the same.
LEMMA LooksTheSame ==
  ASSUME NEW p \in DOMAIN proof, p \in DOMAIN proof', attempts'[p] = attempts[p],
         proof'[p].review = proof[p].review
  PROVE  HistoryOf(p)' = HistoryOf(p) /\ (p \in Queue' <=> p \in Queue)
BY DEF HistoryOf, Queue

\* A step on one proof, seen through the mapping.
LEMMA MappedStep ==
  ASSUME DOMAIN proof \subseteq Proofs, NEW p \in Proofs,
         DOMAIN proof' = DOMAIN proof \cup {p},
         \A k \in DOMAIN proof \ {p} : proof'[k] = proof[k] /\ attempts'[k] = attempts[k]
  PROVE  /\ Histories' = [Histories EXCEPT ![p] = HistoryOf(p)']
         /\ Queue' \ {p} = Queue \ {p}
         /\ Histories[p] = HistoryOf(p)
<1>1. \A k \in DOMAIN proof \ {p} :
         HistoryOf(k)' = HistoryOf(k) /\ (k \in Queue' <=> k \in Queue)
  BY LooksTheSame
<1>2. \A k \in Proofs \ {p} : HistoryOf(k)' = HistoryOf(k)
  BY <1>1 DEF HistoryOf
<1>3. Queue' \ {p} = Queue \ {p}
  BY <1>1 DEF Queue
<1>. QED  BY <1>2, <1>3 DEF Histories

\* An upload submits,
LEMMA CreateSubmits ==
  ASSUME TypeOK, NEW r \in Requests, NEW p \in Proofs, CommitCreate(r, p)
  PROVE  \E e \in Images \cup {None} : Abstract!HSubmit(p, e)
<1>1. PICK e \in Images \cup {None} : e = req[r].image
  BY HandlerByPc DEF TypeOK, CommitCreate, Creating
<1>2. /\ p \notin DOMAIN proof
      /\ DOMAIN proof' = DOMAIN proof \cup {p}
      /\ attempts'[p] = [n \in {1} |-> NewAttempt(e, req[r].at)]
      /\ \A k \in DOMAIN proof : proof'[k] = proof[k] /\ attempts'[k] = attempts[k]
  BY <1>1, CreateEffect
<1>3. proof'[p].review.status = "PENDING"
  BY <1>2 DEF CommitCreate, Insert, NewProof, Pending
<1>4. HistoryOf(p)' = <<[image |-> e, status |-> "PENDING"]>> /\ HistoryOf(p) = <<>>
  BY <1>2, EntriesStart DEF HistoryOf
<1>5. /\ Histories' = [Histories EXCEPT ![p] = HistoryOf(p)']
      /\ Queue' \ {p} = Queue \ {p}
      /\ Histories[p] = <<>>
  BY <1>2, <1>4, MappedStep DEF TypeOK
<1>6. Queue' = Queue \cup {p}
  BY <1>2, <1>3, <1>5 DEF Queue
<1>. QED  BY <1>4, <1>5, <1>6, AbstractSteps

\* a resubmission resubmits,
LEMMA ResubmitResubmits ==
  ASSUME TypeOK, HistoryInv, NEW r \in Requests, CommitResubmit(r)
  PROVE  \E p \in Proofs, e \in Images \cup {None} : Abstract!HResubmit(p, e)
<1>1. PICK p \in Proofs, e \in Images : p = req[r].proof /\ e = req[r].image
  BY HandlerByPc DEF TypeOK, CommitResubmit, Resubmitting
<1>2. PICK n \in 1..MaxAttempts :
         /\ DOMAIN attempts[p] = 1..n
         /\ attempts'[p] = Insert(attempts[p], n + 1, NewAttempt(e, clock))
  BY <1>1, ResubmitEffect
<1>3. /\ p \in DOMAIN proof
      /\ proof[p].review.status = "REJECTED"
      /\ DOMAIN proof' = DOMAIN proof
      /\ \A k \in DOMAIN proof \ {p} : proof'[k] = proof[k] /\ attempts'[k] = attempts[k]
  BY <1>1, ResubmitEffect
<1>4. /\ n \in Nat \ {0}
      /\ HistoryUpTo(p, n)
      /\ attempts[p] \in [1..n -> AttemptRow]
  BY <1>2, <1>3, ConstantsAssumption DEF HistoryInv, HistoryUpTo, TypeOK
<1>5. HistoryOf(p)' = Append(HistoryOf(p), [image |-> e, status |-> "PENDING"])
  BY <1>2, <1>3, <1>4, EntriesGrow DEF HistoryOf
<1>6. /\ HistoryOf(p) # <<>>
      /\ HistoryOf(p)[Len(HistoryOf(p))].status = "REJECTED"
  <2>1. HistoryOf(p) = [k \in 1..n |-> EntryOf(attempts[p][k])]
    BY <1>2, <1>3, <1>4, EntriesUpTo DEF HistoryOf
  <2>2. Len(HistoryOf(p)) = n /\ HistoryOf(p)[n] = EntryOf(attempts[p][n])
    BY <1>4, <2>1
  <2>3. EntryOf(attempts[p][n]).status = "REJECTED"
    BY <1>3, <1>4 DEF EntryOf, HistoryUpTo
  <2>. QED  BY <1>4, <2>2, <2>3
<1>7. proof'[p].review.status = "PENDING"
  BY <1>1, <1>3, ResubmittedProof, PendingIsReview DEF CommitResubmit, TypeOK
<1>8. /\ Histories' = [Histories EXCEPT ![p] = HistoryOf(p)']
      /\ Queue' \ {p} = Queue \ {p}
      /\ Histories[p] = HistoryOf(p)
  BY <1>3, MappedStep DEF TypeOK
<1>9. Queue' = Queue \cup {p}
  BY <1>3, <1>7, <1>8 DEF Queue
<1>. QED  BY <1>5, <1>6, <1>8, <1>9, AbstractSteps

\* and a review decides.
LEMMA ReviewDecides ==
  ASSUME TypeOK, HistoryInv, NEW r \in Requests, CommitReview(r)
  PROVE  \E p \in Proofs, v \in Abstract!Verdict : Abstract!HDecide(p, v)
<1>1. PICK p \in Proofs : p = req[r].proof /\ req[r] \in Reviewing
  BY HandlerByPc DEF TypeOK, CommitReview, Reviewing
<1>2. PICK n \in 1..MaxAttempts, review \in Review :
         /\ HistoryUpTo(p, n)
         /\ review = Reviewed(req[r].decision, req[r].at, req[r].by)
         /\ proof'[p] = WithReview(proof[p], review)
         /\ attempts'[p] = RecordReview(attempts[p], n, review)
  BY <1>1, ReviewEffect
<1>3. /\ p \in DOMAIN proof
      /\ proof[p].review.status = "PENDING"
      /\ DOMAIN proof' = DOMAIN proof
      /\ \A k \in DOMAIN proof \ {p} : proof'[k] = proof[k] /\ attempts'[k] = attempts[k]
  BY <1>1, ReviewEffect
<1>4. n \in Nat \ {0} /\ attempts[p] \in [1..n -> AttemptRow]
  BY <1>2, <1>3, ConstantsAssumption DEF HistoryUpTo, TypeOK
<1>5. PICK v \in {"VERIFIED", "REJECTED"} : review.status = v
  BY <1>1, <1>2, ReviewedIsReview DEF Reviewing
<1>6. HistoryOf(p)' = [HistoryOf(p) EXCEPT ![Len(HistoryOf(p))].status = v]
  BY <1>2, <1>3, <1>4, <1>5, EntriesReviewed, SMTT(60) DEF HistoryOf
<1>7. proof'[p].review.status = v
  BY <1>2, <1>3, <1>5, WithReviewProof DEF TypeOK
<1>8. /\ Histories' = [Histories EXCEPT ![p] = HistoryOf(p)']
      /\ Queue' \ {p} = Queue \ {p}
      /\ Histories[p] = HistoryOf(p)
  BY <1>3, MappedStep DEF TypeOK
<1>9. p \in Queue /\ Queue' = Queue \ {p}
  BY <1>3, <1>7, <1>8 DEF Queue
<1>. QED  BY <1>6, <1>8, <1>9, AbstractSteps DEF Abstract!Verdict

\* Every step of the service is a step of the history, or none.
LEMMA StepsMap ==
  ASSUME TypeOK, HistoryInv, [Next]_vars
  PROVE  [Abstract!HNext]_(Abstract!historyVars)
<1>1. ASSUME NEW r \in Requests, NEW p \in Proofs, CommitCreate(r, p)
      PROVE  Abstract!HNext
  BY <1>1, CreateSubmits DEF Abstract!HNext
<1>2. ASSUME NEW r \in Requests, CommitResubmit(r)
      PROVE  Abstract!HNext
  BY <1>2, ResubmitResubmits DEF Abstract!HNext
<1>3. ASSUME NEW r \in Requests, CommitReview(r)
      PROVE  Abstract!HNext
  BY <1>3, ReviewDecides DEF Abstract!HNext
<1>4. ASSUME \/ UNCHANGED <<proof, attempts>>
             \/ \E p \in Proofs, s \in OcrRecorded : RecordOcrResult(p, s)
      PROVE  UNCHANGED Abstract!historyVars
  <2>1. /\ DOMAIN proof' = DOMAIN proof /\ attempts' = attempts
        /\ \A p \in DOMAIN proof : proof'[p].review = proof[p].review
    BY <1>4 DEF RecordOcrResult, TypeOK, ProofRow
  <2>2. Queue' = Queue /\ \A p \in Proofs : HistoryOf(p)' = HistoryOf(p)
    BY <2>1 DEF Queue, HistoryOf
  <2>3. Histories' = Histories
    BY <2>2 DEF Histories
  <2>. QED  BY <2>2, <2>3 DEF Abstract!historyVars, Histories, HistoryOf, EntriesOf, EntryOf, Queue
<1>. QED  BY <1>1, <1>2, <1>3, <1>4, StepsOnTables

\* The service implements the abstract history: whatever the handlers in
\* flight do, the attempt rows are an append-only history of which only the
\* newest entry is decided, and the PENDING parents are its queue.
THEOREM HistoryIsImplemented == Spec => ImplementsHistory
<1>1. Init => Abstract!HInit
  <2>1. ASSUME Init
        PROVE  Histories = [p \in Proofs |-> <<>>] /\ Queue = {}
    BY <2>1 DEF Init, Histories, HistoryOf, Queue
  <2>. QED  BY <2>1 DEF Abstract!HInit, Histories, HistoryOf, EntriesOf, EntryOf, Queue
<1>. QED  BY <1>1, StepsMap, TypeCorrect, HistoryInvariant, PTL
          DEF Spec, ImplementsHistory, Abstract!HSpec

-----------------------------------------------------------------------------
(***************************************************************************)
(* The images: none that an attempt refers to is ever deleted, none is     *)
(* shared, and only a fault leaves one behind.  The proof sees a step as   *)
(* what it does to five sets: the pairs attempt-image and handler-image,   *)
(* the files, the names issued and the files leaked.                       *)
(***************************************************************************)

Keeping == {"creating", "resubmitting", "cleaning"}

\* Which attempt refers to which image.
Evidence == {e \in [proof : Proofs, number : 1..MaxAttempts, image : Images] :
                /\ e.proof \in DOMAIN proof
                /\ e.number \in DOMAIN attempts[e.proof]
                /\ attempts[e.proof][e.number].image = e.image}

\* Which handler holds which image.
Holding == {h \in [by : Requests, image : Images] :
                req[h.by].pc \in Keeping /\ req[h.by].image = h.image}

\* The invariant, over the five sets: every referenced or held image is on
\* the volume, and has one owner; every file has an owner or was leaked.
OwnersOK(evidence, holding, volume, names, lost) ==
    /\ \A e \in evidence : e.image \in volume
    /\ \A h \in holding : h.image \in volume
    /\ volume \subseteq names
    /\ \A e, f \in evidence : e.image = f.image => e = f
    /\ \A h, k \in holding : h.image = k.image => h = k
    /\ \A e \in evidence, h \in holding : e.image # h.image
    /\ \A i \in volume : \/ \E e \in evidence : e.image = i
                         \/ \E h \in holding : h.image = i
                         \/ i \in lost

ImageInv == OwnersOK(Evidence, Holding, files, issued, leaked)

-----------------------------------------------------------------------------
\* What the steps do to the five sets.

\* A handler stores an image under a fresh name.
LEMMA OwnersStore ==
  ASSUME NEW evidence, NEW holding, NEW volume, NEW names, NEW lost,
         OwnersOK(evidence, holding, volume, names, lost),
         NEW held, held.image \notin names
  PROVE  OwnersOK(evidence, holding \cup {held}, volume \cup {held.image},
                  names \cup {held.image}, lost)
BY DEF OwnersOK

\* A handler's transaction commits: its image is the evidence of an attempt.
LEMMA OwnersCommit ==
  ASSUME NEW evidence, NEW holding, NEW volume, NEW names, NEW lost,
         OwnersOK(evidence, holding, volume, names, lost),
         NEW held \in holding, NEW added, added.image = held.image
  PROVE  OwnersOK(evidence \cup {added}, holding \ {held}, volume, names, lost)
BY DEF OwnersOK

\* A handler deletes its image.
LEMMA OwnersDelete ==
  ASSUME NEW evidence, NEW holding, NEW volume, NEW names, NEW lost,
         OwnersOK(evidence, holding, volume, names, lost),
         NEW held \in holding
  PROVE  OwnersOK(evidence, holding \ {held}, volume \ {held.image}, names, lost)
BY DEF OwnersOK

\* Handlers may let go of images and new files may appear, if they are leaked.
LEMMA OwnersLose ==
  ASSUME NEW evidence, NEW holding, NEW volume, NEW names, NEW lost,
         OwnersOK(evidence, holding, volume, names, lost),
         NEW fewer \in SUBSET holding, NEW more, NEW names2, NEW lost2,
         names \subseteq names2, lost \subseteq lost2,
         volume \subseteq more, more \subseteq names2, more \ volume \subseteq lost2,
         \A h \in holding \ fewer : h.image \in lost2
  PROVE  OwnersOK(evidence, fewer, more, names2, lost2)
BY DEF OwnersOK

-----------------------------------------------------------------------------
\* What the helpers do to the images the handlers hold.

\* Handler r goes to another step: what it holds is what that step holds.
LEMMA HoldingGoto ==
  ASSUME TypeOK, NEW r \in Requests, NEW handler, Goto(r, handler)
  PROVE  Holding' = {h \in Holding : h.by # r}
                      \cup {h \in [by : {r}, image : Images] :
                              handler.pc \in Keeping /\ handler.image = h.image}
BY DEF TypeOK, Goto, Holding

\* Handler r returns: it holds nothing.
LEMMA HoldingReturn ==
  ASSUME TypeOK, NEW r \in Requests, Return(r)
  PROVE  Holding' = {h \in Holding : h.by # r}
<1>1. Idle.pc \notin Keeping
  BY DEF Idle, Keeping
<1>. QED  BY <1>1 DEF TypeOK, Return, Holding

\* What handler r holds: one image or none.
LEMMA HoldingOf ==
  ASSUME TypeOK, NEW r \in Requests
  PROVE  /\ req[r].pc \in Keeping /\ req[r].image # None =>
               /\ [by |-> r, image |-> req[r].image] \in Holding
               /\ {h \in Holding : h.by # r} = Holding \ {[by |-> r, image |-> req[r].image]}
         /\ ~(req[r].pc \in Keeping /\ req[r].image # None) =>
               {h \in Holding : h.by # r} = Holding
<1>1. req[r].pc \in Keeping => req[r].image \in Images \cup {None}
  BY HandlerByPc DEF TypeOK, Keeping, Creating, Resubmitting, Cleaning
<1>2. ASSUME req[r].pc \in Keeping, req[r].image # None
      PROVE  /\ [by |-> r, image |-> req[r].image] \in Holding
             /\ \A h \in Holding : h.by = r => h = [by |-> r, image |-> req[r].image]
  BY <1>1, <1>2 DEF Holding
<1>3. ASSUME ~(req[r].pc \in Keeping /\ req[r].image # None), NEW h \in Holding
      PROVE  h.by # r
  BY <1>3, ConstantsAssumption DEF Holding
<1>. QED  BY <1>2, <1>3

\* The catch block keeps hold of the image until it is deleted.
LEMMA HoldingAbort ==
  ASSUME TypeOK, NEW r \in Requests, Abort(r),
         req[r].pc \in {"creating", "resubmitting", "reviewing"}
  PROVE  Holding' = Holding
<1>1. CASE req[r].pc \in {"creating", "resubmitting"} /\ req[r].image # None
  <2>1. PICK handler : handler = [pc |-> "cleaning", image |-> req[r].image]
    OBVIOUS
  <2>2. Goto(r, handler)
    BY <1>1, <2>1 DEF Abort
  <2>3. req[r].image \in Images /\ req[r].pc \in Keeping
    BY <1>1, HandlerByPc DEF TypeOK, Creating, Resubmitting, Keeping
  <2>4. handler.pc \in Keeping /\ handler.image = req[r].image
    BY <2>1 DEF Keeping
  <2>5. {h \in [by : {r}, image : Images] :
            handler.pc \in Keeping /\ handler.image = h.image}
          = {[by |-> r, image |-> req[r].image]}
    BY <2>3, <2>4
  <2>6. Holding' = {h \in Holding : h.by # r} \cup {[by |-> r, image |-> req[r].image]}
    BY <2>2, <2>5, HoldingGoto
  <2>7. /\ [by |-> r, image |-> req[r].image] \in Holding
        /\ {h \in Holding : h.by # r} = Holding \ {[by |-> r, image |-> req[r].image]}
    BY <1>1, <2>3, HoldingOf
  <2>. QED  BY <2>6, <2>7
<1>2. CASE ~(req[r].pc \in {"creating", "resubmitting"} /\ req[r].image # None)
  <2>1. ~(req[r].pc \in Keeping /\ req[r].image # None)
    BY <1>2 DEF Keeping
  <2>2. Return(r)
    BY <1>2 DEF Abort
  <2>. QED  BY <2>1, <2>2, HoldingReturn, HoldingOf
<1>. QED  BY <1>1, <1>2

\* A step that leaves both tables alone adds no evidence.
LEMMA EvidenceStutter == UNCHANGED <<proof, attempts>> => Evidence' = Evidence
BY DEF Evidence

\* A review changes no image.
LEMMA EvidenceReview ==
  ASSUME TypeOK, HistoryInv, NEW r \in Requests, CommitReview(r)
  PROVE  Evidence' = Evidence
<1>1. PICK p : p = req[r].proof
  OBVIOUS
<1>2. PICK n \in 1..MaxAttempts, review \in Review :
         /\ HistoryUpTo(p, n)
         /\ attempts'[p] = RecordReview(attempts[p], n, review)
  BY <1>1, ReviewEffect
<1>3. /\ p \in DOMAIN proof
      /\ DOMAIN proof' = DOMAIN proof
      /\ \A k \in DOMAIN proof \ {p} : attempts'[k] = attempts[k]
  BY <1>1, ReviewEffect
<1>4. attempts[p] \in [1..n -> AttemptRow] /\ n \in Nat
  BY <1>2, <1>3, ConstantsAssumption DEF TypeOK, HistoryUpTo
<1>5. /\ DOMAIN attempts'[p] = DOMAIN attempts[p]
      /\ \A k \in DOMAIN attempts[p] : attempts'[p][k].image = attempts[p][k].image
  BY <1>2, <1>4, RecordReviewRows
<1>6. \A k \in DOMAIN proof :
         /\ DOMAIN attempts'[k] = DOMAIN attempts[k]
         /\ \A m \in DOMAIN attempts[k] : attempts'[k][m].image = attempts[k][m].image
  BY <1>3, <1>5
<1>. QED  BY <1>3, <1>6 DEF Evidence

\* A committed upload or resubmission adds one piece of evidence, or none when
\* there is no image.
LEMMA EvidenceCreate ==
  ASSUME TypeOK, NEW r \in Requests, NEW p \in Proofs, CommitCreate(r, p)
  PROVE  Evidence' = Evidence \cup {e \in [proof : {p}, number : {1}, image : Images] :
                                      e.image = req[r].image}
<1>1. /\ p \notin DOMAIN proof
      /\ DOMAIN proof' = DOMAIN proof \cup {p}
      /\ \A k \in DOMAIN proof : attempts'[k] = attempts[k]
  BY CreateEffect
<1>2. DOMAIN attempts'[p] = {1} /\ attempts'[p][1].image = req[r].image
  <2>1. PICK first : first = [n \in {1} |-> NewAttempt(req[r].image, req[r].at)]
    OBVIOUS
  <2>2. DOMAIN first = {1} /\ first[1].image = req[r].image
    BY <2>1 DEF NewAttempt
  <2>. QED  BY <2>1, <2>2, CreateEffect
<1>. QED  BY <1>1, <1>2, ConstantsAssumption DEF Evidence

\* A committed resubmission adds one piece of evidence.
LEMMA EvidenceResubmit ==
  ASSUME TypeOK, HistoryInv, NEW r \in Requests, CommitResubmit(r)
  PROVE  \E p \in Proofs, n \in 1..MaxAttempts :
            Evidence' = Evidence \cup {[proof |-> p, number |-> n, image |-> req[r].image]}
<1>1. PICK p : p = req[r].proof
  OBVIOUS
<1>2. PICK n \in 1..MaxAttempts :
         /\ DOMAIN attempts[p] = 1..n
         /\ attempts'[p] = Insert(attempts[p], n + 1, NewAttempt(req[r].image, clock))
  BY <1>1, ResubmitEffect
<1>3. /\ p \in DOMAIN proof
      /\ DOMAIN proof' = DOMAIN proof
      /\ \A k \in DOMAIN proof \ {p} : attempts'[k] = attempts[k]
  BY <1>1, ResubmitEffect
<1>4. /\ DOMAIN attempts'[p] = DOMAIN attempts[p] \cup {n + 1}
      /\ n + 1 \notin DOMAIN attempts[p]
      /\ \A k \in DOMAIN attempts[p] : attempts'[p][k] = attempts[p][k]
      /\ attempts'[p][n + 1].image = req[r].image
  BY <1>2, ConstantsAssumption DEF Insert, NewAttempt
<1>5. p \in Proofs /\ n + 1 \in 1..MaxAttempts /\ req[r].image \in Images
  <2>1. req[r] \in Resubmitting
    BY HandlerByPc DEF TypeOK, CommitResubmit
  <2>2. NextNumber(p) = n + 1
    BY <1>2, LatestOfHistory
  <2>3. NextNumber(p) \in 1..MaxAttempts
    BY <1>1 DEF CommitResubmit
  <2>. QED  BY <1>3, <2>1, <2>2, <2>3 DEF TypeOK, Resubmitting
<1>6. Evidence' = Evidence \cup {[proof |-> p, number |-> n + 1, image |-> req[r].image]}
  BY <1>3, <1>4, <1>5 DEF Evidence
<1>. QED  BY <1>5, <1>6

\* An OCR result changes no image.
LEMMA EvidenceOcr ==
  ASSUME TypeOK, NEW p \in Proofs, NEW s \in OcrRecorded, RecordOcrResult(p, s)
  PROVE  Evidence' = Evidence
BY DEF RecordOcrResult, TypeOK, Evidence

-----------------------------------------------------------------------------
\* Handler r lets go of its image, if it has one, and the image is lost.
LEMMA ImagesLost ==
  ASSUME TypeOK, ImageInv, Evidence' = Evidence, Holding' \subseteq Holding,
         files \subseteq files', files' \ files \subseteq leaked', files' \subseteq issued',
         issued \subseteq issued', leaked \subseteq leaked',
         \A h \in Holding \ Holding' : h.image \in leaked'
  PROVE  ImageInv'
<1>1. OwnersOK(Evidence, Holding', files', issued', leaked')
  BY OwnersLose DEF ImageInv
<1>. QED  BY <1>1 DEF ImageInv

\* A step that touches no file and keeps every image in the same hands.
LEMMA ImagesSame ==
  ASSUME TypeOK, ImageInv, Evidence' = Evidence, Holding' = Holding,
         UNCHANGED <<files, issued, leaked>>
  PROVE  ImageInv'
BY DEF ImageInv

\* A handler stores an image.
LEMMA ImagesStored ==
  ASSUME TypeOK, ImageInv, UNCHANGED <<proof, attempts>>,
         NEW r \in Requests, NEW i \in Images, SaveImage(i),
         NEW handler, Goto(r, handler), req[r].pc \notin Keeping,
         handler.pc \in Keeping, handler.image = i
  PROVE  ImageInv'
<1>1. PICK held : held = [by |-> r, image |-> i]
  OBVIOUS
<1>2. {h \in Holding : h.by # r} = Holding
  BY HoldingOf
<1>3. {h \in [by : {r}, image : Images] :
          handler.pc \in Keeping /\ handler.image = h.image} = {held}
  BY <1>1
<1>4. Holding' = Holding \cup {held}
  BY <1>2, <1>3, HoldingGoto
<1>5. OwnersOK(Evidence, Holding \cup {held}, files \cup {held.image},
               issued \cup {held.image}, leaked)
  BY <1>1, OwnersStore DEF ImageInv, SaveImage
<1>6. files' = files \cup {held.image} /\ issued' = issued \cup {held.image}
  BY <1>1 DEF SaveImage
<1>. QED  BY <1>4, <1>5, <1>6, EvidenceStutter DEF ImageInv, SaveImage

\* The transaction of an upload or a resubmission commits.
LEMMA ImagesCommitted ==
  ASSUME TypeOK, ImageInv, NEW r \in Requests, Return(r),
         req[r].pc \in Keeping, req[r].image # None,
         NEW added, added.image = req[r].image, Evidence' = Evidence \cup {added},
         UNCHANGED <<files, issued, leaked>>
  PROVE  ImageInv'
<1>1. PICK held : held = [by |-> r, image |-> req[r].image]
  OBVIOUS
<1>2. held \in Holding /\ {h \in Holding : h.by # r} = Holding \ {held}
  BY <1>1, HoldingOf
<1>3. Holding' = Holding \ {held} /\ held.image = added.image
  BY <1>1, <1>2, HoldingReturn
<1>4. OwnersOK(Evidence \cup {added}, Holding \ {held}, files, issued, leaked)
  BY <1>2, <1>3, OwnersCommit DEF ImageInv
<1>. QED  BY <1>3, <1>4 DEF ImageInv

\* A handler that holds no image returns or goes to a step that holds none.
LEMMA ImagesIdle ==
  ASSUME TypeOK, ImageInv, UNCHANGED <<files, issued, leaked>>, Evidence' = Evidence,
         NEW r \in Requests, ~(req[r].pc \in Keeping /\ req[r].image # None),
         \/ Return(r)
         \/ \E handler : Goto(r, handler)
                         /\ (handler.pc \in Keeping => handler.image = None)
  PROVE  ImageInv'
<1>1. {h \in Holding : h.by # r} = Holding
  BY HoldingOf
<1>2. ASSUME NEW handler, Goto(r, handler), handler.pc \in Keeping => handler.image = None
      PROVE  Holding' = Holding
  <2>1. {h \in [by : {r}, image : Images] :
            handler.pc \in Keeping /\ handler.image = h.image} = {}
    BY <1>2, ConstantsAssumption
  <2>. QED  BY <1>1, <1>2, <2>1, HoldingGoto
<1>3. Return(r) => Holding' = Holding
  BY <1>1, HoldingReturn
<1>. QED  BY <1>2, <1>3, ImagesSame

\* The first step of every request preserves the invariant.
LEMMA ArriveImages ==
  ASSUME TypeOK, ImageInv, NEW r \in Requests, Arrive(r)
  PROVE  ImageInv'
<1>1. /\ UNCHANGED <<proof, attempts>>
      /\ Evidence' = Evidence
  BY EvidenceStutter DEF Arrive, UploadSave, UploadSaveFails, CreateMetadata,
                         ResubmitCheck, ReviewStart
<1>2. Idle.pc \notin Keeping
  BY DEF Idle, Keeping
<1>3. ASSUME NEW d \in Drivers, NEW i \in Images, UploadSave(r, d, i)
      PROVE  ImageInv'
  <2>1. PICK handler : handler = [pc |-> "creating", driver |-> d, image |-> i, at |-> clock]
    OBVIOUS
  <2>2. handler.pc \in Keeping /\ handler.image = i
    BY <2>1 DEF Keeping
  <2>. QED  BY <1>1, <1>2, <1>3, <2>1, <2>2, ImagesStored DEF UploadSave
<1>4. ASSUME NEW i \in Images, UploadSaveFails(r, i)
      PROVE  ImageInv'
  <2>1. Holding' = Holding
    BY <1>4 DEF UploadSaveFails, Holding
  <2>2. files \subseteq issued
    BY DEF ImageInv, OwnersOK
  <2>. QED  BY <1>1, <1>4, <2>1, <2>2, ImagesLost DEF UploadSaveFails, SaveImageFails
<1>5. ASSUME NEW d \in Drivers, CreateMetadata(r, d)
      PROVE  ImageInv'
  <2>1. PICK handler : handler = [pc |-> "creating", driver |-> d, image |-> None, at |-> clock]
    OBVIOUS
  <2>2. handler.image = None
    BY <2>1
  <2>. QED  BY <1>1, <1>2, <1>5, <2>1, <2>2, ImagesIdle DEF CreateMetadata
<1>6. ASSUME NEW d \in Drivers, NEW p \in Proofs, ResubmitCheck(r, d, p)
      PROVE  ImageInv'
  <2>1. PICK handler : handler = [pc |-> "checked", driver |-> d, proof |-> p]
    OBVIOUS
  <2>2. handler.pc \notin Keeping
    BY <2>1 DEF Keeping
  <2>. QED  BY <1>1, <1>2, <1>6, <2>1, <2>2, ImagesIdle DEF ResubmitCheck
<1>7. ASSUME NEW o \in Owners, NEW p \in Proofs, NEW decision \in Decision,
             ReviewStart(r, o, p, decision)
      PROVE  ImageInv'
  <2>1. PICK handler : handler = [pc |-> "reviewing", by |-> o, proof |-> p,
                                  decision |-> decision, at |-> ReviewTime(p),
                                  seen |-> DOMAIN attempts[p]]
    OBVIOUS
  <2>2. handler.pc \notin Keeping
    BY <2>1 DEF Keeping
  <2>. QED  BY <1>1, <1>2, <1>7, <2>1, <2>2, ImagesIdle DEF ReviewStart
<1>. QED  BY <1>3, <1>4, <1>5, <1>6, <1>7 DEF Arrive

\* So does every later step of a handler.
LEMMA ProceedImages ==
  ASSUME TypeOK, HistoryInv, ImageInv, NEW r \in Requests, Proceed(r)
  PROVE  ImageInv'
<1>1. ASSUME NEW p \in Proofs, CommitCreate(r, p)
      PROVE  ImageInv'
  <2>1. /\ Return(r) /\ UNCHANGED <<files, issued, leaked>>
        /\ req[r].pc \in Keeping /\ req[r].image \in Images \cup {None}
    BY <1>1, HandlerByPc DEF CommitCreate, Committed, TypeOK, Creating, Keeping
  <2>2. Evidence' = Evidence \cup {e \in [proof : {p}, number : {1}, image : Images] :
                                      e.image = req[r].image}
    BY <1>1, EvidenceCreate
  <2>3. CASE req[r].image = None
    <3>1. Evidence' = Evidence
      BY <2>2, <2>3, ConstantsAssumption
    <3>. QED  BY <2>1, <2>3, <3>1, ImagesIdle
  <2>4. CASE req[r].image # None
    <3>1. PICK added : added = [proof |-> p, number |-> 1, image |-> req[r].image]
      OBVIOUS
    <3>2. added.image = req[r].image /\ Evidence' = Evidence \cup {added}
      BY <2>1, <2>2, <2>4, <3>1
    <3>. QED  BY <2>1, <2>4, <3>2, ImagesCommitted
  <2>. QED  BY <2>3, <2>4
<1>2. ASSUME CommitResubmit(r)
      PROVE  ImageInv'
  <2>1. /\ Return(r) /\ UNCHANGED <<files, issued, leaked>>
        /\ req[r].pc \in Keeping /\ req[r].image \in Images
    BY <1>2, HandlerByPc DEF CommitResubmit, Committed, TypeOK, Resubmitting, Keeping
  <2>2. PICK p \in Proofs, n \in 1..MaxAttempts :
           Evidence' = Evidence \cup {[proof |-> p, number |-> n, image |-> req[r].image]}
    BY <1>2, EvidenceResubmit
  <2>3. PICK added : added = [proof |-> p, number |-> n, image |-> req[r].image]
    OBVIOUS
  <2>4. added.image = req[r].image /\ Evidence' = Evidence \cup {added}
    BY <2>2, <2>3
  <2>. QED  BY <2>1, <2>4, ConstantsAssumption, ImagesCommitted
<1>3. ASSUME CommitReview(r)
      PROVE  ImageInv'
  <2>1. req[r].pc \notin Keeping /\ Return(r) /\ UNCHANGED <<files, issued, leaked>>
    BY <1>3 DEF CommitReview, Committed, Keeping
  <2>. QED  BY <1>3, <2>1, EvidenceReview, ImagesIdle
<1>4. ASSUME NEW i \in Images, ResubmitSave(r, i)
      PROVE  ImageInv'
  <2>1. PICK handler : handler = [pc |-> "resubmitting", driver |-> req[r].driver,
                                  proof |-> req[r].proof, image |-> i]
    OBVIOUS
  <2>2. handler.pc \in Keeping /\ handler.image = i /\ req[r].pc \notin Keeping
    BY <1>4, <2>1 DEF Keeping, ResubmitSave
  <2>. QED  BY <1>4, <2>1, <2>2, ImagesStored DEF ResubmitSave
<1>5. ASSUME NEW i \in Images, ResubmitSaveFails(r, i)
      PROVE  ImageInv'
  <2>1. req[r].pc \notin Keeping /\ Return(r) /\ UNCHANGED <<proof, attempts>>
    BY <1>5 DEF ResubmitSaveFails, Keeping
  <2>2. Holding' = Holding /\ Evidence' = Evidence
    BY <2>1, HoldingOf, HoldingReturn, EvidenceStutter
  <2>3. files \subseteq issued
    BY DEF ImageInv, OwnersOK
  <2>. QED  BY <1>5, <2>2, <2>3, ImagesLost DEF ResubmitSaveFails, SaveImageFails
<1>6. ASSUME ResubmitInvalidImage(r) \/ RefuseReview(r)
      PROVE  ImageInv'
  <2>1. /\ req[r].pc \notin Keeping /\ Return(r)
        /\ UNCHANGED <<proof, attempts>> /\ UNCHANGED <<files, issued, leaked>>
    BY <1>6 DEF ResubmitInvalidImage, RefuseReview, Keeping
  <2>. QED  BY <2>1, EvidenceStutter, ImagesIdle
<1>7. ASSUME RefuseResubmit(r) \/ FailTransaction(r)
      PROVE  ImageInv'
  <2>1. /\ req[r].pc \in {"creating", "resubmitting", "reviewing"} /\ Abort(r)
        /\ UNCHANGED <<proof, attempts>> /\ UNCHANGED <<files, issued, leaked>>
    BY <1>7 DEF RefuseResubmit, FailTransaction
  <2>. QED  BY <2>1, EvidenceStutter, HoldingAbort, ImagesSame
<1>8. ASSUME CleanUp(r) \/ CleanUpFails(r)
      PROVE  ImageInv'
  <2>1. /\ req[r].pc \in Keeping /\ req[r].image # None
        /\ Return(r) /\ UNCHANGED <<proof, attempts>>
    BY <1>8, HandlerByPc, ConstantsAssumption
       DEF CleanUp, CleanUpFails, TypeOK, Cleaning, Keeping
  <2>2. PICK held : held = [by |-> r, image |-> req[r].image]
    OBVIOUS
  <2>3. held \in Holding /\ held.image = req[r].image /\ Holding' = Holding \ {held}
    BY <2>1, <2>2, HoldingOf, HoldingReturn
  <2>4. Evidence' = Evidence
    BY <2>1, EvidenceStutter
  <2>5. CASE CleanUp(r)
    <3>1. OwnersOK(Evidence, Holding \ {held}, files \ {held.image}, issued, leaked)
      BY <2>3, OwnersDelete DEF ImageInv
    <3>2. files' = files \ {held.image} /\ UNCHANGED <<issued, leaked>>
      BY <2>3, <2>5 DEF CleanUp
    <3>. QED  BY <2>3, <2>4, <3>1, <3>2 DEF ImageInv
  <2>6. CASE CleanUpFails(r)
    <3>1. files \subseteq issued
      BY DEF ImageInv, OwnersOK
    <3>2. UNCHANGED <<files, issued>> /\ leaked' = leaked \cup {held.image}
      BY <2>3, <2>6 DEF CleanUpFails
    <3>. QED  BY <2>3, <2>4, <3>1, <3>2, ImagesLost
  <2>. QED  BY <1>8, <2>5, <2>6
<1>. QED  BY <1>1, <1>2, <1>3, <1>4, <1>5, <1>6, <1>7, <1>8 DEF Proceed

\* So does every step of the system.
LEMMA ImagesPreserved ==
  ASSUME TypeOK, HistoryInv, ImageInv, [Next]_vars
  PROVE  ImageInv'
<1>1. ASSUME Crash
      PROVE  ImageInv'
  <2>1. Evidence' = Evidence
    BY <1>1, EvidenceStutter DEF Crash
  <2>2. Holding' = {}
    BY <1>1 DEF Crash, Holding, Idle, Keeping
  <2>3. \A h \in Holding : h.image \in Held
    BY ConstantsAssumption DEF Holding, Held, Keeping
  <2>4. files \subseteq issued
    BY DEF ImageInv, OwnersOK
  <2>. QED  BY <1>1, <2>1, <2>2, <2>3, <2>4, ImagesLost DEF Crash
<1>2. ASSUME NEW p \in Proofs, NEW s \in OcrRecorded, RecordOcrResult(p, s)
      PROVE  ImageInv'
  <2>1. Holding' = Holding
    BY <1>2 DEF RecordOcrResult, Holding
  <2>. QED  BY <1>2, <2>1, EvidenceOcr, ImagesSame DEF RecordOcrResult
<1>3. ASSUME Tick \/ UNCHANGED vars
      PROVE  ImageInv'
  <2>1. Holding' = Holding
    BY <1>3 DEF Tick, vars, Holding
  <2>. QED  BY <1>3, <2>1, EvidenceStutter, ImagesSame DEF Tick, vars
<1>. QED  BY <1>1, <1>2, <1>3, ArriveImages, ProceedImages DEF Next

\* The invariant on the five sets holds in every reachable state.
LEMMA ImagesInvariant == Spec => []ImageInv
<1>1. Init => ImageInv
  BY DEF Init, ImageInv, OwnersOK, Evidence, Holding, Idle, Keeping
<1>. QED  BY <1>1, ImagesPreserved, TypeCorrect, HistoryInvariant, PTL DEF Spec

\* Attached and Held, in terms of the two sets of pairs.
LEMMA AttachedIsEvidence ==
  ASSUME TypeOK
  PROVE  /\ \A i \in Attached : \E e \in Evidence : e.image = i
         /\ \A e \in Evidence : e.image \in Attached
<1>1. ASSUME NEW p \in DOMAIN proof, NEW n \in DOMAIN attempts[p],
             attempts[p][n].image # None
      PROVE  [proof |-> p, number |-> n, image |-> attempts[p][n].image] \in Evidence
  BY <1>1 DEF TypeOK, AttemptRow, Evidence
<1>2. ASSUME NEW i \in Attached
      PROVE  \E e \in Evidence : e.image = i
  <2>1. PICK S \in {{attempts[p][n].image : n \in DOMAIN attempts[p]} : p \in DOMAIN proof} :
           i \in S /\ i # None
    BY DEF Attached
  <2>. PICK p \in DOMAIN proof : S = {attempts[p][n].image : n \in DOMAIN attempts[p]}
    OBVIOUS
  <2>2. PICK n \in DOMAIN attempts[p] : attempts[p][n].image = i /\ i # None
    BY <2>1
  <2>. QED  BY <1>1, <2>2
<1>3. ASSUME NEW e \in Evidence
      PROVE  e.image \in Attached
  <2>1. /\ e.proof \in DOMAIN proof
        /\ e.number \in DOMAIN attempts[e.proof]
        /\ attempts[e.proof][e.number].image = e.image
        /\ e.image # None
    BY ConstantsAssumption DEF Evidence
  <2>2. e.image \in {attempts[e.proof][n].image : n \in DOMAIN attempts[e.proof]}
    BY <2>1
  <2>. PICK S : S = {attempts[e.proof][n].image : n \in DOMAIN attempts[e.proof]}
    OBVIOUS
  <2>3. S \in {{attempts[p][n].image : n \in DOMAIN attempts[p]} : p \in DOMAIN proof}
    BY <2>1
  <2>. QED  BY <2>1, <2>2, <2>3 DEF Attached
<1>. QED  BY <1>2, <1>3

\* The same for the images in the hands of a handler.
LEMMA HeldIsHolding ==
  ASSUME TypeOK
  PROVE  /\ \A i \in Held : \E h \in Holding : h.image = i
         /\ \A h \in Holding : h.image \in Held
<1>1. ASSUME NEW r \in Requests, req[r].pc \in Keeping, req[r].image # None
      PROVE  [by |-> r, image |-> req[r].image] \in Holding
  BY <1>1, HoldingOf
<1>2. ASSUME NEW i \in Held
      PROVE  \E h \in Holding : h.image = i
  <2>1. PICK r \in Requests : req[r].pc \in Keeping /\ req[r].image = i /\ i # None
    BY DEF Held, Keeping
  <2>. QED  BY <1>1, <2>1
<1>3. ASSUME NEW h \in Holding
      PROVE  h.image \in Held
  BY ConstantsAssumption DEF Held, Holding, Keeping
<1>. QED  BY <1>2, <1>3

\* The evidence of every attempt, old or new, stays on the volume: no
\* clean-up, however it interleaves with the other handlers, deletes it.
THEOREM EvidenceIsKept == Spec => []NoDanglingImage
<1>1. TypeOK /\ ImageInv => NoDanglingImage
  BY AttachedIsEvidence DEF ImageInv, OwnersOK, NoDanglingImage
<1>. QED  BY <1>1, TypeCorrect, ImagesInvariant, PTL

\* An image has one owner, an attempt or a handler.
THEOREM ImagesHaveOneOwner == Spec => []ImageOwnedOnce
<1>1. ASSUME TypeOK, ImageInv
      PROVE  ImageOwnedOnce
  <2>1. ASSUME NEW p \in DOMAIN proof, NEW q \in DOMAIN proof,
               NEW m \in DOMAIN attempts[p], NEW n \in DOMAIN attempts[q],
               attempts[p][m].image = attempts[q][n].image,
               attempts[p][m].image # None
        PROVE  p = q /\ m = n
    <3>1. PICK e, f : /\ e = [proof |-> p, number |-> m, image |-> attempts[p][m].image]
                      /\ f = [proof |-> q, number |-> n, image |-> attempts[p][m].image]
      OBVIOUS
    <3>2. e \in Evidence /\ f \in Evidence
      BY <1>1, <2>1, <3>1 DEF TypeOK, AttemptRow, Evidence
    <3>3. e.image = f.image
      BY <3>1
    <3>4. e = f
      BY <1>1, <3>2, <3>3 DEF ImageInv, OwnersOK
    <3>. QED  BY <3>1, <3>4
  <2>2. Attached \cap Held = {}
    BY <1>1, AttachedIsEvidence, HeldIsHolding DEF ImageInv, OwnersOK
  <2>3. ASSUME NEW r \in Requests, NEW s \in Requests,
               {req[r].pc, req[s].pc} \subseteq {"creating", "resubmitting", "cleaning"},
               req[r].image = req[s].image, req[r].image # None
        PROVE  r = s
    <3>1. PICK h, k : h = [by |-> r, image |-> req[r].image]
                      /\ k = [by |-> s, image |-> req[r].image]
      OBVIOUS
    <3>2. h \in Holding /\ k \in Holding
      BY <1>1, <2>3, <3>1, HoldingOf DEF Keeping
    <3>3. h.image = k.image
      BY <3>1
    <3>4. h = k
      BY <1>1, <3>2, <3>3 DEF ImageInv, OwnersOK
    <3>. QED  BY <3>1, <3>4
  <2>. QED  BY <2>1, <2>2, <2>3 DEF ImageOwnedOnce
<1>. QED  BY <1>1, TypeCorrect, ImagesInvariant, PTL

\* Only a crash or a disk fault leaves an unreferenced image behind.
THEOREM NoImageIsOrphaned == Spec => []NoOrphanImage
<1>1. TypeOK /\ ImageInv => NoOrphanImage
  BY AttachedIsEvidence, HeldIsHolding DEF ImageInv, OwnersOK, NoOrphanImage
<1>. QED  BY <1>1, TypeCorrect, ImagesInvariant, PTL

-----------------------------------------------------------------------------
(***************************************************************************)
(* The service's invariants hold with the inbox running.                   *)
(***************************************************************************)

\* A step of the composition is a step of the service or leaves it alone.
LEMMA NStepsAreSteps == [NNext]_allVars => [Next]_vars
<1>1. Service \/ Crash => Next
  BY DEF Service, Next
<1>2. ASSUME NEW l \in Loads, \/ \E d \in Drivers : List(l, d)
                              \/ MarkStart(l) \/ MarkLand(l) \/ PageFails(l)
      PROVE  UNCHANGED vars
  BY <1>2 DEF List, MarkStart, MarkLand, PageFails
<1>3. UNCHANGED allVars => UNCHANGED vars
  BY DEF allVars
<1>. QED  BY <1>1, <1>2, <1>3 DEF NNext

\* The service alone, as seen from the composition.
LEMMA ServiceRuns == NSpec => Spec
BY NStepsAreSteps, PTL DEF NSpec, NInit, Spec

\* A proof id is inserted by a step, so that there are finitely many.
FiniteProofs == IsFiniteSet(DOMAIN proof)

LEMMA ProofsAreFinite == Spec => []FiniteProofs
<1>1. Init => FiniteProofs
  BY FS_EmptySet DEF Init, FiniteProofs
<1>2. TypeOK /\ HistoryInv /\ FiniteProofs /\ [Next]_vars => FiniteProofs'
  <2>. SUFFICES ASSUME TypeOK, HistoryInv, FiniteProofs, [Next]_vars
                PROVE  FiniteProofs'
    OBVIOUS
  <2>1. \/ \E p \in Proofs : DOMAIN proof' = DOMAIN proof \cup {p}
        \/ DOMAIN proof' = DOMAIN proof
    BY StepsOnTables, CreateEffect, ResubmitEffect, ReviewEffect DEF RecordOcrResult, TypeOK
  <2>. QED  BY <2>1, FS_AddElement DEF FiniteProofs
<1>. QED  BY <1>1, <1>2, TypeCorrect, HistoryInvariant, PTL DEF Spec

-----------------------------------------------------------------------------
(***************************************************************************)
(* The feed.                                                               *)
(***************************************************************************)

\* An event is in the feed of a driver iff an attempt of a proof of theirs
\* contributes it.
LEMMA InFeed ==
  ASSUME NEW d, NEW e
  PROVE  e \in Feed(d) <=>
           \E p \in DOMAIN proof : /\ proof[p].driver = d
                                   /\ \E n \in DOMAIN attempts[p] : e \in EventsOf(p, n)
BY DEF Feed

\* What identifies an event of attempt n of proof p.
LEMMA EventOfAttempt ==
  ASSUME NEW p, NEW n, NEW e
  PROVE  /\ e \in EventsOf(p, n) <=> \/ n > 1 /\ e = Submitted(p, n)
                                     \/ attempts[p][n].review # Pending /\ e = Decided(p, n)
         /\ e \in EventsOf(p, n) => e.proof = p /\ e.number = n
BY DEF EventsOf, IsResubmission, IsDecided, Submitted, Decided

\* An event read from a row that a step leaves alone is still read from it.
LEMMA EventsStay ==
  ASSUME NEW p, NEW n, attempts'[p][n] = attempts[p][n]
  PROVE  EventsOf(p, n)' = EventsOf(p, n)
BY DEF EventsOf, IsResubmission, IsDecided, Submitted, Decided

\* A step that leaves the attempts and the drivers alone leaves the feeds alone.
LEMMA FeedStutters ==
  ASSUME NEW d, DOMAIN proof' = DOMAIN proof,
         \A p \in DOMAIN proof : /\ proof'[p].driver = proof[p].driver
                                 /\ attempts'[p] = attempts[p]
  PROVE  Feed(d)' = Feed(d)
<1>1. ASSUME NEW p \in DOMAIN proof, NEW n \in DOMAIN attempts[p]
      PROVE  EventsOf(p, n)' = EventsOf(p, n)
  BY EventsStay
<1>2. \A e : e \in Feed(d)' <=> e \in Feed(d)
  BY <1>1 DEF Feed
<1>. QED  BY <1>2

\* An upload contributes no event.
LEMMA CreateFeed ==
  ASSUME TypeOK, NEW r \in Requests, NEW p \in Proofs, CommitCreate(r, p), NEW d
  PROVE  Feed(d)' = Feed(d)
<1>1. /\ p \notin DOMAIN proof
      /\ DOMAIN proof' = DOMAIN proof \cup {p}
      /\ attempts'[p] = [n \in {1} |-> NewAttempt(req[r].image, req[r].at)]
      /\ \A k \in DOMAIN proof : proof'[k] = proof[k] /\ attempts'[k] = attempts[k]
  BY CreateEffect
<1>2. DOMAIN attempts'[p] = {1} /\ attempts'[p][1].review = Pending
  BY <1>1 DEF NewAttempt
<1>3. EventsOf(p, 1)' = {}
  BY <1>2 DEF EventsOf, IsResubmission, IsDecided
<1>4. ASSUME NEW k \in DOMAIN proof, NEW n \in DOMAIN attempts[k]
      PROVE  EventsOf(k, n)' = EventsOf(k, n)
  BY <1>1, EventsStay
<1>5. \A e : e \in Feed(d)' <=> e \in Feed(d)
  BY <1>1, <1>2, <1>3, <1>4 DEF Feed
<1>. QED  BY <1>5

\* A step that changes nothing but attempt m of proof p, from contributing
\* `before' to contributing one event more, adds that event to one feed.
LEMMA OneMoreEvent ==
  ASSUME NEW p \in DOMAIN proof, NEW m, NEW event,
         DOMAIN proof' = DOMAIN proof,
         proof'[p].driver = proof[p].driver,
         \A k \in DOMAIN proof \ {p} : proof'[k] = proof[k] /\ attempts'[k] = attempts[k],
         DOMAIN attempts'[p] = DOMAIN attempts[p] \cup {m},
         \A n \in DOMAIN attempts[p] \ {m} : attempts'[p][n] = attempts[p][n],
         \A e : e \in EventsOf(p, m)' <=>
                  e = event \/ (m \in DOMAIN attempts[p] /\ e \in EventsOf(p, m)),
         m \in DOMAIN attempts[p] => event \notin EventsOf(p, m),
         NEW d
  PROVE  /\ d = proof[p].driver => Feed(d)' = Feed(d) \cup {event} /\ event \notin Feed(d)
         /\ d # proof[p].driver => Feed(d)' = Feed(d)
<1>1. ASSUME NEW k \in DOMAIN proof, NEW n \in DOMAIN attempts[k], <<k, n>> # <<p, m>>
      PROVE  EventsOf(k, n)' = EventsOf(k, n)
  BY <1>1, EventsStay
<1>2. event.proof = p /\ event.number = m
  <2>1. \A n, e : e \in EventsOf(p, n)' => e.proof = p /\ e.number = n
    BY DEF EventsOf, IsResubmission, IsDecided, Submitted, Decided
  <2>. QED  BY <2>1
<1>3. event \notin Feed(d)
  BY <1>2, InFeed, EventOfAttempt
<1>4. ASSUME NEW e
      PROVE  e \in Feed(d)' <=> e \in Feed(d) \/ (d = proof[p].driver /\ e = event)
  <2>1. e \in Feed(d)' <=> \E k \in DOMAIN proof : /\ proof'[k].driver = d
                              /\ \E n \in DOMAIN attempts'[k] : e \in EventsOf(k, n)'
    BY DEF Feed
  <2>2. ASSUME NEW k \in DOMAIN proof \ {p}
        PROVE  (\E n \in DOMAIN attempts'[k] : e \in EventsOf(k, n)')
                 <=> \E n \in DOMAIN attempts[k] : e \in EventsOf(k, n)
    BY <1>1
  <2>3. (\E n \in DOMAIN attempts'[p] : e \in EventsOf(p, n)')
          <=> (\E n \in DOMAIN attempts[p] : e \in EventsOf(p, n)) \/ e = event
    BY <1>1
  <2>. QED  BY <2>1, <2>2, <2>3, InFeed
<1>. QED  BY <1>3, <1>4

\* A resubmission adds its event to the feed of the proof's driver: no other
\* feed changes, though the parent's review columns are cleared.
LEMMA ResubmitFeed ==
  ASSUME TypeOK, HistoryInv, NEW r \in Requests, CommitResubmit(r),
         NEW p, p = req[r].proof
  PROVE  \E event : /\ event.proof = p /\ event.type = "RESUBMITTED_PENDING"
                    /\ \A d : /\ d = proof[p].driver =>
                                    Feed(d)' = Feed(d) \cup {event} /\ event \notin Feed(d)
                              /\ d # proof[p].driver => Feed(d)' = Feed(d)
<1>1. PICK n \in 1..MaxAttempts :
         /\ DOMAIN attempts[p] = 1..n
         /\ attempts'[p] = Insert(attempts[p], n + 1, NewAttempt(req[r].image, clock))
  BY ResubmitEffect
<1>2. /\ p \in DOMAIN proof
      /\ DOMAIN proof' = DOMAIN proof
      /\ \A k \in DOMAIN proof \ {p} : proof'[k] = proof[k] /\ attempts'[k] = attempts[k]
  BY ResubmitEffect
<1>3. proof'[p].driver = proof[p].driver
  <2>1. proof'[p] = Resubmitted(proof[p], req[r].image)
    BY <1>2 DEF CommitResubmit, TypeOK
  <2>2. req[r].image \in Images
    BY HandlerByPc DEF CommitResubmit, TypeOK, Resubmitting
  <2>. QED  BY <1>2, <2>1, <2>2, ResubmittedProof DEF TypeOK
<1>4. /\ DOMAIN attempts'[p] = DOMAIN attempts[p] \cup {n + 1}
      /\ n + 1 \notin DOMAIN attempts[p]
      /\ \A k \in DOMAIN attempts[p] : attempts'[p][k] = attempts[p][k]
      /\ attempts'[p][n + 1] = NewAttempt(req[r].image, clock)
  BY <1>1, ConstantsAssumption DEF Insert
<1>5. PICK event : event = Submitted(p, n + 1)'
  OBVIOUS
<1>6. EventsOf(p, n + 1)' = {event}
  <2>1. attempts'[p][n + 1].review = Pending
    BY <1>4 DEF NewAttempt
  <2>2. n + 1 > 1
    BY ConstantsAssumption
  <2>. QED  BY <1>5, <2>1, <2>2 DEF EventsOf, IsResubmission, IsDecided
<1>7. event.proof = p /\ event.type = "RESUBMITTED_PENDING"
  BY <1>5 DEF Submitted
<1>8. ASSUME NEW d
      PROVE  /\ d = proof[p].driver => Feed(d)' = Feed(d) \cup {event} /\ event \notin Feed(d)
             /\ d # proof[p].driver => Feed(d)' = Feed(d)
  <2>1. PICK m : m = n + 1
    OBVIOUS
  <2>2. \A e : e \in EventsOf(p, m)' <=>
                 e = event \/ (m \in DOMAIN attempts[p] /\ e \in EventsOf(p, m))
    BY <1>4, <1>6, <2>1
  <2>3. /\ DOMAIN attempts'[p] = DOMAIN attempts[p] \cup {m} /\ m \notin DOMAIN attempts[p]
        /\ \A k \in DOMAIN attempts[p] \ {m} : attempts'[p][k] = attempts[p][k]
    BY <1>4, <2>1
  <2>4. m \in DOMAIN attempts[p] => event \notin EventsOf(p, m)
    BY <2>3
  <2>. QED  BY ONLY <1>2, <1>3, <2>2, <2>3, <2>4, OneMoreEvent, SMTT(60)
<1>. QED  BY <1>7, <1>8

\* A review adds its decision to the feed of the proof's driver.
LEMMA ReviewFeed ==
  ASSUME TypeOK, HistoryInv, NEW r \in Requests, CommitReview(r),
         NEW p, p = req[r].proof
  PROVE  \E event : /\ event.proof = p /\ event.type = proof'[p].review.status
                    /\ event.type \in {"VERIFIED", "REJECTED"}
                    /\ \A d : /\ d = proof[p].driver =>
                                    Feed(d)' = Feed(d) \cup {event} /\ event \notin Feed(d)
                              /\ d # proof[p].driver => Feed(d)' = Feed(d)
<1>1. PICK n \in 1..MaxAttempts, review \in Review :
         /\ HistoryUpTo(p, n)
         /\ review = Reviewed(req[r].decision, req[r].at, req[r].by)
         /\ proof'[p] = WithReview(proof[p], review)
         /\ attempts'[p] = RecordReview(attempts[p], n, review)
  BY ReviewEffect
<1>2. /\ p \in DOMAIN proof
      /\ proof[p].review.status = "PENDING"
      /\ DOMAIN proof' = DOMAIN proof
      /\ \A k \in DOMAIN proof \ {p} : proof'[k] = proof[k] /\ attempts'[k] = attempts[k]
  BY ReviewEffect
<1>3. proof'[p].driver = proof[p].driver /\ proof'[p].review = review
  BY <1>1, <1>2, WithReviewProof DEF TypeOK
<1>4. /\ n \in Nat /\ n >= 1
      /\ attempts[p] \in [1..n -> AttemptRow]
  BY <1>1, <1>2, ConstantsAssumption DEF TypeOK, HistoryUpTo
<1>5. /\ DOMAIN attempts'[p] = DOMAIN attempts[p] /\ n \in DOMAIN attempts[p]
      /\ \A k \in DOMAIN attempts[p] \ {n} : attempts'[p][k] = attempts[p][k]
      /\ attempts'[p][n].submittedAt = attempts[p][n].submittedAt
      /\ attempts'[p][n].review = review
  BY <1>1, <1>4, RecordReviewRows
<1>6. review.status \in {"VERIFIED", "REJECTED"} /\ review # Pending
  <2>1. req[r] \in Reviewing
    BY HandlerByPc DEF TypeOK, CommitReview
  <2>. QED  BY <1>1, <2>1, ReviewedIsReview DEF Reviewing, Pending
<1>7. attempts[p][n].review = Pending
  BY <1>1, <1>2, PendingStatus DEF HistoryUpTo, TypeOK, ProofRow
<1>8. PICK event : event = Decided(p, n)'
  OBVIOUS
<1>9. event.proof = p /\ event.type = review.status
  BY <1>5, <1>8 DEF Decided
<1>10. EventsOf(p, n)' = EventsOf(p, n) \cup {event} /\ event \notin EventsOf(p, n)
  <2>1. Submitted(p, n)' = Submitted(p, n)
    BY <1>5 DEF Submitted
  <2>2. EventsOf(p, n) = {e \in {Submitted(p, n)} : IsResubmission(n)}
    BY <1>7 DEF EventsOf, IsDecided
  <2>3. EventsOf(p, n)' = {e \in {Submitted(p, n)} : IsResubmission(n)} \cup {event}
    BY <1>5, <1>6, <1>8, <2>1 DEF EventsOf, IsDecided, IsResubmission
  <2>4. Submitted(p, n).type = "RESUBMITTED_PENDING"
    BY DEF Submitted
  <2>. QED  BY <1>6, <1>9, <2>2, <2>3, <2>4
<1>11. DOMAIN attempts'[p] = DOMAIN attempts[p] \cup {n}
  BY <1>5
<1>12. \A e : e \in EventsOf(p, n)' <=>
             e = event \/ (n \in DOMAIN attempts[p] /\ e \in EventsOf(p, n))
  BY <1>5, <1>10
<1>13. /\ event.proof = p /\ event.type = proof'[p].review.status
       /\ event.type \in {"VERIFIED", "REJECTED"}
  BY <1>3, <1>6, <1>9
<1>14. ASSUME NEW d
       PROVE  /\ d = proof[p].driver => Feed(d)' = Feed(d) \cup {event} /\ event \notin Feed(d)
              /\ d # proof[p].driver => Feed(d)' = Feed(d)
  BY ONLY <1>2, <1>3, <1>5, <1>10, <1>11, <1>12, OneMoreEvent
<1>. QED  BY <1>13, <1>14

\* The proofs of a driver whose parent row changed its status in a step.
Moved(d) == {p \in DOMAIN proof : /\ proof[p].driver = d
                                  /\ proof'[p].review.status # proof[p].review.status}

\* What a step does to a feed: nothing, and no proof of the driver moved, or
\* one event is added and the proof it is about is the one that moved.
FeedStep(d) ==
    \/ Feed(d)' = Feed(d) /\ Moved(d) = {}
    \/ \E p, event :
          /\ Feed(d)' = Feed(d) \cup {event} /\ event \notin Feed(d)
          /\ Moved(d) = {p} /\ event.proof = p
          /\ event.type = IF proof'[p].review.status = "PENDING"
                          THEN "RESUBMITTED_PENDING" ELSE proof'[p].review.status

\* Every step does one of the two.
LEMMA FeedSteps ==
  ASSUME TypeOK, HistoryInv, [Next]_vars, NEW d
  PROVE  FeedStep(d)
<1>1. ASSUME NEW r \in Requests, NEW p \in Proofs, CommitCreate(r, p)
      PROVE  FeedStep(d)
  BY <1>1, CreateFeed, CreateEffect DEF FeedStep, Moved
<1>2. ASSUME NEW r \in Requests, CommitResubmit(r)
      PROVE  FeedStep(d)
  <2>1. PICK p : p = req[r].proof
    OBVIOUS
  <2>2. /\ p \in DOMAIN proof
        /\ proof[p].review.status = "REJECTED"
        /\ \A k \in DOMAIN proof \ {p} : proof'[k] = proof[k]
    BY <1>2, <2>1, ResubmitEffect
  <2>3. PICK event : /\ event.proof = p /\ event.type = "RESUBMITTED_PENDING"
                     /\ d = proof[p].driver =>
                           Feed(d)' = Feed(d) \cup {event} /\ event \notin Feed(d)
                     /\ d # proof[p].driver => Feed(d)' = Feed(d)
    BY <1>2, <2>1, ResubmitFeed
  <2>4. proof'[p].review.status = "PENDING"
    BY <1>2, <2>1, <2>2, ResubmittedProof, PendingIsReview, HandlerByPc
       DEF CommitResubmit, TypeOK, Resubmitting
  <2>5. d = proof[p].driver => Moved(d) = {p}
    BY <2>2, <2>4 DEF Moved
  <2>6. d # proof[p].driver => Moved(d) = {}
    BY <2>2 DEF Moved
  <2>. QED  BY <2>3, <2>4, <2>5, <2>6 DEF FeedStep
<1>3. ASSUME NEW r \in Requests, CommitReview(r)
      PROVE  FeedStep(d)
  <2>1. PICK p : p = req[r].proof
    OBVIOUS
  <2>2. /\ p \in DOMAIN proof
        /\ proof[p].review.status = "PENDING"
        /\ \A k \in DOMAIN proof \ {p} : proof'[k] = proof[k]
    BY <1>3, <2>1, ReviewEffect
  <2>3. PICK event : /\ event.proof = p /\ event.type = proof'[p].review.status
                     /\ event.type \in {"VERIFIED", "REJECTED"}
                     /\ d = proof[p].driver =>
                           Feed(d)' = Feed(d) \cup {event} /\ event \notin Feed(d)
                     /\ d # proof[p].driver => Feed(d)' = Feed(d)
    BY <1>3, <2>1, ReviewFeed
  <2>4. d = proof[p].driver => Moved(d) = {p}
    BY <2>2, <2>3 DEF Moved
  <2>5. d # proof[p].driver => Moved(d) = {}
    BY <2>2 DEF Moved
  <2>. QED  BY <2>3, <2>4, <2>5 DEF FeedStep
<1>4. ASSUME \/ UNCHANGED <<proof, attempts>>
             \/ \E p \in Proofs, s \in OcrRecorded : RecordOcrResult(p, s)
      PROVE  FeedStep(d)
  <2>1. /\ DOMAIN proof' = DOMAIN proof /\ attempts' = attempts
        /\ \A p \in DOMAIN proof : /\ proof'[p].driver = proof[p].driver
                                   /\ proof'[p].review = proof[p].review
    BY <1>4 DEF RecordOcrResult, TypeOK, ProofRow
  <2>. QED  BY <2>1, FeedStutters DEF FeedStep, Moved
<1>. QED  BY <1>1, <1>2, <1>3, <1>4, StepsOnTables

\* What FeedFollowsHistory says of one driver and one step.
FollowsStep(d) ==
    /\ Feed(d) \subseteq Feed(d)'
    /\ Cardinality(Feed(d)' \ Feed(d)) = Cardinality(Moved(d))
    /\ \A p \in Moved(d) : \E e \in Feed(d)' \ Feed(d) :
          /\ e.proof = p
          /\ e.type = IF proof'[p].review.status = "PENDING"
                      THEN "RESUBMITTED_PENDING" ELSE proof'[p].review.status

\* The feed of every driver follows the status of their proofs, event by
\* event, and never loses one: though the status is read from one table and
\* the feed from the other, whatever the handlers in flight do.
THEOREM FeedFollows == NSpec => FeedFollowsHistory
<1>1. ASSUME NEW d, FeedStep(d)
      PROVE  FollowsStep(d)
  <2>1. CASE Feed(d)' = Feed(d) /\ Moved(d) = {}
    BY <2>1 DEF FollowsStep
  <2>2. ASSUME NEW p, NEW event,
               Feed(d)' = Feed(d) \cup {event}, event \notin Feed(d), Moved(d) = {p},
               event.proof = p,
               event.type = IF proof'[p].review.status = "PENDING"
                            THEN "RESUBMITTED_PENDING" ELSE proof'[p].review.status
        PROVE  FollowsStep(d)
    <3>1. Feed(d)' \ Feed(d) = {event}
      BY <2>2
    <3>2. Cardinality({event}) = 1 /\ Cardinality({p}) = 1
      BY FS_Singleton
    <3>. QED  BY <2>2, <3>1, <3>2 DEF FollowsStep
  <2>. QED  BY <1>1, <2>1, <2>2 DEF FeedStep
<1>2. TypeOK /\ HistoryInv /\ [NNext]_allVars => \A d \in Drivers : FollowsStep(d)
  BY <1>1, FeedSteps, NStepsAreSteps
<1>3. (\A d \in Drivers : FollowsStep(d)) =>
        \A d \in Drivers :
          LET new == Feed(d)' \ Feed(d)
              moved == {p \in DOMAIN proof : proof[p].driver = d
                          /\ proof'[p].review.status # proof[p].review.status} IN
          /\ Feed(d) \subseteq Feed(d)'
          /\ Cardinality(new) = Cardinality(moved)
          /\ \A p \in moved : \E e \in new :
                /\ e.proof = p
                /\ e.type = IF proof'[p].review.status = "PENDING"
                            THEN "RESUBMITTED_PENDING" ELSE proof'[p].review.status
  BY DEF FollowsStep, Moved
<1>. QED  BY <1>2, <1>3, ServiceRuns, TypeCorrect, HistoryInvariant, PTL
          DEF NSpec, FeedFollowsHistory

-----------------------------------------------------------------------------
(***************************************************************************)
(* The badge.                                                              *)
(***************************************************************************)

\* The values of a function on a finite set are finitely many.
LEMMA FiniteValues ==
  ASSUME NEW S, IsFiniteSet(S), NEW f, f = [x \in S |-> f[x]]
  PROVE  IsFiniteSet({f[x] : x \in S})
<1>1. f \in Surjection(S, {f[x] : x \in S})
  BY DEF Surjection
<1>. QED  BY <1>1, FS_Surjection

\* A union of finitely many finite sets is finite.
LEMMA FiniteUnion ==
  ASSUME NEW S, IsFiniteSet(S), NEW f, f = [x \in S |-> f[x]],
         \A x \in S : IsFiniteSet(f[x])
  PROVE  IsFiniteSet(UNION {f[x] : x \in S})
<1>1. IsFiniteSet({f[x] : x \in S})
  BY FiniteValues
<1>2. \A T \in {f[x] : x \in S} : IsFiniteSet(T)
  OBVIOUS
<1>. QED  BY <1>1, <1>2, FS_UNION

\* A proof contributes finitely many events,
LEMMA FiniteEvents ==
  ASSUME TypeOK, NEW p \in DOMAIN proof
  PROVE  IsFiniteSet(UNION {EventsOf(p, n) : n \in DOMAIN attempts[p]})
<1>1. IsFiniteSet(DOMAIN attempts[p])
  <2>1. IsFiniteSet(1..MaxAttempts)
    BY FS_Interval, ConstantsAssumption
  <2>2. DOMAIN attempts[p] \in SUBSET (1..MaxAttempts)
    BY DEF TypeOK
  <2>. QED  BY ONLY <2>1, <2>2, FS_Subset
<1>2. PICK f : f = [n \in DOMAIN attempts[p] |-> EventsOf(p, n)]
  OBVIOUS
<1>3. ASSUME NEW n
      PROVE  IsFiniteSet(EventsOf(p, n))
  <2>1. EventsOf(p, n) \in SUBSET ({Submitted(p, n)} \cup {Decided(p, n)})
    BY DEF EventsOf
  <2>2. IsFiniteSet({Submitted(p, n)} \cup {Decided(p, n)})
    BY FS_Singleton, FS_AddElement
  <2>. QED  BY <2>1, <2>2, FS_Subset
<1>4. IsFiniteSet(UNION {f[n] : n \in DOMAIN attempts[p]})
  BY <1>1, <1>2, <1>3, FiniteUnion
<1>. QED  BY <1>2, <1>4

\* and a feed has finitely many.
LEMMA FiniteFeed ==
  ASSUME TypeOK, FiniteProofs, NEW d
  PROVE  IsFiniteSet(Feed(d))
<1>1. PICK mine : mine = {q \in DOMAIN proof : proof[q].driver = d}
  OBVIOUS
<1>2. IsFiniteSet(mine) /\ mine \subseteq DOMAIN proof
  BY <1>1, FS_Subset DEF FiniteProofs
<1>3. PICK f : f = [p \in mine |-> UNION {EventsOf(p, n) : n \in DOMAIN attempts[p]}]
  OBVIOUS
<1>4. \A p \in mine : IsFiniteSet(f[p])
  BY <1>2, <1>3, FiniteEvents
<1>5. IsFiniteSet(UNION {f[p] : p \in mine})
  BY <1>2, <1>3, <1>4, FiniteUnion
<1>6. Feed(d) = UNION {UNION {EventsOf(p, n) : n \in DOMAIN attempts[p]} : p \in mine}
  BY <1>1 DEF Feed
<1>7. {f[p] : p \in mine} = {UNION {EventsOf(p, n) : n \in DOMAIN attempts[p]} : p \in mine}
  BY <1>3
<1>. QED  BY <1>5, <1>6, <1>7

FeedsFinite == \A d \in Drivers : IsFiniteSet(Feed(d))

LEMMA FeedsAreFinite == Spec => []FeedsFinite
<1>1. TypeOK /\ FiniteProofs => FeedsFinite
  BY FiniteFeed DEF FeedsFinite
<1>. QED  BY <1>1, TypeCorrect, ProofsAreFinite, PTL

\* The cursor of a driver moves only when a page of theirs finishes loading.
LEMMA CursorMoves ==
  ASSUME [NNext]_allVars, NEW d, cursor'[d] # cursor[d],
         page = [l \in Loads |-> page[l]]
  PROVE  \E l \in Loads : /\ page[l].pc = "marking" /\ page[l].driver = d
                          /\ page'[l] = NoPage
<1>1. UNCHANGED cursor \/ \E l \in Loads : MarkLand(l)
  BY DEF NNext, allVars, inboxVars, List, MarkStart, PageFails
<1>2. PICK l \in Loads : MarkLand(l)
  BY <1>1
<1>3. page[l].driver = d
  BY <1>2 DEF MarkLand
<1>. QED  BY <1>2, <1>3 DEF MarkLand

-----------------------------------------------------------------------------
(***************************************************************************)
(* What was shown stays read.                                              *)
(***************************************************************************)

\* What an inbox page holds, by its pc.
PageState == {NoPage}
    \cup [pc : {"listed"}, driver : Drivers, list : SUBSET Event]
    \cup [pc : {"marking"}, driver : Drivers, list : SUBSET Event, at : Time]

\* The types of the inbox's own variables.
InboxTyped ==
    /\ cursor \in [Drivers -> Time \cup {None}]
    /\ page \in [Loads -> PageState]
    /\ seen \in [Drivers -> SUBSET Event]

\* No event of the set is later than the time.
NoneLater(events, time) == \A e \in events : e.at <= time

\* A page lists what is past, marks at a time that is past, never before what
\* it lists and never before the cursor: its driver's earlier marks land first.
PageInv(l) ==
    /\ page[l].pc = "listed" => NoneLater(page[l].list, clock)
    /\ page[l].pc = "marking" =>
          /\ page[l].at <= clock
          /\ NoneLater(page[l].list, page[l].at)
          /\ cursor[page[l].driver] # None => cursor[page[l].driver] <= page[l].at

\* What was shown is not later than the cursor, which is past.
CursorInv(d) ==
    /\ cursor[d] # None => cursor[d] <= clock
    /\ seen[d] # {} => cursor[d] # None /\ NoneLater(seen[d], cursor[d])

InboxInv == /\ InboxTyped
            /\ \A l \in Loads : PageInv(l)
            /\ \A d \in Drivers : CursorInv(d)

\* The bounds of time are numbers, and no time is NULL.
LEMMA TimeNumbers ==
  /\ Time \subseteq Nat
  /\ None \notin Time
BY ConstantsAssumption DEF Time

\* A feed holds well-typed events of the past.
LEMMA FeedIsPast ==
  ASSUME TypeOK, TimelineInv, NEW d
  PROVE  Feed(d) \subseteq Event /\ NoneLater(Feed(d), clock)
<1>. SUFFICES ASSUME NEW p \in DOMAIN proof, NEW n \in DOMAIN attempts[p],
                     NEW e \in EventsOf(p, n)
              PROVE  e \in Event /\ e.at <= clock
  BY InFeed DEF NoneLater
<1>1. /\ p \in Proofs /\ n \in 1..MaxAttempts
      /\ attempts[p][n] \in AttemptRow
  BY DEF TypeOK
<1>2. /\ attempts[p][n].submittedAt <= clock
      /\ attempts[p][n].review # Pending => attempts[p][n].review.at <= clock
  BY DEF TimelineInv, TimesOf, TimesIn
<1>3. CASE e = Submitted(p, n)
  BY <1>1, <1>2, <1>3 DEF Submitted, Event, AttemptRow
<1>4. CASE attempts[p][n].review # Pending /\ e = Decided(p, n)
  <2>1. PICK c \in Decision, t \in Time, o \in Owners : attempts[p][n].review = Reviewed(c, t, o)
    BY <1>1, <1>4 DEF AttemptRow, Review
  <2>2. /\ attempts[p][n].review.status \in {"VERIFIED", "REJECTED"}
        /\ attempts[p][n].review.at \in Time
        /\ attempts[p][n].review.reason \in Reasons \cup {None}
    BY <2>1 DEF Reviewed, Decision
  <2>. QED  BY <1>1, <1>2, <1>4, <2>2 DEF Decided, Event
<1>. QED  BY <1>3, <1>4, EventOfAttempt

\* Being no later carries over to fewer events and to a later time.
LEMMA NoneLaterYet ==
  ASSUME NEW events \in SUBSET Event, NEW fewer \in SUBSET events,
         NEW t \in Nat, NEW u \in Nat, t <= u, NoneLater(events, t)
  PROVE  NoneLater(fewer, u)
<1>1. \A e \in events : e.at \in Nat
  BY TimeNumbers DEF Event
<1>. QED  BY <1>1 DEF NoneLater

\* The pc of a page says what else it holds.
LEMMA PageByPc ==
  ASSUME NEW h \in PageState
  PROVE  /\ h.pc = "listed" => h \in [pc : {"listed"}, driver : Drivers, list : SUBSET Event]
         /\ h.pc = "marking" =>
               h \in [pc : {"marking"}, driver : Drivers, list : SUBSET Event, at : Time]
         /\ h = NoPage <=> h.pc = "idle"
BY DEF PageState, NoPage

\* The types of the inbox are kept.
LEMMA InboxTypedPreserved ==
  ASSUME TypeOK, TimelineInv, InboxTyped, [NNext]_allVars
  PROVE  InboxTyped'
<1>1. ASSUME NEW l \in Loads, NEW d \in Drivers, List(l, d)
      PROVE  InboxTyped'
  <2>1. \A list \in SUBSET Feed(d) :
           [pc |-> "listed", driver |-> d, list |-> list] \in PageState
    BY FeedIsPast DEF PageState
  <2>. QED  BY <1>1, <2>1 DEF List, InboxTyped
<1>2. ASSUME NEW l \in Loads, MarkStart(l)
      PROVE  InboxTyped'
  <2>1. page[l] \in [pc : {"listed"}, driver : Drivers, list : SUBSET Event]
    BY <1>2, PageByPc DEF MarkStart, InboxTyped
  <2>2. [pc |-> "marking", driver |-> page[l].driver, list |-> page[l].list, at |-> clock]
          \in PageState
    BY <2>1 DEF PageState, TypeOK
  <2>. QED  BY <1>2, <2>2 DEF MarkStart, InboxTyped
<1>3. ASSUME NEW l \in Loads, MarkLand(l)
      PROVE  InboxTyped'
  <2>1. page[l] \in [pc : {"marking"}, driver : Drivers, list : SUBSET Event, at : Time]
    BY <1>3, PageByPc DEF MarkLand, InboxTyped
  <2>. QED  BY <1>3, <2>1 DEF MarkLand, InboxTyped, PageState
<1>4. ASSUME NEW l \in Loads, PageFails(l)
      PROVE  InboxTyped'
  BY <1>4 DEF PageFails, InboxTyped, PageState
<1>5. ASSUME page' = [l \in Loads |-> NoPage], UNCHANGED <<cursor, seen>>
      PROVE  InboxTyped'
  BY <1>5 DEF InboxTyped, PageState
<1>6. ASSUME UNCHANGED inboxVars
      PROVE  InboxTyped'
  BY <1>6 DEF InboxTyped, inboxVars
<1>. QED  BY <1>1, <1>2, <1>3, <1>4, <1>5, <1>6 DEF NNext, allVars

\* While the inbox stands still, the clock only makes its times more past.
LEMMA InboxWaits ==
  ASSUME InboxInv, clock \in Nat, clock' \in Nat, clock <= clock', UNCHANGED <<cursor, seen>>
  PROVE  /\ \A l \in Loads : page'[l] = page[l] \/ page'[l] = NoPage => PageInv(l)'
         /\ \A d \in Drivers : CursorInv(d)'
<1>1. ASSUME NEW l \in Loads, page'[l] = page[l]
      PROVE  PageInv(l)'
  <2>1. page[l].pc = "listed" => page[l].list \in SUBSET Event
    BY PageByPc DEF InboxInv, InboxTyped
  <2>2. page[l].pc = "marking" => page[l].at \in Nat
    BY PageByPc, TimeNumbers DEF InboxInv, InboxTyped
  <2>3. page[l].pc = "listed" => NoneLater(page[l].list, clock')
    BY <2>1, NoneLaterYet DEF InboxInv, PageInv
  <2>. QED  BY <1>1, <2>2, <2>3 DEF InboxInv, PageInv, NoneLater
<1>2. ASSUME NEW l \in Loads, page'[l] = NoPage
      PROVE  PageInv(l)'
  BY <1>2 DEF PageInv, NoPage
<1>3. ASSUME NEW d \in Drivers
      PROVE  CursorInv(d)'
  <2>1. cursor[d] # None => cursor[d] \in Nat
    BY TimeNumbers DEF InboxInv, InboxTyped
  <2>. QED  BY <2>1 DEF InboxInv, CursorInv, NoneLater
<1>. QED  BY <1>1, <1>2, <1>3

\* Listing keeps the invariant: what is listed is past;
LEMMA ListInbox ==
  ASSUME TypeOK, TimelineInv, InboxInv, NEW l \in Loads, NEW d \in Drivers, List(l, d)
  PROVE  /\ \A m \in Loads : PageInv(m)'
         /\ \A e \in Drivers : CursorInv(e)'
<1>1. clock \in Nat /\ clock' = clock /\ UNCHANGED <<cursor, seen>>
  BY TimeNumbers DEF List, TypeOK, vars
<1>2. PICK list \in SUBSET Feed(d) :
         page' = [page EXCEPT ![l] = [pc |-> "listed", driver |-> d, list |-> list]]
  BY DEF List
<1>3. NoneLater(list, clock)
  BY FeedIsPast DEF NoneLater
<1>4. page'[l] = [pc |-> "listed", driver |-> d, list |-> list]
      /\ \A m \in Loads \ {l} : page'[m] = page[m]
  BY <1>2 DEF InboxInv, InboxTyped
<1>5. PageInv(l)'
  BY <1>1, <1>3, <1>4 DEF PageInv, NoneLater
<1>. QED  BY <1>1, <1>4, <1>5, InboxWaits

\* so does starting to mark: the clock is read now, after everything listed;
LEMMA MarkStartInbox ==
  ASSUME TypeOK, InboxInv, NEW l \in Loads, MarkStart(l)
  PROVE  /\ \A m \in Loads : PageInv(m)'
         /\ \A e \in Drivers : CursorInv(e)'
<1>1. clock \in Nat /\ clock' = clock /\ UNCHANGED <<cursor, seen>>
  BY TimeNumbers DEF MarkStart, TypeOK, vars
<1>2. page[l] \in [pc : {"listed"}, driver : Drivers, list : SUBSET Event]
  BY PageByPc DEF MarkStart, InboxInv, InboxTyped
<1>3. PICK marking :
         /\ marking = [pc |-> "marking", driver |-> page[l].driver,
                       list |-> page[l].list, at |-> clock]
         /\ page' = [page EXCEPT ![l] = marking]
  BY DEF MarkStart
<1>4. page'[l] = marking /\ \A m \in Loads \ {l} : page'[m] = page[m]
  BY <1>3 DEF InboxInv, InboxTyped
<1>5. NoneLater(page[l].list, clock)
  BY <1>2 DEF InboxInv, PageInv
<1>6. cursor[page[l].driver] # None => cursor[page[l].driver] <= clock
  BY <1>2 DEF InboxInv, CursorInv
<1>7. /\ marking.pc = "marking" /\ marking.driver = page[l].driver
      /\ marking.list = page[l].list /\ marking.at = clock
  BY <1>3
<1>8. PageInv(l)'
  BY <1>1, <1>4, <1>5, <1>6, <1>7 DEF PageInv, NoneLater
<1>. QED  BY <1>1, <1>4, <1>8, InboxWaits

\* and so does landing a mark: the earliest of its driver, and not before the
\* cursor, so that the later ones still are not and all that was seen is past it.
LEMMA MarkLandInbox ==
  ASSUME TypeOK, InboxInv, NEW l \in Loads, MarkLand(l)
  PROVE  /\ \A m \in Loads : PageInv(m)'
         /\ \A e \in Drivers : CursorInv(e)'
<1>. PICK d, t, list : d = page[l].driver /\ t = page[l].at /\ list = page[l].list
  OBVIOUS
<1>1. clock \in Nat /\ clock' = clock
  BY TimeNumbers DEF MarkLand, TypeOK, vars
<1>2. d \in Drivers /\ list \in SUBSET Event /\ t \in Time
  BY PageByPc DEF MarkLand, InboxInv, InboxTyped
<1>3. /\ cursor' = [cursor EXCEPT ![d] = t]
      /\ seen' = [seen EXCEPT ![d] = seen[d] \cup list]
      /\ page' = [page EXCEPT ![l] = NoPage]
  BY DEF MarkLand
<1>4. /\ cursor'[d] = t /\ \A e \in Drivers \ {d} : cursor'[e] = cursor[e]
      /\ seen'[d] = seen[d] \cup list /\ \A e \in Drivers \ {d} : seen'[e] = seen[e]
      /\ page'[l] = NoPage /\ \A m \in Loads \ {l} : page'[m] = page[m]
  BY <1>2, <1>3 DEF InboxInv, InboxTyped
<1>5. /\ t <= clock
      /\ NoneLater(list, t)
      /\ cursor[d] # None => cursor[d] <= t
  BY DEF InboxInv, PageInv, MarkLand
<1>6. ASSUME NEW m \in Loads
      PROVE  PageInv(m)'
  <2>1. CASE m = l
    BY <1>4, <2>1 DEF PageInv, NoPage
  <2>2. CASE m # l /\ page[m].pc = "marking"
    <3>1. page[m].driver = d => t <= page[m].at
      BY <2>2 DEF MarkLand, IsNextMark
    <3>2. page[m].driver \in Drivers
      BY <2>2, PageByPc DEF InboxInv, InboxTyped
    <3>. QED  BY <1>1, <1>4, <2>2, <3>1, <3>2 DEF InboxInv, PageInv, NoneLater
  <2>3. CASE m # l /\ page[m].pc # "marking"
    BY <1>1, <1>4, <2>3 DEF InboxInv, PageInv, NoneLater
  <2>. QED  BY <2>1, <2>2, <2>3
<1>7. ASSUME NEW e \in Drivers
      PROVE  CursorInv(e)'
  <2>1. CASE e = d
    <3>1. seen[d] # {} => NoneLater(seen[d], t)
      <4>1. cursor[d] # None => cursor[d] \in Nat
        BY <1>2, TimeNumbers DEF InboxInv, InboxTyped
      <4>2. seen[d] \in SUBSET Event /\ t \in Nat
        BY <1>2, TimeNumbers DEF InboxInv, InboxTyped
      <4>. QED  BY <1>2, <1>5, <4>1, <4>2, NoneLaterYet DEF InboxInv, CursorInv
    <3>2. NoneLater(seen'[d], t)
      BY <1>4, <1>5, <3>1 DEF NoneLater
    <3>3. t # None
      BY <1>2, TimeNumbers
    <3>. QED  BY <1>1, <1>4, <1>5, <2>1, <3>2, <3>3 DEF CursorInv, NoneLater
  <2>2. CASE e # d
    BY <1>1, <1>4, <2>2 DEF InboxInv, CursorInv, NoneLater
  <2>. QED  BY <2>1, <2>2
<1>. QED  BY <1>6, <1>7

\* Every step keeps the invariant.
LEMMA InboxPreserved ==
  ASSUME TypeOK, TimelineInv, InboxInv, [NNext]_allVars
  PROVE  InboxInv'
<1>1. clock' >= clock /\ clock \in Nat /\ clock' \in Nat
  BY ClockGrows, NStepsAreSteps
<1>2. InboxTyped'
  BY InboxTypedPreserved DEF InboxInv
<1>3. ASSUME UNCHANGED <<cursor, seen>>, \A l \in Loads : page'[l] \in {page[l], NoPage}
      PROVE  InboxInv'
  BY <1>1, <1>2, <1>3, InboxWaits DEF InboxInv
<1>4. ASSUME NEW l \in Loads, PageFails(l)
      PROVE  InboxInv'
  BY <1>3, <1>4 DEF PageFails, InboxInv, InboxTyped
<1>5. ASSUME NEW l \in Loads,
             (\E d \in Drivers : List(l, d)) \/ MarkStart(l) \/ MarkLand(l)
      PROVE  InboxInv'
  BY <1>2, <1>5, ListInbox, MarkStartInbox, MarkLandInbox DEF InboxInv
<1>6. Crash /\ page' = [l \in Loads |-> NoPage] /\ UNCHANGED <<cursor, seen>> => InboxInv'
  BY <1>3
<1>7. UNCHANGED inboxVars => InboxInv'
  BY <1>3 DEF inboxVars
<1>. QED  BY <1>4, <1>5, <1>6, <1>7 DEF NNext, allVars

\* It holds in every reachable state.
LEMMA InboxInvariant == NSpec => []InboxInv
<1>1. NInit => InboxInv
  BY DEF NInit, Init, InboxInv, InboxTyped, PageState, PageInv, CursorInv, NoPage
<1>2. TypeOK /\ TimelineInv /\ InboxInv /\ [NNext]_allVars => InboxInv'
  BY InboxPreserved
<1>. QED  BY <1>1, <1>2, ServiceRuns, TypeCorrect, TimelineInvariant, PTL DEF NSpec

\* The inbox is well typed, the feed it derives from the tables included.
THEOREM InboxTypeCorrect == NSpec => []InboxTypeOK
<1>1. TypeOK /\ TimelineInv /\ InboxInv => InboxTypeOK
  <2>. SUFFICES ASSUME TypeOK, TimelineInv, InboxInv
                PROVE  InboxTypeOK
    OBVIOUS
  <2>1. \A d \in Drivers : Feed(d) \subseteq Event /\ seen[d] \subseteq Event
    BY FeedIsPast DEF InboxInv, InboxTyped
  <2>2. \A l \in Loads : page[l] # NoPage =>
           /\ page[l].driver \in Drivers /\ page[l].list \subseteq Event
           /\ page[l].pc \in {"listed", "marking"}
    BY DEF InboxInv, InboxTyped, PageState
  <2>. QED  BY <2>1, <2>2 DEF InboxTypeOK, InboxInv, InboxTyped
<1>. QED  BY <1>1, ServiceRuns, TypeCorrect, TimelineInvariant, InboxInvariant, PTL

\* What a driver was shown on a page that finished loading is never unread
\* again, though its mark carries the time at which it was requested and lands
\* after whatever committed meanwhile, in any number of tabs.
THEOREM ShownStaysRead == NSpec => []SeenStaysRead
<1>1. InboxInv => SeenStaysRead
  <2>. SUFFICES ASSUME InboxInv, NEW d \in Drivers, NEW e \in seen[d]
                PROVE  ~Unread(e, cursor[d])
    BY DEF SeenStaysRead
  <2>1. cursor[d] # None /\ e.at <= cursor[d] /\ cursor[d] \in Nat
    BY TimeNumbers DEF InboxInv, InboxTyped, CursorInv, NoneLater
  <2>2. e.at \in Nat
    <3>1. e \in Event
      BY DEF InboxInv, InboxTyped
    <3>. QED  BY <3>1, TimeNumbers DEF Event
  <2>. QED  BY <2>1, <2>2 DEF Unread
<1>. QED  BY <1>1, InboxInvariant, PTL

\* The badge falls only when a page finishes loading: a feed only grows, and
\* the cursor moves by nothing else.
THEOREM BadgeFallsByMark == NSpec => UnreadFallsOnlyByMark
<1>. DEFINE Marked(d) == \E l \in Loads : /\ page[l].pc = "marking" /\ page[l].driver = d
                                         /\ page'[l] = NoPage
<1>1. ASSUME TypeOK, HistoryInv, FeedsFinite', InboxInv,
             [NNext]_allVars, NEW d \in Drivers, UnreadCount(d)' < UnreadCount(d)
      PROVE  Marked(d)
  <2>1. CASE cursor'[d] # cursor[d]
    BY <1>1, <2>1, CursorMoves DEF InboxInv, InboxTyped
  <2>2. CASE cursor'[d] = cursor[d]
    <3>1. PICK before, after :
             /\ before = {e \in Feed(d) : Unread(e, cursor[d])}
             /\ after = {e \in Feed(d)' : Unread(e, cursor'[d])}
      OBVIOUS
    <3>2. before \subseteq after
      <4>1. Feed(d) \subseteq Feed(d)'
        BY <1>1, FeedSteps, NStepsAreSteps DEF FeedStep
      <4>. QED  BY <2>2, <3>1, <4>1
    <3>3. IsFiniteSet(Feed(d))' /\ after \subseteq Feed(d)'
      BY <1>1, <3>1 DEF FeedsFinite
    <3>4. IsFiniteSet(after) /\ IsFiniteSet(before)
      BY <3>2, <3>3, FS_Subset
    <3>5. Cardinality(before) <= Cardinality(after)
      BY <3>2, <3>4, FS_Subset
    <3>6. Cardinality(before) \in Nat /\ Cardinality(after) \in Nat
      BY <3>4, FS_CardinalityType
    <3>7. UnreadCount(d) = Cardinality(before) /\ UnreadCount(d)' = Cardinality(after)
      BY <3>1 DEF UnreadCount, Unread
    <3>. QED  BY <1>1, <3>5, <3>6, <3>7
  <2>. QED  BY <2>1, <2>2
<1>2. (\A d \in Drivers : UnreadCount(d)' < UnreadCount(d) => Marked(d)) =>
        \A d \in Drivers : UnreadCount(d)' < UnreadCount(d) =>
          \E l \in Loads : /\ page[l].pc = "marking" /\ page[l].driver = d
                           /\ page'[l] = NoPage
  OBVIOUS
<1>. HIDE DEF Marked
<1>3. /\ TypeOK /\ HistoryInv /\ FeedsFinite' /\ InboxInv
      /\ [NNext]_allVars
      => \A d \in Drivers : UnreadCount(d)' < UnreadCount(d) => Marked(d)
  BY <1>1
<1>. QED  BY <1>2, <1>3, ServiceRuns, TypeCorrect, HistoryInvariant, FeedsAreFinite,
             InboxInvariant, PTL DEF NSpec, UnreadFallsOnlyByMark
=============================================================================
