---------------------------- MODULE ProofHistory ----------------------------
(***************************************************************************)
(* What the delivery-proof service promises about one proof, without its   *)
(* tables, requests, files or clock: an append-only history of submitted   *)
(* evidence, each piece decided at most once and only while it is the      *)
(* newest, and a review queue that holds exactly the undecided proofs.     *)
(* DeliveryProofs implements this specification.                           *)
(***************************************************************************)
EXTENDS Naturals, Sequences

CONSTANTS Proofs,       \* proof identities
          Evidence      \* what can be submitted: an image, or none

VARIABLES history,      \* history[p]: the submissions of p, oldest first
          queue         \* the proofs waiting for a review

historyVars == <<history, queue>>

Verdict == {"VERIFIED", "REJECTED"}

Entry == [image : Evidence, status : {"PENDING"} \cup Verdict]

Newest(p) == history[p][Len(history[p])]

HInit == /\ history = [p \in Proofs |-> <<>>]
         /\ queue = {}

\* The first submission puts the proof on the queue.
HSubmit(p, e) ==
    /\ history[p] = <<>>
    /\ history' = [history EXCEPT ![p] = <<[image |-> e, status |-> "PENDING"]>>]
    /\ queue' = queue \cup {p}

\* A review decides the newest submission and nothing else.
HDecide(p, v) ==
    /\ p \in queue
    /\ history' = [history EXCEPT ![p] = [@ EXCEPT ![Len(history[p])].status = v]]
    /\ queue' = queue \ {p}

\* Only a rejected proof takes new evidence; the old entry stays as it is.
HResubmit(p, e) ==
    /\ history[p] # <<>>
    /\ Newest(p).status = "REJECTED"
    /\ history' = [history EXCEPT ![p] = Append(@, [image |-> e, status |-> "PENDING"])]
    /\ queue' = queue \cup {p}

HNext == \E p \in Proofs :
            \/ \E e \in Evidence : HSubmit(p, e) \/ HResubmit(p, e)
            \/ \E v \in Verdict : HDecide(p, v)

HSpec == HInit /\ [][HNext]_historyVars
=============================================================================
