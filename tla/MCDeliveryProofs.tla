-------------------------- MODULE MCDeliveryProofs --------------------------
(* Instances of DeliveryProofs for TLC. *)
EXTENDS DeliveryProofs, TLC

\* The members of these sets are interchangeable: no action or invariant
\* names one.  Not used in a run with a liveness property.
Symmetry == Permutations(Images) \cup Permutations(Requests)
              \cup Permutations(Owners) \cup Permutations(Proofs)
=============================================================================
