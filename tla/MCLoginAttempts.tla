-------------------------- MODULE MCLoginAttempts --------------------------
(* Instances of LoginAttempts for TLC. *)
EXTENDS LoginAttempts, TLC

RequestSymmetry == Permutations(Requests)
=============================================================================
