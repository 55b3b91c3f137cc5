-------------------------- MODULE MCChatRateLimit --------------------------
(* Instances of ChatRateLimit for TLC. *)
EXTENDS ChatRateLimit, TLC

ThreadSymmetry == Permutations(Threads)
=============================================================================
