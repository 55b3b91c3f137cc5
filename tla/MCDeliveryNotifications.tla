---------------------- MODULE MCDeliveryNotifications ----------------------
(* Instances of DeliveryNotifications for TLC. *)
EXTENDS DeliveryNotifications, TLC

InboxSymmetry == Permutations(Images) \cup Permutations(Requests)
                   \cup Permutations(Drivers) \cup Permutations(Loads)
=============================================================================
