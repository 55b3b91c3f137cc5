---------------------------- MODULE MCDashboard ----------------------------
(* Instances of Dashboard for TLC. *)
EXTENDS Dashboard, TLC

DashboardSymmetry == Permutations(Ids) \cup Permutations(Questions)
                       \cup Permutations(Slots) \cup Permutations(Tabs)
=============================================================================
