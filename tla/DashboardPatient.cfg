\* One tab, whose owner waits for deletions: what it lists and shows is what is
\* saved.
SPECIFICATION Spec
CONSTANTS
    None = None
    Tabs = {tab1}
    Slots = {s1, s2}
    Ids = {c1, c2, c3, c4}
    Questions = {q1, q2}
    Faults = {"chat"}
    Patient = TRUE
SYMMETRY DashboardSymmetry
INVARIANTS
    ListMirrorsServer
    ShownIsSaved
