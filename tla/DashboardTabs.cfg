\* Two tabs and an owner who does not wait.
SPECIFICATION Spec
CONSTANTS
    None = None
    Tabs = {tab1, tab2}
    Slots = {s1, s2}
    Ids = {c1, c2}
    Questions = {q1}
    Faults = {}
    Patient = FALSE
SYMMETRY DashboardSymmetry
INVARIANTS
    SavedWhereAsked
    AnswerFollowsQuestion
