\* One tab, whose owner deletes again before the first deletion has come back.
SPECIFICATION Spec
CONSTANTS
    None = None
    Tabs = {tab1}
    Slots = {s1, s2}
    Ids = {c1, c2, c3, c4}
    Questions = {}
    Faults = {}
    Patient = FALSE
INVARIANTS
    OneToSelect
