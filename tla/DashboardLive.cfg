\* One tab, one handler at a time; the server and the agent may fail at any call.
SPECIFICATION FairSpec
CONSTANTS
    None = None
    Tabs = {tab1}
    Slots = {s1}
    Ids = {c1, c2, c3}
    Questions = {q1}
    Faults = {"chat", "server"}
    Patient = FALSE
PROPERTIES
    ControlsReturn
