\* Every kind of question, answered on days around the turn of a
\* year and a leap day.
SPECIFICATION Spec
CONSTANTS
    None = None
    Customers = {"STAR", "GOLDEN STAR"}
    NameLength <- MCNameLength
    Catalogues <- MCCatalogues
    Queries <- MCQueries
    Days <- MCDays
INVARIANTS
    PeriodsTile
    ScopeIsHonest
    LongestNameAnswers
    
    ReportedCallIsReal
