\* Every report, made while the books change under it.
SPECIFICATION Spec
CONSTANTS
    None = None
    Customers <- MCCustomers
    Products <- MCProducts
    Requests <- MCRequests
    Ledgers <- MCLedgers
    Start <- MCStart
    PAGE_SIZE = 2
    TABLE_MAX_ROWS = 2
    NewBill = 60
    NewTerm = 14
    NewSale = 20
    MaxChanges = 1
    MaxFaults = 1
INVARIANTS
    FiguresAreOdoos
    StatementAddsUp
    RankingsAreSound
    CriticalIsNotHidden
PROPERTIES
    ReadIsHonest
