CONSTANTS
    Accounts = {a1, a2}
    None = None
    FirstLast = 0
    MaxDeliveries = 2
SPECIFICATION HistorySpec
SYMMETRY Symmetry
INVARIANTS TypeOK UniqueUnlessOvertaken ToldIsTheirsAlone
