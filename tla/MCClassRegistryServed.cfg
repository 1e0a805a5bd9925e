CONSTANTS
    Accounts = {a1, a2}
    None = None
    FirstLast = 0
    MaxDeliveries = 1
SPECIFICATION FairSpec
PROPERTY EveryUserGetsClassID
