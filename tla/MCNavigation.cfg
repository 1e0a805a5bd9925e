CONSTANTS
    Users = {u1, u2}
    None = None
    MaxDepth = 5
    MaxRequests = 2
    MaxBlocks = 1
SPECIFICATION FairSpec
INVARIANTS TypeOK ListenerOnScreen MenuHasUser MenuUserIsCurrent StoredIsCurrent
PROPERTY SignedInLeads
