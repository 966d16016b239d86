\* An owner and an administrator on file; one invitation can make two more accounts.
SPECIFICATION Spec
CONSTANTS
    e1 = e1
    e2 = e2
    Emails = {e1, e2, e3}
    Roster <- MCRoster
    Requests = {r1, r2}
    Visitors = {v1, v2}
    MaxUsers = 4
    MaxInvites = 1
SYMMETRY Symmetry
CHECK_DEADLOCK FALSE
INVARIANTS
    AdminsFromOwners
    TwiceOnlyIfLeftOpen
PROPERTY
    OwnersFixed
