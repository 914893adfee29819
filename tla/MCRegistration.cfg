SPECIFICATION Spec
CONSTANTS
    c1 = c1
    c2 = c2
    name = name
    k1 = k1
    k2 = k2
    x = x
    y = y
    o1 = o1
    o2 = o2
    Absent = Absent
    Clubs = {c1, c2}
    Names = {name}
    NameOf <- OneName
    Consumers = {k1, k2}
    DefaultIdOf <- DefaultIds
    Accounts = {x, y}
    Requests <- Commands
    Operators = {o1, o2}
    KnownClubs = {c1}
    CacheTime = 2
    MaxTime = 2
    MaxRegistrations = 3
    MaxFailures = 1
INVARIANT TypeOK
INVARIANT OnlyOwnEvents
INVARIANT CompletedServed
INVARIANT KnownToRuns
SYMMETRY OperatorSymmetry
CHECK_DEADLOCK FALSE
