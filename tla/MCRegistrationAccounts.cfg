SPECIFICATION Spec
CONSTANTS
    c1 = c1
    c2 = c2
    name = name
    k1 = k1
    k2 = k2
    x = x
    y = y
    o1 = o1
    o2 = o2
    Absent = Absent
    Clubs = {c1, c2}
    Names = {name}
    NameOf <- OneName
    Consumers = {k1, k2}
    DefaultIdOf <- DefaultIds
    Accounts = {x, y}
    Requests <- TwoAccounts
    Operators = {o1}
    KnownClubs = {c1}
    CacheTime = 2
    MaxTime = 0
    MaxRegistrations = 2
    MaxFailures = 0
INVARIANT EachAccountServed
CHECK_DEADLOCK FALSE
