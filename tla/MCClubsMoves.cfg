SPECIFICATION FairSpec
CONSTANTS
    c = c
    d = d
    x = x
    y = y
    n1 = n1
    n2 = n2
    u = u
    Absent = Absent
    Clubs = {c}
    Associations = {x, y}
    ProfilesOf <- Moves
    Names = {n1, n2}
    Urls = {u}
    PageOf <- TwoPages
    KnownClubs = {}
    RegisteredClubs = {}
    Applicants = {}
    Slots = {1, 2}
    Prod = TRUE
    ManualSync = TRUE
    MaxChanges = 1
    MaxFailures = 1
PROPERTY EventuallyIndexed
