SPECIFICATION Spec
CONSTANTS
    c = c
    d = d
    x = x
    y = y
    n1 = n1
    n2 = n2
    u = u
    Absent = Absent
    Clubs = {c, d}
    Associations = {x}
    ProfilesOf <- Renames
    Names = {n1, n2}
    Urls = {u}
    PageOf <- TwoPages
    KnownClubs = {c}
    RegisteredClubs = {c}
    Applicants = {d}
    Slots = {1, 2}
    Prod = TRUE
    ManualSync = FALSE
    MaxChanges = 1
    MaxFailures = 2
INVARIANTS TypeOK LogoObjectExists AnnouncedUnlessFailed
PROPERTY LogoSurvivesSync
