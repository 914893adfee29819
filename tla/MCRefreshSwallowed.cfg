SPECIFICATION Spec
CONSTANTS
    home = home
    guest = guest
    other = other
    league = league
    a = a
    b = b
    r1 = r1
    r2 = r2
    NoLeague = NoLeague
    NoDate = NoDate
    NoTime = NoTime
    Absent = Absent
    Never = Never
    Leagues = {league}
    Clubs = {home, guest, other}
    LeagueOf <- LeagueOfAll
    VenueOf <- OneVenue
    ClubsOf <- ClubsOfAll
    Minute = 1
    PreMatch = 120
    ActiveUntil = 420
    RecentlyFinished = 45
    SettledAfter = 120
    PollPreMatch = 90
    PollApproaching = 20
    PollActive = 8
    PollRecent = 8
    PollBackoff = 20
    RegisteredClubs = {home}
    StoredClubs = {home, guest}
    SeasonStored = TRUE
    Matches = {a}
    Runs = {r1}
    Fixtures <- OneFixture
    PageOf <- OnePage
    Instants <- Evening
    MaxMoves = 0
    MaxFailures = 0
INVARIANT StoredResultsAreSent
CHECK_DEADLOCK FALSE
