SPECIFICATION FairSpec
CONSTANTS
    home = home
    guest = guest
    other = other
    league = league
    a = a
    b = b
    r1 = r1
    r2 = r2
    NoLeague = NoLeague
    NoDate = NoDate
    NoTime = NoTime
    Absent = Absent
    Never = Never
    Leagues = {league}
    Clubs = {home, guest, other}
    LeagueOf <- LeagueOfAll
    VenueOf <- OneVenue
    ClubsOf <- ClubsOfAll
    Minute = 1
    PreMatch = 120
    ActiveUntil = 420
    RecentlyFinished = 45
    SettledAfter = 120
    PollPreMatch = 90
    PollApproaching = 20
    PollActive = 8
    PollRecent = 8
    PollBackoff = 20
    RegisteredClubs = {home}
    StoredClubs = {home, guest}
    SeasonStored = TRUE
    Matches = {a, b}
    Runs = {r1}
    Fixtures <- TwoFixtures
    PageOf <- PageOfMatch
    Instants <- Season
    MaxMoves = 1
    MaxFailures = 1
INVARIANT TypeOK
INVARIANT RankingCoversBlocks
INVARIANT OnlyRegisteredBlocks
INVARIANT ScheduleCoversBlocks
INVARIANT SnapshotCatchesUp
PROPERTY ResultStays
PROPERTY EventuallyConverged
