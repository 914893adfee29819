SPECIFICATION Spec
CONSTANTS
    m1 = m1
    m2 = m2
    NoLeague = NoLeague
    NoDate = NoDate
    NoTime = NoTime
    Matches <- MCMatches
    Leagues = {}
    Clubs = {}
    LeagueOf <- MCLeagueOf
    VenueOf <- MCVenueOf
    ClubsOf <- MCClubsOf
    Minute = 2
    PreMatch = 120
    ActiveUntil = 420
    RecentlyFinished = 45
    SettledAfter = 120
    PollPreMatch = 90
    PollApproaching = 20
    PollActive = 8
    PollRecent = 8
    PollBackoff = 20
    Instants <- MCInstants
    Kickoffs <- MCKickoffs
    MaxMoves = 1
INVARIANT TypeOK
PROPERTY PhaseNeverReopens
PROPERTY DueUntilSettled
PROPERTY EventuallySettled
CHECK_DEADLOCK FALSE
