SPECIFICATION Spec
CONSTANTS
    home = home
    guest = guest
    h = h
    k = k
    g = g
    l = l
    m = m
    s1 = s1
    s2 = s2
    q1 = q1
    q2 = q2
    Empty = Empty
    Absent = Absent
    Teams = {h, k, g}
    Clubs = {home, guest}
    Leagues = {l, m}
    Seasons = {s1}
    Squads = {q1, q2}
    ClubOf <- ClubOfTeam
    SeasonOf <- OneSeason
    OrderOf <- Order
    PageSize = 2
    PlacesOf <- Places
    SquadsOf <- MaySwap
    RegisteredClubs = {home}
    MaxChanges = 1
    MaxFailures = 1
    MaxRankings = 0
INVARIANT OmittedWithoutRoster
