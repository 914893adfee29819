SPECIFICATION Spec
CONSTANTS
    settled = settled
    fresh = fresh
    Absent = Absent
    Unsteady = {settled}
    Clubs = {settled, fresh}
    Settled = {settled}
    Events <- AllEvents
    ChunkSize = 3
    CacheTime = 1
    Cooldown = 1
    RetryTime = 1
    Retries = 2
    MaxSeason = 2
INVARIANT DoneForCurrentSeason
