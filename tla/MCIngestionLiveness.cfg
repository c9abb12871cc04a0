\* One attempt of each mode, any one command, one connection.
SPECIFICATION FairSpec
CONSTANTS
    Attempts = {p1, r1}
    ParsedAttempts = {p1}
    Admins = {d1}
    Urls = {u}
    NoRow = NoRow
    Nobody = Nobody
    PoolSize = 1
    MaxClock = 0
PROPERTIES
    EveryAttemptAnswered
    EveryCommandEnds
