\* A clock that tells transactions apart, and two connections.
SPECIFICATION Spec
CONSTANTS
    Attempts = {r1, r2, r3}
    ParsedAttempts = {}
    Admins = {}
    Urls = {u}
    NoRow = NoRow
    Nobody = Nobody
    PoolSize = 2
    MaxClock = 3
PROPERTIES
    LastSeenNeverGoesBack
