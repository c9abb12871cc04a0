\* The errors of the database's layer, mapped and not.
SPECIFICATION Spec
CONSTANTS
    Attempts = {r1}
    ParsedAttempts = {}
    Admins = {}
    Urls = {u}
    NoRow = NoRow
    Nobody = Nobody
    PoolSize = 1
    MaxClock = 0
INVARIANTS
    DatabaseFailureIs503
