\* An attempt of each mode on one URL beside any two commands, two connections.
SPECIFICATION Spec
CONSTANTS
    Attempts = {p1, r1}
    ParsedAttempts = {p1}
    Admins = {d1, d2}
    Urls = {u}
    NoRow = NoRow
    Nobody = Nobody
    PoolSize = 2
    MaxClock = 0
SYMMETRY Symmetry
INVARIANTS
    TypeOK
    ReferentialIntegrity
    OneSourcePerUrl
    DocumentsMatchRecords
    RepliesTruthful
    NoCircularWait
PROPERTIES
    PurgeCountsExact
    ImplementsAuditLog
