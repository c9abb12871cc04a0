\* Two batches of up to two URLs each, one connection.
SPECIFICATION FairSpec
CONSTANTS
    Attempts = {r1, r2}
    ParsedAttempts = {}
    Admins = {}
    Urls = {u}
    NoRow = NoRow
    Nobody = Nobody
    PoolSize = 1
    MaxClock = 0
    Batches = {b1, b2}
    MaxBatchUrls = 2
    MaxAllowedConcurrency = 2
INVARIANTS
    BatchTypeOK
    BatchConcurrencyBound
    BatchResultsTruthful
PROPERTIES
    EveryBatchAnswered
    SiblingsFinish
