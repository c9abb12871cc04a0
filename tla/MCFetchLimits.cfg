\* Two hosts and room in the cache for both: nothing is evicted.
SPECIFICATION Spec
CONSTANTS
    Fetches = {f1, f2, f3}
    Hosts = {ha, hb}
    Limiters = {s1, s2, s3, s4, s5}
    NoLimiter = NoLimiter
    GlobalLimit = 2
    HostLimit = 1
    CacheSize = 2
    MaxRedirects = 1
    RetryAttempts = 2
SYMMETRY Symmetry
INVARIANTS
    TypeOK
    HostConcurrencyBound
