\* More hosts than the cache holds: a limiter in use is evicted.
SPECIFICATION Spec
CONSTANTS
    Fetches = {f1, f2, f3}
    Hosts = {ha, hb}
    Limiters = {s1, s2, s3, s4}
    NoLimiter = NoLimiter
    GlobalLimit = 3
    HostLimit = 1
    CacheSize = 1
    MaxRedirects = 0
    RetryAttempts = 1
SYMMETRY Symmetry
INVARIANTS
    HostConcurrencyBound
