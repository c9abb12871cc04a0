\* One cache entry for two hosts: limiters are evicted while in use.
SPECIFICATION FairSpec
CONSTANTS
    Fetches = {f1, f2, f3}
    Hosts = {ha, hb}
    Limiters = {s1, s2, s3, s4}
    NoLimiter = NoLimiter
    GlobalLimit = 2
    HostLimit = 1
    CacheSize = 1
    MaxRedirects = 1
    RetryAttempts = 1
INVARIANTS
    OutboundSlotsConserved
    HostSlotsConserved
    CacheWellFormed
    NoCircularWait
PROPERTIES
    EveryFetchEnds
