\* Three attempts of two ticks, backoffs of one or two, three ticks in all; one redirect; a
\* byte limit of one for a raw and of two for a parsed preview.
SPECIFICATION Spec
CONSTANTS
    name = name
    pub = pub
    internal = internal
    mapped = mapped
    Names = {name}
    Addresses = {pub, internal, mapped}
    IPv4Of <- MCIPv4Of
    Internal = {internal}
    RetryAttempts = 3
    RetryTotalTimeout = 3
    BackoffInitial = 1
    BackoffMax = 2
    Jitter = 1
    UrlTimeout = 2
    ParseTimeout = 1
    MaxRedirects = 1
    MaxPreviewBytes = 1
    MaxParseBytes = 2
    FirstUrls <- MCFirstUrls
    Locations <- MCLocations
    Statuses = {404, 429, 500, 503}
    RetryAfters <- MCRetryAfters
    MaxWait = 1
    MaxChunk = 2
INVARIANTS
    TypeOK
    ElapsedBounded
    BodyIsPrefix
    TextRefusedOnlyWhenCut
    RequestedTargetChecked
