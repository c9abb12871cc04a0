\* Two requests at a time, told in half seconds: single URLs in a window of one second,
\* one unit, and batches of one or two in a window of two, two units.
SPECIFICATION FairSpec
CONSTANTS
    Deployments <- MCDeployments
    Requests = {q1, q2}
    TicksPerSecond = 2
    UrlLimit = 1
    UrlWindow = 1
    BatchLimit = 2
    BatchWindow = 2
    UrlCost = 1
    UrlParseCost = 1
    BatchUrlCost = 1
    BatchUrlParseCost = 1
    MaxBatchUrls = 2
INVARIANTS
    TypeOK
    WindowBound
    RetryAfterEnough
PROPERTIES
    ReadyMeansServed
    KeptOutOnlyByOthers
