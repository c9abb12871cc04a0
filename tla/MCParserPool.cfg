\* Three calls, two threads, two targets each: a redirect or a retry.
SPECIFICATION FairSpec
CONSTANTS
    Calls = {c1, c2, c3}
    Threads = {t1, t2}
    MaxTargets = 2
    Idle = Idle
INVARIANTS
    TypeOK
    JobsMatchCalls
PROPERTIES
    OutcomeIsFinal
    EveryCallEnds
