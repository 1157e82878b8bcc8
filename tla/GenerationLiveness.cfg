SPECIFICATION FairSpec
CONSTANTS
    q1 = q1  q2 = q2
    r1 = r1  r2 = r2
    d1 = d1
    k1 = k1
    main = main  none = none
    Requests = {q1, q2}
    Keys = {k1}
    Branches = {main}
    Main = main
    None = none
    Dispatchers = {d1}
    Runs = {r1, r2}
    QuotaLimit = 1
    BatchLimit = 1
    Turns = 3
    MaxAttempts = 3
    MaxJobs = 2
    MaxCrashes = 0
    MaxReleases = 0
INVARIANTS
    BlockedAfterAllAttempts
    ReviewedBeforePublished
PROPERTIES
    LaunchedSettles
    RequestsAnswered
CHECK_DEADLOCK FALSE
