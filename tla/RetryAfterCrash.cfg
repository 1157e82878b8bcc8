SPECIFICATION Spec
CONSTANTS
    q1 = q1  q2 = q2
    r1 = r1  r2 = r2
    d1 = d1
    k1 = k1
    main = main  none = none
    Requests = {q1, q2}
    Keys = {k1}
    Branches = {main}
    Main = main
    None = none
    Dispatchers = {d1}
    Runs = {r1, r2}
    QuotaLimit = 1
    BatchLimit = 1
    Turns = 0
    MaxAttempts = 1
    MaxJobs = 2
    MaxCrashes = 1
    MaxReleases = 1
SYMMETRY Symmetry
INVARIANT
    RetryRepeatsNothing
CHECK_DEADLOCK FALSE
