SPECIFICATION Spec
CONSTANTS
    job = job
    Jobs = {job}
    Job = job
    MaxPolls = 3
    HeartbeatEvery = 2
    OperatorActs = FALSE
    MaxEvents = 4
    MaxFaults = 0
INVARIANT
    NoGap
CHECK_DEADLOCK FALSE
