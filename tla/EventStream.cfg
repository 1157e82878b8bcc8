SPECIFICATION FairSpec
CONSTANTS
    job = job
    Jobs = {job}
    Job = job
    MaxPolls = 3
    HeartbeatEvery = 2
    OperatorActs = TRUE
    MaxEvents = 4
    MaxFaults = 2
INVARIANTS
    TypeOK
    InOrderOnce
PROPERTIES
    EventsArrive
    EndIsReported
CHECK_DEADLOCK FALSE
