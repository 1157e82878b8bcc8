SPECIFICATION FairSpec
CONSTANTS
    MaxRecordings = 3
    yes = yes
    speech = speech
    Words = {yes, no, curse, speech}
    Refused = {curse, speech}
    Beginning <- MCBeginning
    Silence = silence
    TooLong = tooLong
    Empty = empty
    MaxFaults = 2
INVARIANTS
    TypedIsSaid
    RecordingIsShown
PROPERTIES
    StoppingEnds
CHECK_DEADLOCK FALSE
