SPECIFICATION FairSpec
CONSTANTS
    Scenes <- MCScenes
    Library <- MCLibrary
    Archetypes <- MCArchetypes
    Starts = {s1, s2}
    PageStarts = {s1}
    Polls = {p1}
    VoiceCalls = {}
    None = none
    OldClip = oldClip
    Narrator = narrator
    MaxFaults = 1
INVARIANTS
    LinesAreTheScripts
    DiskFollowsMemory
    ShownInOrder
PROPERTIES
    ProgressEnds
CHECK_DEADLOCK FALSE
