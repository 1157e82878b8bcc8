SPECIFICATION Spec
CONSTANTS
    Scenes <- MCDialogue
    Library <- MCLibrary
    Archetypes <- MCArchetypes
    Starts = {s1}
    PageStarts = {}
    Polls = {}
    VoiceCalls = {v1, v2}
    None = none
    OldClip = oldClip
    Narrator = narrator
    MaxFaults = 1
INVARIANTS
    LinesAreTheScripts
PROPERTIES
    VoicesAreKept
CHECK_DEADLOCK FALSE
