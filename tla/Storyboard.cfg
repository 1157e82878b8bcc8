SPECIFICATION FairSpec
CONSTANTS
    Cast = 2
    CharacterOf <- MCCharacterOf
    Source <- MCSource
    Drafts <- MCDrafts
    Calls = {c1, c2}
    NoImage = noImage
    Photo = photo
    OtherChapter = otherChapter
    Blank = blank
    MaxCrashes = 1
INVARIANTS
    TypeOK
    SucceededIsComplete
    OneFacePerCharacter
PROPERTIES
    PanelsAreKept
    StoryboardsEnd
CHECK_DEADLOCK FALSE
