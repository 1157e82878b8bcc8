SPECIFICATION Spec
CONSTANTS
    Calls = {r1, r2, r3, r4}
    Names = {sita, ram, maya}
    Founders = {sita, ram}
    Options = {o1, o2, o3}
    Keys = {key}
    Chapters = {c1}
    Parents = {main, child}
    None = none
SYMMETRY MCSymmetry
INVARIANTS
    KeyedOnce
    NumberedApart
PROPERTIES
    CastKept
    EndingKept
CHECK_DEADLOCK FALSE
