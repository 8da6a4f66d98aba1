CONSTANTS
    Keys = {a, b, c, d}
    Blank = a
    MaxLen = 3
    MaxCells = 4
SYMMETRY KeySymmetry
SPECIFICATION Spec
INVARIANTS
    LcsIsLongest
    OneSidedIsExact
    SpliceFollowsPlan
    BothVersionsSurvive
    MergeIsSetMerge
