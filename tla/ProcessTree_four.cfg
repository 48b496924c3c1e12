SPECIFICATION Spec
CONSTANTS
    Pid = {1, 2, 3, 4}
    Absent = 9
    MaxSpecial = 1
INVARIANTS
    TreeDrawn
    SortedForest
