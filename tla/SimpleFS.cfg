SYMMETRY Symmetry
SPECIFICATION Spec
CONSTANTS
    Names <- MCNames
    a = a
    b = b
    MaxIno = 4
    KillIno = 3
    MaxHandles = 2
    MaxMounts = 2
    U32Max = 8
    Absent = Absent
    Torn = Torn
    Data = Data
INVARIANTS LinkCountsExact StorageExact TreeAgrees OpenFilesPinned NextInodeUnused NoPanic
PROPERTY RefusedChangesNoName
CHECK_DEADLOCK FALSE
