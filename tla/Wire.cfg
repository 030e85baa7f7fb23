SPECIFICATION Spec
CONSTANTS
    I64Max = 1
    Second = 2
    DirentSize = 3
    DirentPlusSize = 4
    Align = 2
    MaxListing = 3
    Names <- MCNames
    Payloads <- MCPayloads
    Sizes <- MCSizes
    Invalid <- MCInvalid
INVARIANTS
    CalledAsMeant
    TimesSurvive
    ListedOnce
CHECK_DEADLOCK FALSE
