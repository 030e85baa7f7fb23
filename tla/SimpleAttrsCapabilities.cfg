SPECIFICATION Spec
CONSTANTS
    Callers <- MCCallers
    Modes <- MCModes
    Keys = {"security.capability"}
    MaxSize = 1
    MaxHandles = 1
    MaxClock = 0
    SpecificTimes = {1}
    Day = 1
PROPERTY CapabilitiesGo
