SPECIFICATION Spec
CONSTANTS
    Callers <- MCCallers
    Modes <- MCModes
    Keys = {"security.capability"}
    MaxSize = 1
    MaxHandles = 1
    MaxClock = 2
    SpecificTimes = {3}
    Day = 1
CONSTRAINT TimesOrPrivileges
INVARIANTS SizeIsLength PrivilegesEarned AtimeTells
 
