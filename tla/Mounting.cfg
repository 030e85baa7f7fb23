SPECIFICATION Spec
CONSTANTS
    Lists <- MCLists
    Platforms <- MCPlatforms
    Backends <- MCBackends
INVARIANT OptionsArrive
PROPERTY AutoUnmountCleans
CHECK_DEADLOCK FALSE
