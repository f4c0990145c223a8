SPECIFICATION Spec
CONSTANTS
    Platforms = {"linux", "darwin"}
    Destroyers = {d1, d2}
    MaxCalls = 3
CHECK_DEADLOCK FALSE
INVARIANTS HandleIsLive NothingLeftBehind
PROPERTIES ForeignUntouched CreateEndsUnlessCut
