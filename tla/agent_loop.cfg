SPECIFICATION Spec
CONSTANTS
    MaxTurns = 3
    OutputBudget = 1
    Spends = {0}
    MaxUses = 2
    MaxChars = 1
    KeepRecent = 1
    RepeatNotice = 2
    RepeatStop = 3
    Lines = 2
    Files <- MCFiles
INVARIANTS EveryUseIsAnswered RepeatsAreCaught 
PROPERTIES RunEndsUnlessCallHangs
CHECK_DEADLOCK FALSE
