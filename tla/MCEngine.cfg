CONSTANTS
    NumCases = 3
    Keys = {1, 2}
    KeyOf <- SharedKey
    WithBody = {1, 2}
    Asserted = {1}
    Polls = 2
    MaxRuns = 2
SPECIFICATION Spec
INVARIANTS
    ExitCodeTells
    OneRowPerSavedTask
    AnswerIsOwnUnlessShared
PROPERTY
    RunEnds
