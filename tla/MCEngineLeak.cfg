CONSTANTS
    NumCases = 2
    Keys = {1, 2}
    KeyOf <- OwnKeys
    WithBody = {1, 2}
    Asserted = {1}
    Polls = 1
    MaxRuns = 2
SPECIFICATION SafeSpec
INVARIANT
    CallerFreesWhatItOwns
