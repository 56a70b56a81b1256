CONSTANTS
    q1 = q1
    q2 = q2
    a = a
    b = b
    Processes = {q1, q2}
    Threads <- OneProgramAndARival
    Calls <- AsInTheProgram
    Keys = {a, b}
    Gone = Gone
    None = None
    MaxRows = 2
    MaxAnswers = 1
    MaxTold = 1
    MaxSpoiled = 1
SPECIFICATION Spec
INVARIANTS
    AcknowledgedIsDurable
    ClaimsAreAccountedFor
    HandedOutOnce
    TransactionHasItsClaim
PROPERTIES
    ResponsesFindTheirRequest
    ImplementsWorkList
SYMMETRY KeysAlike
