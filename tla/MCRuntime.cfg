CONSTANTS
    t1 = t1
    t2 = t2
    cSave = cSave
    cOdd = cOdd
    NumWorkers = 2
    Tasks = {t1, t2}
    WithHeaders = {t1}
    Commands = {cSave, cOdd}
    CommandType <- MCCommandType
    None = None
SPECIFICATION Spec
INVARIANTS
    QueuesOutliveTheirUsers
    RuntimeInv
    NothingAbandoned
    HeldOnce
    OnlyKnownLeaks
PROPERTIES
    DestroyReturns
    ImplementsPipeline
