CONSTANTS
    Methods = {"GET", "POST", "PUT", "HEAD"}
    MaxLines = 2
    Word = 64
    MaxAlloc = 24
    MaxChunk = 4
    InitialCapacity = 4
SPECIFICATION Spec
INVARIANTS
    BuffersHold
    OkMeansDone
    HeaderListFreed
