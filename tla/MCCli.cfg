SPECIFICATION Spec
CONSTANTS
    CommandLines <- const_CommandLines
    Words <- const_Words
    Atoi <- const_Atoi
    Bytes <- const_Bytes
    HexDigits <- const_HexDigits
    MaxAssertion = 2
INVARIANTS
    SuccessMeansChecked
    EachBlockFreedOnce
