SPECIFICATION Spec
CONSTANTS
    NULL = NULL
    Char <- const_Char
    Lower <- const_Lower
    Texts <- const_Texts
    Words <- const_Words
    Statuses = {200, 404}
INVARIANTS
    VerdictIsMeaning
    ReadsStayInside
PROPERTY
    EvalReturns
