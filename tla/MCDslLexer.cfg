CONSTANTS
    Alphabet = {"space", "cr", "newline", "quote", "digit", "letter", "Body", "hash", "odd"}
    MaxLength = 5
    Room = 2
SPECIFICATION Spec
INVARIANTS
    TokensAreTheInput
    StringsHaveTheirToken
PROPERTY
    LexerEnds
