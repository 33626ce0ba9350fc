\* Every response, cut at every byte.
CONSTANTS
    Docs <- Responses
    CtxSize = 1
    StateSize = 6
    Slots = {4, 6}
    WordDigits = 2
    LongDigits = 4
    BufRange = 1048576
SPECIFICATION Spec
INVARIANTS
    FieldsKept
    WholeDocsLoad
    KeysIntact
PROPERTY CallReturns
