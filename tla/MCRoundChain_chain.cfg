\* Three blocks of ciphertext, the third on the next page (pages of 32 bytes).
CONSTANTS
    NBlocks = 3
    PageBits = 5
    WordBits = 30
    FirstOffset = 8
SPECIFICATION Spec
INVARIANTS
    ColumnsWhole
    RoundKeys
    RoundInv
PROPERTY CbcSpec
