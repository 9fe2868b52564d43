CONSTANTS
    AES_128_KEY_LEN = 1
    AES_256_KEY_LEN = 2
    ByteBits = 2
    None = None
    Inputs <- MCInputs
SPECIFICATION Spec
INVARIANTS
    TypeOK
    CombinedLengthPreserved
