\* The start sequence against the abstract identity it promises.
CONSTANTS
    HashAlgs <- MCHashAlgs
    SignAlgs <- MCSignAlgs
    None = None
    Partial = Partial
    MaxEdits = 2
    MaxFaults = 2
    MaxGen = 6
SPECIFICATION Spec
PROPERTIES
    IdentityRefines
