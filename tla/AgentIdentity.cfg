\* Restarts, configuration changes and crashes around tpmdata.json.
CONSTANTS
    HashAlgs <- MCHashAlgs
    SignAlgs <- MCSignAlgs
    None = None
    Partial = Partial
    MaxEdits = 2
    MaxFaults = 2
    MaxGen = 6
SPECIFICATION FairSpec
INVARIANTS
    TypeOK
    AkMatchesConfig
    DiskHoldsRunningAk
    RegenerationsBounded
PROPERTIES
    Recovers
