\* A defaulted boolean with a non-boolean value: the spec says the build aborts.
CONSTANTS
    Unset = Unset
    Absent = Absent
    None = None
    UuidIds <- MCUuidIds
    EnvDomain <- NoEnv
    FileDomain <- BoolFileDomain
    SectionSets <- ValSectionSets
    ConfSets <- ValConfSets
    Euids = {1000}
    TpmFiles <- MCTpmFiles
SPECIFICATION Spec
INVARIANT
    MalformedBoolRejected
