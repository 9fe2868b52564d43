\* An elevated agent whose run_as is empty: the warning says it has no drop target.
CONSTANTS
    Unset = Unset
    Absent = Absent
    None = None
    UuidIds <- MCUuidIds
    EnvDomain <- NoEnv
    FileDomain <- RunAsFileDomain
    SectionSets <- ValSectionSets
    ConfSets <- ValConfSets
    Euids = {0, 1000}
    TpmFiles <- MCTpmFiles
SPECIFICATION Spec
INVARIANT
    RunAsEmptyNoDrop
