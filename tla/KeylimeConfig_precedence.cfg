\* Environment against file: which value each setting takes, and when the
\* agent cannot start.
CONSTANTS
    Unset = Unset
    Absent = Absent
    None = None
    UuidIds <- MCUuidIds
    EnvDomain <- PrecEnvDomain
    FileDomain <- PrecFileDomain
    SectionSets <- PrecSectionSets
    ConfSets <- PrecConfSets
    Euids = {1000}
    TpmFiles <- MCTpmFiles
SPECIFICATION Spec
INVARIANTS
    TypeOK
    EnvOutranksFile
    WorkDirPaths
