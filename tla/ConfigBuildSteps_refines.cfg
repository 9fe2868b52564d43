\* Lookups made one at a time, with the file left alone during a build:
\* the result is the atomic build's.
CONSTANTS
    Unset = Unset
    Absent = Absent
    None = None
    UuidIds <- MCUuidIds
    EnvDomain <- StepEnvDomain
    FileDomain <- StepFileDomain
    SectionSets <- StepSectionSets
    ConfSets <- StepConfSets
    Euids = {0, 1000}
    TpmFiles <- MCTpmFiles
    EditsWhileBuilding = FALSE
SPECIFICATION Spec
INVARIANTS
    TypeOK
PROPERTIES
    BuildIsAtomic
