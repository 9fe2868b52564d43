\* The file edited between the lookups of a build: the snapshot is no longer
\* one the atomic build could give.
CONSTANTS
    Unset = Unset
    Absent = Absent
    None = None
    UuidIds <- MCUuidIds
    EnvDomain <- StepEnvDomain
    FileDomain <- StepFileDomain
    SectionSets <- WholeSectionSets
    ConfSets <- WholeConfSets
    Euids = {0, 1000}
    TpmFiles <- MCTpmFiles
    EditsWhileBuilding = TRUE
SPECIFICATION Spec
PROPERTIES
    BuildIsAtomic
