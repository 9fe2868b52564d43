\* The file edited between the lookups of a build: the paths the identity
\* record is loaded from and stored to still agree.
CONSTANTS
    Unset = Unset
    Absent = Absent
    None = None
    UuidIds <- MCUuidIds
    EnvDomain <- StepEnvDomain
    FileDomain <- StepFileDomain
    SectionSets <- StepSectionSets
    ConfSets <- StepConfSets
    Euids = {0, 1000}
    TpmFiles <- MCTpmFiles
    EditsWhileBuilding = TRUE
SPECIFICATION Spec
INVARIANTS
    IdentityPathsAgree
