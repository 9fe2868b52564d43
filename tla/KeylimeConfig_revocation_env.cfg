\* REVOCATION_IP / REVOCATION_PORT set: the revocation listener still uses the file.
CONSTANTS
    Unset = Unset
    Absent = Absent
    None = None
    UuidIds <- MCUuidIds
    EnvDomain <- RevEnvDomain
    FileDomain <- OneGood
    SectionSets <- ValSectionSets
    ConfSets <- ValConfSets
    Euids = {1000}
    TpmFiles <- MCTpmFiles
SPECIFICATION Spec
INVARIANT
    RevocationEnvHonoured
