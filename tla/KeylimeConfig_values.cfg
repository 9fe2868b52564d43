\* The texts settings are parsed from: identifiers, booleans, algorithms,
\* ports, the legacy key name and the privilege-drop target.
CONSTANTS
    Unset = Unset
    Absent = Absent
    None = None
    UuidIds <- MCUuidIds
    EnvDomain <- ValEnvDomain
    FileDomain <- ValFileDomain
    SectionSets <- ValSectionSets
    ConfSets <- ValConfSets
    Euids = {0, 1000}
    TpmFiles <- MCTpmFiles
SPECIFICATION Spec
INVARIANTS
    OptionalAbsenceTolerated
    UuidCanonical
    LegacyListenKey
