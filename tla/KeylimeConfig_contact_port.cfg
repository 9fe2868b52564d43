\* agent_contact_port set to texts that parse as u32 but are not ports.
CONSTANTS
    Unset = Unset
    Absent = Absent
    None = None
    UuidIds <- MCUuidIds
    EnvDomain <- NoEnv
    FileDomain <- PortFileDomain
    SectionSets <- ValSectionSets
    ConfSets <- ValConfSets
    Euids = {1000}
    TpmFiles <- MCTpmFiles
SPECIFICATION Spec
INVARIANT
    ContactPortIsPort
