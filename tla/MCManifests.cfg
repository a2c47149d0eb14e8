SPECIFICATION Spec
CONSTANTS
    LabelKeys <- MCLabelKeys
    AnnotationKeys <- MCAnnotationKeys
    BaseMattermost <- MCBaseMattermost
    BaseInstallation <- MCBaseInstallation
    MattermostChoices <- MCMattermostChoices
    InstallationChoices <- MCInstallationChoices
    UserObjects <- MCUserObjects
    MaxEdits = 2
INVARIANTS
    TypeOK
    SpecSettles
    EditSticks
    PodsSelected
    EnvWellFormed
    HostsReachPods
    HealthCheckFindsEndpoint
    PatchReported
    SettingsKept
    PodsKept
    StoresKept
    AddressKept
PROPERTIES
    CredentialsKept
    BlueGreenLeavesNothing
CHECK_DEADLOCK FALSE
