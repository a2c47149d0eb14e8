SPECIFICATION Spec
CONSTANTS
    LabelKeys <- MCLabelKeys
    AnnotationKeys <- MCAnnotationKeys
    BaseMattermost <- MCBaseMattermost
    BaseInstallation <- MCBaseInstallation
    MattermostChoices <- MCMattermostChoices
    InstallationChoices <- MCInstallationChoices
    UserObjects <- MCUserObjects
    MaxEdits = 0
INVARIANT
    DatabaseHasItsSecret
CHECK_DEADLOCK FALSE
