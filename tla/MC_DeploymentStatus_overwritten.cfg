SPECIFICATION Spec
CONSTANTS
    app1 = app1
    a1 = a1
    d1 = d1
    d2 = d2
    NoRevision = NoRevision
    NoURL = NoURL
    BadURL = BadURL
    NoSync = NoSync
    NoApp = NoApp
    Commit = Commit
    NoDeployment = NoDeployment
    Revisions <- MCRevisions
    Deployments <- OneDeployment
    SourceCount = 1
    Apps <- MCApps
    Controllers <- SyncControllers
    SyncOperations <- OneSync
    FinalPhases <- Succeeds
    ReportedHealth <- Recovers
    AnnotatedURLs <- OneURL
    DeletionAllowed = FALSE
    MaxStamp = 2
    MaxFaults <- NoFaults
    Pulls <- NoPulls
    RelatedPulls <- NoRelatedPulls
    GitHubSources <- NoSources
    CommitCommentEnabled = FALSE
PROPERTY
    NoStatusAfterHealthy
