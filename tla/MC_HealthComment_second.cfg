SPECIFICATION FairSpec
CONSTANTS
    app1 = app1
    a1 = a1
    b1 = b1
    p1 = p1
    p2 = p2
    NoRevision = NoRevision
    NoURL = NoURL
    BadURL = BadURL
    NoSync = NoSync
    NoApp = NoApp
    Commit = Commit
    Absent = Absent
    Revisions <- MCRevisions
    Deployments <- NoDeployments
    SourceCount = 2
    Apps <- MCApps
    Controllers <- MCControllers
    SyncOperations <- SecondSourceSyncs
    FinalPhases <- Succeeds
    ReportedHealth <- Recovers
    AnnotatedURLs <- NoAnnotation
    DeletionAllowed = FALSE
    MaxStamp = 4
    MaxFaults <- NoFaults
    Pulls <- MCPulls
    RelatedPulls <- OnePull
    GitHubSources <- BothSources
    CommitCommentEnabled = FALSE
PROPERTY
    HealthyIsCommented
