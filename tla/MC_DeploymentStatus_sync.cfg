SPECIFICATION Spec
CONSTANTS
    app1 = app1
    a1 = a1
    d1 = d1
    d2 = d2
    NoRevision = NoRevision
    NoURL = NoURL
    BadURL = BadURL
    NoSync = NoSync
    NoApp = NoApp
    Commit = Commit
    NoDeployment = NoDeployment
    Revisions <- MCRevisions
    Deployments <- OneDeployment
    SourceCount = 1
    Apps <- MCApps
    Controllers <- SyncControllers
    SyncOperations <- OneSync
    FinalPhases <- SucceedsOrFails
    ReportedHealth <- FlipsToDegraded
    AnnotatedURLs <- OneURL
    DeletionAllowed = FALSE
    MaxStamp = 2
    MaxFaults <- OneRefused
    Pulls <- NoPulls
    RelatedPulls <- NoRelatedPulls
    GitHubSources <- NoSources
    CommitCommentEnabled = FALSE
INVARIANTS
    TypeOK
    StatusesTruthful
PROPERTIES
    SuccessIsSealed
    KeepsBoard
    SuccessIsOwed
