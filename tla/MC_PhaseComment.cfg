SPECIFICATION FairSpec
CONSTANTS
    app1 = app1
    a1 = a1
    b1 = b1
    p1 = p1
    p2 = p2
    NoRevision = NoRevision
    NoURL = NoURL
    BadURL = BadURL
    NoSync = NoSync
    NoApp = NoApp
    Commit = Commit
    Revisions <- MCRevisions
    Deployments <- NoDeployments
    SourceCount = 2
    Apps <- OneApp
    Controllers <- MCControllers
    SyncOperations <- SomeSyncs
    FinalPhases <- AnyEnd
    ReportedHealth <- SomeHealth
    AnnotatedURLs <- NoAnnotation
    DeletionAllowed = TRUE
    MaxStamp = 3
    MaxFaults <- CrashRefusedOrGap
    Pulls <- MCPulls
    RelatedPulls <- SharedPull
    GitHubSources <- BothSources
    CommitCommentEnabled = TRUE
PROPERTIES
    SyncedIsCommented
INVARIANTS
    TypeOK
    CommentsTruthful
    OnePassPerChange
    CommentedAtRest
CHECK_DEADLOCK FALSE
