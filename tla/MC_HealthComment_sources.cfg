SPECIFICATION Spec
CONSTANTS
    app1 = app1
    a1 = a1
    b1 = b1
    p1 = p1
    p2 = p2
    NoRevision = NoRevision
    NoURL = NoURL
    BadURL = BadURL
    NoSync = NoSync
    NoApp = NoApp
    Commit = Commit
    Absent = Absent
    Revisions <- MCRevisions
    Deployments <- NoDeployments
    SourceCount = 2
    Apps <- MCApps
    Controllers <- MCControllers
    SyncOperations <- MultiSyncs
    FinalPhases <- Succeeds
    ReportedHealth <- FlipsToDegraded
    AnnotatedURLs <- NoAnnotation
    DeletionAllowed = TRUE
    MaxStamp = 4
    MaxFaults <- OneStale
    Pulls <- MCPulls
    RelatedPulls <- MCRelatedPulls
    GitHubSources <- BothSources
    CommitCommentEnabled = TRUE
INVARIANTS
    TypeOK
    CommentsTruthful
    RecordedWasHealthy
    DuplicatesBounded
PROPERTY
    KeepsLedger
CHECK_DEADLOCK FALSE
