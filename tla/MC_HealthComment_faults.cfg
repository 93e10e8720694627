SPECIFICATION FairSpec
CONSTANTS
    app1 = app1
    a1 = a1
    b1 = b1
    p1 = p1
    p2 = p2
    NoRevision = NoRevision
    NoURL = NoURL
    BadURL = BadURL
    NoSync = NoSync
    NoApp = NoApp
    Commit = Commit
    Absent = Absent
    Revisions <- MCRevisions
    Deployments <- NoDeployments
    SourceCount = 1
    Apps <- MCApps
    Controllers <- MCControllers
    SyncOperations <- SingleSyncs
    FinalPhases <- SucceedsOrFails
    ReportedHealth <- Recovers
    AnnotatedURLs <- NoAnnotation
    DeletionAllowed = FALSE
    MaxStamp = 3
    MaxFaults <- CrashOrRefused
    Pulls <- MCPulls
    RelatedPulls <- OnePull
    GitHubSources <- FirstSource
    CommitCommentEnabled = FALSE
INVARIANTS
    RecordedIsAttempted
    DuplicatesBounded
    RecordedAtRest
PROPERTIES
    HealthyIsRecorded
    ComesToRest
