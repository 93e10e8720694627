SPECIFICATION FairSpec
CONSTANTS
    app1 = app1
    a1 = a1
    d1 = d1
    d2 = d2
    NoRevision = NoRevision
    NoURL = NoURL
    BadURL = BadURL
    NoSync = NoSync
    NoApp = NoApp
    Commit = Commit
    NoDeployment = NoDeployment
    Revisions <- MCRevisions
    Deployments <- OneDeployment
    SourceCount = 1
    Apps <- MCApps
    Controllers <- DeletionRace
    SyncOperations <- OneSync
    FinalPhases <- Succeeds
    ReportedHealth <- Vanishes
    AnnotatedURLs <- OneURL
    DeletionAllowed = TRUE
    MaxStamp = 2
    MaxFaults <- OneCrash
    Pulls <- NoPulls
    RelatedPulls <- NoRelatedPulls
    GitHubSources <- NoSources
    CommitCommentEnabled = FALSE
INVARIANTS
    StatusesTruthful
PROPERTIES
    DeletionConverges
    InactiveIsOwed
    InactiveIsFinal
CHECK_DEADLOCK FALSE
