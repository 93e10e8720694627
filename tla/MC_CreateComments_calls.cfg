SPECIFICATION Spec
CONSTANTS
    app1 = app1
    app10 = app10
    base = base
    file = file
    p1 = p1
    p2 = p2
    p3 = p3
    Commit = Commit
    Names <- MCNames
    StartsWith <- MCStartsWith
    Pulls <- MCPulls
    Applications <- MCApplications
    Repositories <- MCRepositories
    PageSize = 2
    APIHosts <- EitherHost
    CommitCommentEnabled = TRUE
    MaxFaults = 2
INVARIANTS
    TypeOK
    TouchingIsCommented
    CommentedIsRelated
    CommitIsTheLastResort
PROPERTIES
    KeepsPromise
    CallAdvances
CHECK_DEADLOCK FALSE
