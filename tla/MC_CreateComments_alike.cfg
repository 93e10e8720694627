SPECIFICATION Spec
CONSTANTS
    app1 = app1
    app10 = app10
    base = base
    file = file
    p1 = p1
    p2 = p2
    p3 = p3
    Commit = Commit
    Names <- MCNames
    StartsWith <- MCStartsWith
    Pulls <- MCPulls
    Applications <- OneSource
    Repositories <- MCRepositories
    PageSize = 2
    APIHosts <- GitHub
    CommitCommentEnabled = FALSE
    MaxFaults = 0
INVARIANT
    OnlyTouchingIsCommented
CHECK_DEADLOCK FALSE
