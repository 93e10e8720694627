--------------------------- MODULE Notification ---------------------------
(***************************************************************************)
(* internal/notification: which comments and which deployment status an    *)
(* Application object gives rise to.  Bodies and descriptions are reduced  *)
(* to a kind; the calls to GitHub are made by the modules that use this.   *)
(***************************************************************************)
EXTENDS Application

CONSTANTS
    Pulls,               \* pull requests
    Commit,              \* the target of a comment on the commit itself
    RelatedPulls,        \* revision -> pull requests related to the object
    GitHubSources,       \* sources whose repoURL ParseRepositoryURL accepts
    CommitCommentEnabled \* FEATURE_CREATE_COMMIT_COMMENT

ASSUME PullAssumption ==
    /\ Commit \notin Pulls
    /\ RelatedPulls \in [RevisionStrings -> SUBSET Pulls]
    /\ GitHubSources \subseteq 1 .. SourceCount
    /\ CommitCommentEnabled \in BOOLEAN

-----------------------------------------------------------------------------
(* Comments.                                                               *)

NoComment == ""

CommentKinds == {"Syncing", "Synced", "Failed", "Error", "Healthy", "Degraded"}

\* generateCommentBodyOnHealthChanged
HealthCommentKind(obj) ==
    IF obj.health \in {"Healthy", "Degraded"} THEN obj.health ELSE NoComment

\* Mutant: every other phase falls through to the last comment.
PhaseCommentKindFallsThrough(obj) ==
    CASE obj.phase = "Running"   -> "Syncing"
      [] obj.phase = "Succeeded" -> "Synced"
      [] obj.phase = "Failed"    -> "Failed"
      [] OTHER                   -> "Error"

\* generateCommentBodyOnPhaseChanged
PhaseCommentKind(obj) ==
    CASE obj.phase = "Running"   -> "Syncing"
      [] obj.phase = "Succeeded" -> "Synced"
      [] obj.phase = "Failed"    -> "Failed"
      [] obj.phase = "Error"     -> "Error"
      [] OTHER                   -> NoComment

\* createComment: every related pull request, or the commit when there is
\* none and the feature is on.
CommentTargets(revision) ==
    IF RelatedPulls[revision] = {} /\ CommitCommentEnabled
    THEN {Commit}
    ELSE RelatedPulls[revision]

Comments(apps) == [app      : apps,
                   target   : Pulls \cup {Commit},
                   revision : RevisionStrings,
                   kind     : CommentKinds]

\* What the loop over the source revisions posts for the i-th one.
CommentsOnSource(a, obj, i, kind) ==
    LET revision == GetSourceRevisions(obj)[i] IN
    IF kind = NoComment \/ i \notin GitHubSources
    THEN {}
    ELSE {[app |-> a, target |-> t, revision |-> revision, kind |-> kind] :
             t \in CommentTargets(revision)}

-----------------------------------------------------------------------------
(* Deployment statuses.                                                    *)

NoState == "none"

DeploymentStates ==
    {NoState, "queued", "in_progress", "success", "failure", "inactive"}

\* github.ParseDeploymentURL
ParsesDeploymentURL(url) == url \in Deployments

\* Mutant: a finished sync counts as a finished deployment.
PhaseDeploymentStateTooEarly(obj) ==
    CASE obj.phase = "Running"             -> "queued"
      [] obj.phase = "Succeeded"           -> "success"
      [] obj.phase \in {"Failed", "Error"} -> "failure"
      [] OTHER                             -> NoState

\* generateDeploymentStatusOnPhaseChanged
PhaseDeploymentState(obj) ==
    CASE obj.phase = "Running"             -> "queued"
      [] obj.phase = "Succeeded"           -> "in_progress"
      [] obj.phase \in {"Failed", "Error"} -> "failure"
      [] OTHER                             -> NoState

\* Mutant: what is not degraded is healthy.
HealthDeploymentStateFallsThrough(obj) ==
    IF obj.health = "Degraded" THEN "failure" ELSE "success"

\* generateDeploymentStatusOnHealthChanged
HealthDeploymentState(obj) ==
    CASE obj.health = "Healthy"  -> "success"
      [] obj.health = "Degraded" -> "failure"
      [] OTHER                   -> NoState

\* CreateDeploymentStatusOnDeletion
DeletionDeploymentState(obj) == "inactive"

=============================================================================
