--------------------------- MODULE Application ---------------------------
(***************************************************************************)
(* The part of an Argo CD Application object that argocd-commenter reads,  *)
(* the accessors of internal/argocd and the update filters of the five     *)
(* controllers.                                                            *)
(*                                                                         *)
(* A time of the object (StartedAt, FinishedAt) is a logical stamp: each   *)
(* start and each end of an operation takes the next natural number, and 0 *)
(* is Go's zero time.                                                      *)
(***************************************************************************)
EXTENDS Integers, Sequences

CONSTANTS
    Revisions,   \* commits an operation may sync to
    NoRevision,  \* the empty revision string
    Deployments, \* GitHub deployments the annotation may name
    NoURL,       \* no deployment annotation, or an empty one
    BadURL,      \* an annotation ParseDeploymentURL rejects
    NoSync,      \* an operation state without Operation.Sync
    SourceCount  \* len(app.Spec.GetSources()), which nobody edits

ASSUME RevisionAssumption == NoRevision \notin Revisions
ASSUME URLAssumption ==
    /\ NoURL \notin Deployments
    /\ BadURL \notin Deployments
    /\ NoURL # BadURL
ASSUME SourceCountAssumption == SourceCount \in Nat

-----------------------------------------------------------------------------
(* The object.                                                             *)

Phases == {"", "Running", "Terminating", "Succeeded", "Failed", "Error"}
CompletedPhases == {"Succeeded", "Failed", "Error"}

\* "Progressing" stands for every status that no reconciler names.
HealthStatuses == {"Progressing", "Healthy", "Degraded", "Missing"}

RevisionStrings == Revisions \cup {NoRevision}
DeploymentURLs == Deployments \cup {NoURL, BadURL}
Stamps == Nat

\* Operation.Sync: one revision, or the list of a multi-source operation
\* (an empty list is a nil slice).
Syncs == [revision : RevisionStrings, revisions : Seq(RevisionStrings)]

\* phase = "" is an Application without an OperationState.
Objects == [exists      : BOOLEAN,
            deleting    : BOOLEAN,
            phase       : Phases,
            operationAt : Stamps,
            sync        : Syncs \cup {NoSync},
            health      : HealthStatuses,
            url         : DeploymentURLs]

\* What a Get of a name that is not there returns, and a worker's copy
\* before its Get.
NoApplication == [exists      |-> FALSE,
                  deleting    |-> FALSE,
                  phase       |-> "",
                  operationAt |-> 0,
                  sync        |-> NoSync,
                  health      |-> "Progressing",
                  url         |-> NoURL]

-----------------------------------------------------------------------------
(* internal/argocd/application.go                                          *)

GetSyncOperationPhase(a) == a.phase

\* FinishedAt is set exactly in the completed phases; 0 stands for nil.
GetSyncOperationFinishedAt(a) ==
    IF a.phase \in CompletedPhases THEN a.operationAt ELSE 0

\* FinishedAt, else StartedAt, else the zero time.
GetLastOperationAt(a) == IF a.phase = "" THEN 0 ELSE a.operationAt

GetDeploymentURL(a) == a.url

SyncedRevisions(sync) ==
    IF sync.revisions = << >> THEN << sync.revision >> ELSE sync.revisions

\* The revisions, paired with the sources up to the shorter of the two lists.
GetSourceRevisions(a) ==
    IF a.phase = "" \/ a.sync = NoSync
    THEN << >>
    ELSE LET revisions == SyncedRevisions(a.sync)
         IN  SubSeq(revisions, 1,
                    IF SourceCount < Len(revisions) THEN SourceCount
                                                    ELSE Len(revisions))

-----------------------------------------------------------------------------
(* The filters: what an update from old to new must show for the           *)
(* controller's queue to receive the object's name.                        *)

\* Mutant: a phase is missing from the list.
SyncOperationPhasesUnlessSucceeded == {"Running", "Failed", "Error"}

SyncOperationPhasesForComment == {"Running", "Succeeded", "Failed", "Error"}
SyncOperationPhasesForDeploymentStatus ==
    {"Running", "Succeeded", "Failed", "Error"}
HealthStatusesForComment == {"Healthy", "Degraded"}
HealthStatusesForDeploymentStatus == {"Healthy", "Degraded"}

PhaseChangedTo(old, new, phases) ==
    /\ GetSyncOperationPhase(old) # GetSyncOperationPhase(new)
    /\ GetSyncOperationPhase(new) \in phases

HealthChangedTo(old, new, statuses) ==
    old.health # new.health /\ new.health \in statuses

filterApplicationSyncOperationPhaseForComment(old, new) ==
    PhaseChangedTo(old, new, SyncOperationPhasesForComment)

\* Mutant: the end of the operation does not count.
filterApplicationHealthStatusOnly(old, new) ==
    HealthChangedTo(old, new, HealthStatusesForComment)

filterApplicationHealthStatusForComment(old, new) ==
    \/ HealthChangedTo(old, new, HealthStatusesForComment)
    \/ PhaseChangedTo(old, new, {"Succeeded"})

filterApplicationSyncOperationPhaseForDeploymentStatus(old, new) ==
    /\ GetDeploymentURL(new) # NoURL
    /\ PhaseChangedTo(old, new, SyncOperationPhasesForDeploymentStatus)

filterApplicationHealthStatusForDeploymentStatus(old, new) ==
    /\ GetDeploymentURL(new) # NoURL
    /\ \/ HealthChangedTo(old, new, HealthStatusesForDeploymentStatus)
       \/ PhaseChangedTo(old, new, {"Succeeded"})

\* The code compares the two DeletionTimestamp pointers, and two decoded
\* objects never share one: a timestamp in the new object is enough.
DeletionTimestampChanged(old, new) == new.deleting

\* Mutant: the deletion timestamp does not count.
filterApplicationMissingForDeploymentStatus(old, new) ==
    GetDeploymentURL(new) # NoURL /\ HealthChangedTo(old, new, {"Missing"})

filterApplicationDeletionForDeploymentStatus(old, new) ==
    /\ GetDeploymentURL(new) # NoURL
    /\ \/ DeletionTimestampChanged(old, new)
       \/ HealthChangedTo(old, new, {"Missing"})

Filter(c, old, new) ==
    \/ /\ c = "applicationPhaseComment"
       /\ filterApplicationSyncOperationPhaseForComment(old, new)
    \/ /\ c = "applicationHealthComment"
       /\ filterApplicationHealthStatusForComment(old, new)
    \/ /\ c = "applicationPhaseDeployment"
       /\ filterApplicationSyncOperationPhaseForDeploymentStatus(old, new)
    \/ /\ c = "applicationHealthDeployment"
       /\ filterApplicationHealthStatusForDeploymentStatus(old, new)
    \/ /\ c = "applicationDeletionDeployment"
       /\ filterApplicationDeletionForDeploymentStatus(old, new)

\* eventfilter.ApplicationChanged: only an Update event reaches the filter.
\* The Create event of a first list and the Delete event are dropped.
ApplicationChanged(c, old, new) ==
    old.exists /\ new.exists /\ Filter(c, old, new)

=============================================================================
