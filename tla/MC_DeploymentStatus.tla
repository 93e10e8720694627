----------------------- MODULE MC_DeploymentStatus -----------------------
(* Small instances of DeploymentStatus.                                    *)
EXTENDS DeploymentStatus

CONSTANTS app1, a1, d1, d2

MCRevisions == {a1}
MCApps == {app1}
OneDeployment == {d1}
TwoDeployments == {d1, d2}

SyncControllers == {PhaseDeployment, HealthDeployment}
HealthOnly == {HealthDeployment}
DeletionRace == {HealthDeployment, DeletionDeployment}

OneSync == {[revision |-> a1, revisions |-> << >>]}
Succeeds == {"Succeeded"}
SucceedsOrFails == {"Succeeded", "Failed"}

Recovers == {"Progressing", "Healthy"}
FlipsToDegraded == {"Degraded", "Healthy"}
Vanishes == {"Healthy", "Missing"}

OneURL == {d1}
TwoURLs == {d1, d2}

NoPulls == {}
NoRelatedPulls == [r \in RevisionStrings |-> {}]
NoSources == {}

NoFaults == [k \in FaultKinds |-> 0]
Faults(kinds) == [k \in FaultKinds |-> IF k \in kinds THEN 1 ELSE 0]
OneCrash == Faults({"crash"})
OneRefused == Faults({"github"})

=============================================================================
