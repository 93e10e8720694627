------------------------ MODULE MC_HealthComment -------------------------
(* Small instances of HealthComment.                                       *)
EXTENDS HealthComment

CONSTANTS app1, a1, b1, p1, p2

MCRevisions == {a1, b1}
MCApps == {app1}
MCPulls == {p1, p2}
MCControllers == {HealthComment}

\* a1 belongs to two pull requests, b1 to none.
MCRelatedPulls == [r \in RevisionStrings |-> IF r = a1 THEN {p1, p2} ELSE {}]
\* One pull request for each revision.
OnePull == [r \in RevisionStrings |-> IF r = NoRevision THEN {} ELSE {p1}]

NoDeployments == {}
NoAnnotation == {NoURL}

Single(r) == [revision |-> r, revisions |-> << >>]
Multi(r, s) == [revision |-> NoRevision, revisions |-> << r, s >>]

SingleSyncs == {Single(a1), Single(b1)}
MultiSyncs == {Multi(a1, b1), Multi(b1, a1)}
SecondSourceSyncs == {Multi(a1, a1), Multi(a1, b1)}

Succeeds == {"Succeeded"}
SucceedsOrFails == {"Succeeded", "Failed"}

Recovers == {"Progressing", "Healthy"}
FlipsToDegraded == {"Degraded", "Healthy"}

NoFaults == [k \in FaultKinds |-> 0]
Faults(kinds) == [k \in FaultKinds |-> IF k \in kinds THEN 1 ELSE 0]
CrashOrRefused == Faults({"crash", "api", "github"})
OneStale == Faults({"stale"})

FirstSource == {1}
BothSources == {1, 2}

=============================================================================
