------------------------- MODULE MC_PhaseComment -------------------------
(* Small instances of PhaseComment.                                        *)
EXTENDS PhaseComment

CONSTANTS app1, a1, b1, p1, p2

MCRevisions == {a1, b1}
OneApp == {app1}
MCPulls == {p1, p2}
MCControllers == {PhaseComment}

\* a1 belongs to two pull requests, b1 to one of them.
SharedPull == [r \in RevisionStrings |->
                  IF r = a1 THEN {p1, p2} ELSE IF r = b1 THEN {p1} ELSE {}]

NoDeployments == {}
NoAnnotation == {NoURL}
SomeHealth == {"Progressing"}

SomeSyncs == {[revision |-> NoRevision, revisions |-> << a1, b1 >>], NoSync}

AnyEnd == {"Succeeded", "Failed", "Error"}

Faults(kinds) == [k \in FaultKinds |-> IF k \in kinds THEN 1 ELSE 0]
CrashRefusedOrGap == Faults({"crash", "github", "gap"})

BothSources == {1, 2}

=============================================================================
