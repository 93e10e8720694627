-------------------------- MODULE PhaseComment --------------------------
(***************************************************************************)
(* ApplicationPhaseCommentReconciler: it comments on the pull requests of  *)
(* the synced revisions when the phase of the sync operation changes.  It  *)
(* remembers nothing: a comment per run, a run per name taken from the     *)
(* work queue, and what it says is what the cache holds by then.           *)
(***************************************************************************)
EXTENDS ControllerManager, Notification

\* The name SetupWithManager gives the controller.
PhaseComment == "applicationPhaseComment"

ASSUME PhaseCommentAssumption == PhaseComment \in Controllers

VARIABLES
    source,   \* the loop variable over the source revisions, or 0
    comments, \* comments GitHub has accepted
    \* History of the properties:
    facts,    \* <revision, phase> pairs objects had
    changes,  \* per name, updates that passed the filter
    passes    \* per name, runs that came to the comments

history == << facts, changes, passes >>
reconcilerVars == << source, comments, history >>
vars == << managerVars, reconcilerVars >>

Me == worker[PhaseComment]

-----------------------------------------------------------------------------
\* The revisions an object was synced to, with the phase of the sync.
Facts(a, obj) ==
    IF obj.exists
    THEN {[app |-> a, revision |-> GetSourceRevisions(obj)[i], phase |-> obj.phase] :
             i \in 1 .. Len(GetSourceRevisions(obj))}
    ELSE {}

Init ==
    /\ ManagerInit
    /\ source = 0
    /\ comments = {}
    /\ facts = {}
    /\ changes = [a \in Apps |-> 0]
    /\ passes = [a \in Apps |-> 0]

-----------------------------------------------------------------------------
(* Reconcile.                                                              *)

\* Mutant: the deletion timestamp is not looked at.
MayBeCommentedIfDeleting(obj) ==
    obj.exists /\ GetSyncOperationPhase(obj) # ""

MayBeCommented(obj) ==
    obj.exists /\ ~obj.deleting /\ GetSyncOperationPhase(obj) # ""

\* The Application, from the cache.  The loop over no source ends at once.
GetApplication ==
    /\ Me.pc = "get"
    /\ LET obj == cached[Me.key] IN
       \/ /\ ~MayBeCommented(obj) \/ GetSourceRevisions(obj) = << >>
          /\ Return(PhaseComment)
          /\ UNCHANGED << source, passes >>
       \/ /\ MayBeCommented(obj) /\ GetSourceRevisions(obj) # << >>
          /\ GotApplication(PhaseComment, obj, "comment")
          /\ source' = 1
          /\ passes' = [passes EXCEPT ![Me.key] = @ + 1]
    /\ UNCHANGED << app, cached, up, settled, faults, comments, facts, changes >>

\* The comments of the source the loop has come to.
Wanted == CommentsOnSource(Me.key, Me.obj, source, PhaseCommentKind(Me.obj))

\* Mutant: the error of the comments is returned.
EndOfRunWithError == ReturnError(PhaseComment)

\* A failed comment is only recorded as an event.
EndOfRun == Return(PhaseComment)

\* One round of the loop of CreateCommentsOnPhaseChanged.
CommentOnSource ==
    /\ Me.pc = "comment"
    /\ \E reached \in SUBSET Wanted :
          /\ IF reached = Wanted THEN UNCHANGED faults ELSE Fault("github")
          /\ comments' = comments \cup reached
    /\ \/ /\ source < Len(GetSourceRevisions(Me.obj))
          /\ source' = source + 1
          /\ UNCHANGED << worker, queue, timer >>
       \/ /\ source = Len(GetSourceRevisions(Me.obj))
          /\ source' = 0
          /\ EndOfRun
    /\ UNCHANGED << app, cached, up, settled, history >>

Reconcile == GetApplication \/ CommentOnSource

-----------------------------------------------------------------------------
(* Kubernetes.                                                             *)

Environment(a) ==
    /\ ArgoCD(a)
    /\ facts' = facts \cup Facts(a, app'[a])
    /\ UNCHANGED << source, comments, changes, passes >>

Watch(a) ==
    /\ Deliver(a)
    /\ changes' = IF ApplicationChanged(PhaseComment, cached[a], app[a])
                  THEN [changes EXCEPT ![a] = @ + 1]
                  ELSE changes
    /\ UNCHANGED << source, comments, facts, passes >>

Take(a) == Dequeue(PhaseComment, a) /\ UNCHANGED reconcilerVars

\* The process may die between two of the calls to GitHub.
Stop ==
    /\ Crash
    /\ source' = 0
    /\ \E reached \in SUBSET (IF Me.pc = "comment" THEN Wanted ELSE {}) :
          comments' = comments \cup reached
    /\ UNCHANGED history

Restart == Start /\ UNCHANGED reconcilerVars

Next ==
    \/ \E a \in Apps : Environment(a) \/ Watch(a) \/ Take(a)
    \/ Reconcile
    \/ Stop
    \/ Restart

\* As in HealthComment: the environment owes nothing.
Fairness ==
    /\ WF_vars(Reconcile)
    /\ WF_vars(Restart)
    /\ \A a \in Apps : WF_vars(Watch(a)) /\ SF_vars(Take(a))

Spec == Init /\ [][Next]_vars

FairSpec == Spec /\ Fairness

-----------------------------------------------------------------------------
(* Properties.                                                             *)

RunShape ==
    /\ Me.pc \in {"idle", "get", "comment"}
    /\ Me.pc = "idle" <=> Me.key = NoApp
    /\ IF Me.pc = "comment"
       THEN /\ Me.obj.exists /\ ~Me.obj.deleting /\ Me.obj.phase # ""
            /\ source \in 1 .. Len(GetSourceRevisions(Me.obj))
       ELSE source = 0

\* Types, and the shape of a reconcile: the loop variable is a source of
\* the worker's object exactly while it comments.
TypeOK ==
    /\ ManagerTypeOK
    /\ source \in Nat
    /\ comments \subseteq Comments(Apps)
    /\ facts \subseteq [app : Apps, revision : RevisionStrings, phase : Phases]
    /\ changes \in [Apps -> Nat]
    /\ passes \in [Apps -> Nat]
    /\ RunShape

PhaseSaid(kind) ==
    CASE kind = "Syncing" -> "Running"
      [] kind = "Synced"  -> "Succeeded"
      [] OTHER            -> kind

\* A comment tells the truth: the object was in that phase of a sync to
\* that revision, although other updates may lie between the change that
\* called the run, what the run read and what it posts source by source.
CommentsTruthful ==
    \A m \in comments :
        [app |-> m.app, revision |-> m.revision, phase |-> PhaseSaid(m.kind)] \in facts

\* A run needs a change of phase of its own: refused comments, crashes and
\* restarts cause no run, so there are never more of them than changes.
OnePassPerChange ==
    \A a \in Apps :
        passes[a] + (IF a \in queue[PhaseComment] THEN 1 ELSE 0)
                  + (IF Me.pc = "get" /\ Me.key = a THEN 1 ELSE 0) <= changes[a]

NoFault == \A k \in FaultKinds : faults[k] = 0

Synced(a) ==
    app[a].exists /\ ~app[a].deleting /\ app[a].phase = "Succeeded"

IsCommented(a) ==
    \A i \in 1 .. Len(GetSourceRevisions(app[a])) :
        CommentsOnSource(a, app[a], i, "Synced") \subseteq comments

\* Nothing is on its way for the name: no update, no entry of the queue, no
\* run.
AtRest(a) ==
    cached[a] = app[a] /\ a \notin queue[PhaseComment] /\ Me.key # a

\* No end of a sync gets lost: updates are merged in the queue, and may come
\* before, while and after a run reads the object, but without faults a
\* synced Application is at rest only when every source has its comment.
CommentedAtRest ==
    NoFault => \A a \in Apps : Synced(a) /\ AtRest(a) => IsCommented(a)

\* "When an Application is syncing, synced or healthy, argocd-commenter
\* will create a comment" (README.md:10), of the end of a sync: without
\* faults every source of an Application that stays synced has its comment.
SyncedIsCommented ==
    \A a \in Apps :
        []NoFault /\ <>[]Synced(a) => <>[]IsCommented(a)

=============================================================================
