-------------------------- MODULE HealthComment --------------------------
(***************************************************************************)
(* ApplicationHealthCommentReconciler: it comments on the pull requests of *)
(* the synced revisions when an Application is healthy or degraded, and    *)
(* remembers the last healthy revision in an ApplicationHealth object so   *)
(* that a revision is announced as healthy once.                           *)
(*                                                                         *)
(* The record is read through the informer cache (cachedRecord), written   *)
(* to the API server (record), and collected with its owner.               *)
(***************************************************************************)
EXTENDS ControllerManager, Notification

CONSTANT Absent \* there is no ApplicationHealth of that name

ASSUME AbsentAssumption == Absent \notin RevisionStrings

\* The name SetupWithManager gives the controller.
HealthComment == "applicationHealthComment"

ASSUME HealthCommentAssumption == HealthComment \in Controllers

VARIABLES
    record,       \* status.lastHealthyRevision in the API server
    cachedRecord, \* the informer's copy of it
    source,       \* the loop variable over the source revisions, or 0
    comments,     \* comments GitHub has accepted
    unreached,    \* comments whose API call failed
    \* History of the properties:
    facts,        \* <revision, health> pairs objects had after a sync
    healthyPosts, \* passes that posted a healthy comment of a revision
    forgotten     \* times a recorded revision was overwritten or collected

history == << facts, healthyPosts, forgotten >>
recordVars == << record, cachedRecord >>
githubVars == << comments, unreached >>
reconcilerVars == << recordVars, source, githubVars, history >>
vars == << managerVars, reconcilerVars >>

Me == worker[HealthComment]

-----------------------------------------------------------------------------
\* What a comment may say of an object that was synced with success.
Facts(a, obj) ==
    IF obj.exists /\ obj.phase = "Succeeded"
    THEN {[app |-> a, revision |-> GetSourceRevisions(obj)[i], kind |-> obj.health] :
             i \in 1 .. Len(GetSourceRevisions(obj))}
    ELSE {}

OneMore(count, a, r) == [count EXCEPT ![a][r] = @ + 1]

Init ==
    /\ ManagerInit
    /\ record = [a \in Apps |-> Absent]
    /\ cachedRecord = record
    /\ source = 0
    /\ comments = {}
    /\ unreached = {}
    /\ facts = {}
    /\ healthyPosts = [a \in Apps |-> [r \in RevisionStrings |-> 0]]
    /\ forgotten = [a \in Apps |-> [r \in RevisionStrings |-> 0]]

-----------------------------------------------------------------------------
(* Reconcile.                                                              *)

\* The Application, from the cache.
GetApplication ==
    /\ Me.pc = "get"
    /\ LET obj == cached[Me.key] IN
       \/ /\ ~obj.exists \/ obj.deleting
          /\ Return(HealthComment)
       \/ /\ obj.exists /\ ~obj.deleting
          /\ GotApplication(HealthComment, obj, "read")
    /\ UNCHANGED << app, cached, up, settled, faults,
                    recordVars, source, githubVars, history >>

\* Mutant: the record is not looked at.
AlreadyHealthyIgnored(obj, lastHealthyRevision) == FALSE

AlreadyHealthy(obj, lastHealthyRevision) ==
    lastHealthyRevision = GetSourceRevisions(obj)[1]

\* Mutant: the object is read again before the patch.
CurrentRevisionReread == GetSourceRevisions(cached[Me.key])[1]

\* What the run announces and records: the first source's revision.
CurrentRevision == GetSourceRevisions(Me.obj)[1]

\* Mutant: every status that is commented is recorded too.
MayBeRecordedIfCommented(obj) == HealthCommentKind(obj) # NoComment

\* Only a healthy object's revision is recorded.
MayBeRecorded(obj) == obj.health = "Healthy"

\* Mutant: the comparison is the wrong way round.
JustFinishedLongAgo(a, obj) == GetSyncOperationFinishedAt(obj) <= settled[a]

\* Mutant: the 30 seconds are not waited for.
NeverJustFinished(a, obj) == FALSE

\* time.Since(finishedAt) < 30s
JustFinished(a, obj) == GetSyncOperationFinishedAt(obj) > settled[a]

MayBeEvaluated(obj, lastHealthyRevision) ==
    /\ GetSourceRevisions(obj) # << >>
    /\ ~AlreadyHealthy(obj, lastHealthyRevision)
    /\ GetSyncOperationPhase(obj) = "Succeeded"
    /\ GetSyncOperationFinishedAt(obj) # 0

\* From the record to the first API call to GitHub nothing shared is read
\* but the clock.
Evaluate(lastHealthyRevision) ==
    \/ /\ ~MayBeEvaluated(Me.obj, lastHealthyRevision)
       /\ Return(HealthComment)
       /\ UNCHANGED source
    \/ /\ MayBeEvaluated(Me.obj, lastHealthyRevision)
       /\ JustFinished(Me.key, Me.obj)
       /\ ReturnRequeueAfter(HealthComment)
       /\ UNCHANGED source
    \/ /\ MayBeEvaluated(Me.obj, lastHealthyRevision)
       /\ ~JustFinished(Me.key, Me.obj)
       /\ Goto(HealthComment, "comment")
       /\ source' = 1
       /\ UNCHANGED << queue, timer >>

\* The ApplicationHealth, from the cache; a copy that lags is a "stale"
\* fault.
ReadRecord ==
    /\ Me.pc = "read"
    /\ \/ cachedRecord[Me.key] = record[Me.key] /\ UNCHANGED faults
       \/ cachedRecord[Me.key] # record[Me.key] /\ Fault("stale")
    /\ \/ /\ cachedRecord[Me.key] = Absent
          /\ Goto(HealthComment, "create")
          /\ UNCHANGED << queue, timer, source >>
       \/ /\ cachedRecord[Me.key] # Absent
          /\ Evaluate(cachedRecord[Me.key])
    /\ UNCHANGED << app, cached, up, settled, recordVars, githubVars, history >>

\* r.Create with the controller reference; a new object has an empty status.
CreateRecord ==
    /\ Me.pc = "create"
    /\ record[Me.key] = Absent
    /\ record' = [record EXCEPT ![Me.key] = NoRevision]
    /\ Evaluate(NoRevision)
    /\ UNCHANGED << app, cached, up, settled, faults,
                    cachedRecord, githubVars, history >>

\* AlreadyExists, or any other error of the API server.
CreateFails ==
    /\ Me.pc = "create"
    /\ \/ record[Me.key] # Absent /\ UNCHANGED faults
       \/ Fault("api")
    /\ ReturnError(HealthComment)
    /\ UNCHANGED << app, cached, up, settled,
                    recordVars, source, githubVars, history >>

\* Mutant: the health is read again before each source.
WantedReread ==
    CommentsOnSource(Me.key, Me.obj, source, HealthCommentKind(cached[Me.key]))

\* The comments of the source the loop has come to.
Wanted == CommentsOnSource(Me.key, Me.obj, source, HealthCommentKind(Me.obj))

\* GitHub accepts some comments of the source.
Posted(reached) ==
    /\ comments' = comments \cup reached
    /\ healthyPosts' = IF source = 1 /\ reached # {} /\ Me.obj.health = "Healthy"
                       THEN OneMore(healthyPosts, Me.key, CurrentRevision)
                       ELSE healthyPosts

\* One round of the loop of CreateCommentsOnHealthChanged.  A failed call
\* does not end the loop, and the joined error is only recorded as an event.
CommentOnSource ==
    /\ Me.pc = "comment"
    /\ \E reached \in SUBSET Wanted :
          /\ IF reached = Wanted THEN UNCHANGED faults ELSE Fault("github")
          /\ Posted(reached)
          /\ unreached' = unreached \cup (Wanted \ reached)
    /\ \/ /\ source < Len(GetSourceRevisions(Me.obj))
          /\ source' = source + 1
          /\ UNCHANGED << worker, queue, timer >>
       \/ /\ source = Len(GetSourceRevisions(Me.obj))
          /\ source' = 0
          /\ \/ /\ MayBeRecorded(Me.obj)
                /\ Goto(HealthComment, "patch")
                /\ UNCHANGED << queue, timer >>
             \/ /\ ~MayBeRecorded(Me.obj)
                /\ Return(HealthComment)
    /\ UNCHANGED << app, cached, up, settled, recordVars, facts, forgotten >>

\* Mutant: the patch changes nothing.
PatchRecordUnsaved ==
    /\ Me.pc = "patch"
    /\ Return(HealthComment)
    /\ UNCHANGED << app, cached, up, settled, faults, recordVars, source,
                    githubVars, history >>

\* Status().Patch sets lastHealthyRevision whatever it is by now.  NotFound
\* is ignored.
PatchRecord ==
    /\ Me.pc = "patch"
    /\ \/ /\ record[Me.key] = Absent
          /\ forgotten' = OneMore(forgotten, Me.key, CurrentRevision)
          /\ UNCHANGED record
       \/ /\ record[Me.key] # Absent
          /\ record' = [record EXCEPT ![Me.key] = CurrentRevision]
          /\ forgotten' =
                IF record[Me.key] = CurrentRevision
                THEN forgotten
                ELSE OneMore(forgotten, Me.key, record[Me.key])
    /\ Return(HealthComment)
    /\ UNCHANGED << app, cached, up, settled, faults, cachedRecord, source,
                    githubVars, facts, healthyPosts >>

PatchFails ==
    /\ Me.pc = "patch"
    /\ Fault("api")
    /\ ReturnError(HealthComment)
    /\ UNCHANGED << app, cached, up, settled,
                    recordVars, source, githubVars, history >>

Reconcile ==
    \/ GetApplication
    \/ ReadRecord
    \/ CreateRecord
    \/ CreateFails
    \/ CommentOnSource
    \/ PatchRecord
    \/ PatchFails

-----------------------------------------------------------------------------
(* Kubernetes.                                                             *)

DeliverRecord(a) ==
    /\ up
    /\ cachedRecord[a] # record[a]
    /\ cachedRecord' = [cachedRecord EXCEPT ![a] = record[a]]
    /\ UNCHANGED << managerVars, record, source, githubVars, history >>

\* The garbage collector deletes the record of a removed owner.
CollectRecord(a) ==
    /\ ~app[a].exists
    /\ record[a] # Absent
    /\ record' = [record EXCEPT ![a] = Absent]
    /\ forgotten' = OneMore(forgotten, a, record[a])
    /\ UNCHANGED << managerVars, cachedRecord, source, githubVars,
                    facts, healthyPosts >>

Environment(a) ==
    /\ ArgoCD(a)
    /\ facts' = facts \cup Facts(a, app'[a])
    /\ UNCHANGED << recordVars, source, githubVars, healthyPosts, forgotten >>

Watch(a) == Deliver(a) /\ UNCHANGED reconcilerVars
Wait(a) == Settle(a) /\ UNCHANGED reconcilerVars
Requeue(a) == TimerFires(HealthComment, a) /\ UNCHANGED reconcilerVars
Take(a) == Dequeue(HealthComment, a) /\ UNCHANGED reconcilerVars

\* The process may die between two of the calls to GitHub.
Stop ==
    /\ Crash
    /\ source' = 0
    /\ \E reached \in SUBSET (IF Me.pc = "comment" THEN Wanted ELSE {}) :
          Posted(reached)
    /\ UNCHANGED << recordVars, unreached, facts, forgotten >>

Restart ==
    /\ Start
    /\ cachedRecord' = record
    /\ UNCHANGED << record, source, githubVars, history >>

Next ==
    \/ \E a \in Apps :
          \/ Environment(a)
          \/ Watch(a)
          \/ Wait(a)
          \/ Requeue(a)
          \/ Take(a)
          \/ DeliverRecord(a)
          \/ CollectRecord(a)
    \/ Reconcile
    \/ Stop
    \/ Restart

\* Argo CD, its users and the faults owe nothing.  The informers, the clock
\* and the worker go on; the work queue is first in, first out, so a name
\* is not passed over for ever.
Fairness ==
    /\ WF_vars(Reconcile)
    /\ WF_vars(Restart)
    /\ \A a \in Apps :
          /\ WF_vars(Watch(a))
          /\ WF_vars(Wait(a))
          /\ WF_vars(Requeue(a))
          /\ SF_vars(Take(a))
          /\ WF_vars(DeliverRecord(a))

Spec == Init /\ [][Next]_vars

FairSpec == Spec /\ Fairness

-----------------------------------------------------------------------------
(* Properties.                                                             *)

CommentFacts == [app : Apps, revision : RevisionStrings, kind : HealthStatuses]

DataTypeOK ==
    /\ record \in [Apps -> RevisionStrings \cup {Absent}]
    /\ cachedRecord \in [Apps -> RevisionStrings \cup {Absent}]
    /\ source \in Nat
    /\ comments \subseteq Comments(Apps)
    /\ unreached \subseteq Comments(Apps)
    /\ facts \subseteq CommentFacts
    /\ healthyPosts \in [Apps -> [RevisionStrings -> Nat]]
    /\ forgotten \in [Apps -> [RevisionStrings -> Nat]]

ReconcileShape ==
    /\ Me.pc \in {"idle", "get", "read", "create", "comment", "patch"}
    /\ Me.pc = "idle" <=> Me.key = NoApp
    /\ Me.pc \notin {"idle", "get"} => Me.obj.exists /\ ~Me.obj.deleting
    /\ Me.pc \in {"comment", "patch"} =>
          /\ Me.obj.phase = "Succeeded"
          /\ Me.obj.operationAt <= settled[Me.key]
          /\ GetSourceRevisions(Me.obj) # << >>
    /\ Me.pc = "patch" => Me.obj.health = "Healthy"
    /\ IF Me.pc = "comment"
       THEN source \in 1 .. Len(GetSourceRevisions(Me.obj))
       ELSE source = 0

\* Types, and the shape of a reconcile: the loop variable is a source of
\* the worker's object exactly while it comments, an idle worker holds
\* no name, health is announced only of an object whose sync succeeded at
\* least 30 seconds before, and recorded only if it is healthy.
TypeOK == ManagerTypeOK /\ DataTypeOK /\ ReconcileShape

\* A comment tells the truth: the object was seen synced with success to
\* that revision while it had that health status, at one and the same time.
\* Get, the 30 seconds and the loop over the sources lie between what is
\* seen and what is posted.
CommentsTruthful ==
    \A m \in comments \cup unreached :
        [app |-> m.app, revision |-> m.revision, kind |-> m.kind] \in facts

\* lastHealthyRevision is "Last revision when the application is healthy"
\* (api/v1/applicationhealth_types.go): across crashes, retries, stale
\* copies and overwrites, the object was healthy at the recorded revision.
RecordedWasHealthy ==
    \A a \in Apps : record[a] \in Revisions =>
        [app |-> a, revision |-> record[a], kind |-> "Healthy"] \in facts

HealthyComments(a, revision) ==
    {[app |-> a, target |-> t, revision |-> revision, kind |-> "Healthy"] :
       t \in IF 1 \in GitHubSources THEN CommentTargets(revision) ELSE {}}

\* A revision is recorded after its comments, never before: the record
\* suppresses any later comment, so each of them was posted or refused by
\* GitHub by then, even if the process died in between.
RecordedIsAttempted ==
    \A a \in Apps : record[a] \in Revisions =>
        HealthyComments(a, record[a]) \subseteq comments \cup unreached

\* A healthy comment is repeated only for a reason: a crash, a refused
\* patch, a stale copy of the record, or a record that was lost or moved to
\* another revision in the meantime.  Each accounts for one repetition.
DuplicatesBounded ==
    \A a \in Apps, r \in Revisions :
        healthyPosts[a][r] <= 1 + faults["crash"] + faults["api"]
                                + faults["stale"] + forgotten[a][r]

\* The pass the worker is in.
NoPass == [name |-> NoApp, revision |-> NoRevision]
Pass == IF Me.pc \in {"comment", "patch"}
        THEN [name |-> Me.key, revision |-> CurrentRevision]
        ELSE NoPass

Ledger == INSTANCE HealthLedger WITH
    Names     <- Apps,
    Due       <- [a \in Apps |-> [r \in RevisionStrings |-> HealthyComments(a, r)]],
    Blank     <- NoRevision,
    ledger    <- record,
    attempted <- comments \cup unreached,
    pass      <- Pass,
    misread   <- faults["stale"]

\* Every step is one of the abstract ledger: comments are made in a pass, a
\* pass is begun only for a revision that is not on record or after a stale
\* read, and what is recorded at its end is what it was begun for, whatever
\* the object, the record and the other copy have become by then.
KeepsLedger == Ledger!Spec

HealthySynced(a) ==
    /\ app[a].exists /\ ~app[a].deleting
    /\ app[a].phase = "Succeeded"
    /\ app[a].health = "Healthy"
    /\ GetSourceRevisions(app[a]) # << >>

IsRecorded(a) ==
    /\ GetSourceRevisions(app[a]) # << >>
    /\ record[a] = GetSourceRevisions(app[a])[1]

\* Nothing is on its way for the name: no update, no entry of the queue, no
\* requeue and no run.
AtRest(a) ==
    /\ cached[a] = app[a]
    /\ a \notin queue[HealthComment]
    /\ timer[HealthComment][a] = NoTimer
    /\ Me.key # a

\* What loses an update or misleads a run for good has not happened.
NoLoss == faults["crash"] = 0 /\ faults["gap"] = 0 /\ faults["stale"] = 0

\* No healthy revision gets lost: whatever GitHub or the API server refuse,
\* and however updates, the 30-second requeue, a run and the object it read
\* interleave, a healthy Application is at rest only when its revision is
\* recorded.
RecordedAtRest ==
    NoLoss => \A a \in Apps : HealthySynced(a) /\ AtRest(a) => IsRecorded(a)

\* An Application that stays synced and healthy has its revision recorded
\* in the end, whatever GitHub or the API server refuse on the way, unless
\* something was lost for good (NoLoss ends once and for all).
HealthyIsRecorded ==
    \A a \in Apps : <>[](NoLoss /\ HealthySynced(a)) => <>[]IsRecorded(a)

IsCommented(a) ==
    \A i \in 1 .. Len(GetSourceRevisions(app[a])) :
        CommentsOnSource(a, app[a], i, "Healthy") \subseteq comments

\* "When an Application is syncing, synced or healthy, argocd-commenter
\* will create a comment" (README.md:10): if it stays synced and healthy,
\* the related pull requests of every source have their comment.
HealthyIsCommented ==
    \A a \in Apps : <>[]HealthySynced(a) => <>[]IsCommented(a)

Quiet == queue[HealthComment] = {} /\ Me.pc = "idle"
            /\ \A a \in Apps : timer[HealthComment][a] = NoTimer

\* The 30-second requeue and the retries end: once Argo CD writes nothing
\* more, the controller comes to rest.
ComesToRest == []<><<TRUE>>_app \/ <>[]Quiet

=============================================================================
