# Verification of argocd-commenter

TLA+ modules of argocd-commenter, the TLC configurations that check them on small
instances, and theorems checked by TLAPS. Paths below are relative to the root of
the repository.

argocd-commenter is a Kubernetes controller. It watches Argo CD `Application`
objects and, when the sync operation or the health of one changes, comments on the
pull requests of the synced revision and writes statuses of the GitHub deployment
the object is annotated with.

## 1. Inventory

| Component | Source | State it keeps | Operations |
|---|---|---|---|
| Accessors | `internal/argocd/application.go` | none | the revisions, phase, times and annotation of an object |
| Event filters | `internal/controller/eventfilter`, `filter...` in the controllers | none | which update of an object calls which controller |
| Phase comment controller | `applicationphasecomment_controller.go` | none | a comment per source when a sync starts or ends |
| Health comment controller | `applicationhealthcomment_controller.go` | an `ApplicationHealth` per Application: the last healthy revision | a comment per source when a synced object is healthy or degraded, once per healthy revision |
| Phase deployment controller | `applicationphasedeployment_controller.go` | none | `queued`, `in_progress`, `failure` |
| Health deployment controller | `applicationhealthdeployment_controller.go` | none | `success`, `failure` |
| Deletion deployment controller | `applicationdeletiondeployment_controller.go` | none | `inactive` |
| Notification client | `internal/notification` | none | what is posted for an object; loops over sources and pull requests |
| Pull request relation | `internal/notification/pull.go` | none | which pull requests of a revision belong to an Application: paths of its sources and of its annotation |
| GitHub client | `internal/github` | the host it calls | REST calls, URL parsing |
| Manager | `cmd/main.go`, controller-runtime | informer cache, a work queue, a delayed queue and one worker per controller; all lost with the process | delivers updates, runs `Reconcile`, requeues |

How they interact: Argo CD writes an Application; the informer updates its copy and
hands the old and the new object to the five filters; a filter that accepts puts
the object's name into its controller's queue; the worker takes a name, reads the
object *from the cache* and calls GitHub. The controllers share nothing in memory.
They meet in two places: the health comment controller with itself, over time, in
the `ApplicationHealth` record (read through the cache, written to the API
server), and the three deployment controllers in the latest status of a deployment.

What is hard, and what makes each part correct:

- **Between the event and the run.** Names, not events, are queued: several changes
  become one run, and the run sees the newest object. What is posted must still be
  true of one state of the object (`CommentsTruthful`, `StatusesTruthful`), and a
  run must have a change as its cause (`OnePassPerChange`).
- **Announce, then record.** The health comment controller comments first and
  records second, and dies, is refused, or reads a stale record in between. A record
  must never claim more than was attempted (`RecordedIsAttempted`), must name a
  revision that was healthy (`RecordedWasHealthy`), and each repeated comment needs
  a reason (`DuplicatesBounded`). Together this is a ledger of passes that announce,
  then enter (`KeepsLedger`).
- **Nothing gets lost.** Between an update and its comment or status lie the filter, the
  queue, a run that reads the object earlier or later, a requeue and a retry. As long as
  nothing fails, the controller comes to rest only when the comment is made
  (`CommentedAtRest`, `RecordedAtRest`), and a status that is due stays owed until it is
  written (`SuccessIsOwed`, `InactiveIsOwed`).
- **Check, then act.** Two controllers check that a deployment is not successful yet
  and post afterwards; the third does not check (`SuccessIsSealed`, `KeepsBoard`,
  `NoStatusAfterHealthy`). What a deletion left inactive must not come back to life from
  a requeue, an old copy or a restart (`InactiveIsFinal`).
- **Requeues.** 30 seconds after a sync, and every 30 seconds while a deployment is
  missing, for 10 minutes. They must come to an end (`ComesToRest`) and not before
  the work is done (`HealthyIsRecorded`, `DeploymentConverges`).
- **One call, many posts.** A request to comment lists the pull requests of each
  source, reads their files, and posts to those that are related, with a call to
  GitHub each. Any call may fail, after it has done its work too. No failure may take
  a comment away from another pull request or source, make one twice, or be hidden
  from the caller (`KeepsPromise`, `TouchingIsCommented`), or keep the worker for ever (`CallAdvances`).
- **Paths as strings.** Relative and absolute paths, `..`, empty elements and prefixes
  decide who is told (`CommentedIsRelated`, `TouchingIsCommented`).
- **Restart.** Queues and timers are lost, and Create events are filtered out.

The hazards, each with its line and properties, are in `PROJECT.json`.

## 2. Modules

| Module | Models | Uses |
|---|---|---|
| `Application` | the object, `internal/argocd/application.go`, the filters | |
| `ControllerManager` | Argo CD, API server, informer, queues, clock, process: code outside the repository, modelled from its use | `Application` |
| `Notification` | `internal/notification`: comment kinds and targets, deployment states | `Application` |
| `PullRequestRelation` | `internal/notification/pull.go`, the repository URLs of `internal/github/types.go`: operators over sequences of path elements | |
| `CommentService` | abstract: what a reconciler may rely on when it asks for comments | |
| `CreateComments` | one call of `CreateCommentsOn...Changed`, one step per call to GitHub; shown to implement `CommentService` | `PullRequestRelation` |
| `HealthLedger` | abstract: what the readers of the comments may rely on, a ledger of the revisions announced | |
| `HealthComment` | the health comment controller and its record; shown to implement `HealthLedger` | `ControllerManager`, `Notification` |
| `PhaseComment` | the phase comment controller | `ControllerManager`, `Notification` |
| `DeploymentBoard` | abstract: what the users of deployments may rely on, a board of statuses written with permits | |
| `DeploymentStatus` | the three deployment controllers and the latest statuses; shown to implement `DeploymentBoard` | `ControllerManager`, `Notification` |
| `ControllerManager_proofs` | lemmas about the manager's actions: types, and how far the informer's copy may be behind | `ControllerManager` |
| `Notification_proofs` | lemmas about source revisions and the comments on them | `Notification` |
| `HealthComment_proofs` | the theorems about `HealthComment` | `HealthComment`, the two above |
| `PhaseComment_proofs` | the theorems about `PhaseComment` | `PhaseComment`, the same two |
| `DeploymentStatus_proofs` | the theorems about `DeploymentStatus` | `DeploymentStatus`, `ControllerManager_proofs` |
| `PullRequestRelation_proofs` | induction over the elements of a path, and the theorems about the paths of `pull.go` | `PullRequestRelation` |
| `CreateComments_proofs` | the theorems about `CreateComments` | `CreateComments`, `PullRequestRelation_proofs` |
| `MC_HealthComment`, `MC_PhaseComment`, `MC_DeploymentStatus`, `MC_CreateComments` | values of the constants for TLC | the four components |

The comment controllers and `CreateComments` are two levels of one thing. `HealthComment`
and `PhaseComment` interleave whole controllers, so they take a round of the loop over
the sources as one step, with the related pull requests as the constant `RelatedPulls`.
`CreateComments` opens that step: one call alone, since it shares nothing with anybody
while it runs, with the lists, the paths and every single post. What the controllers
assume of it is `CommentService`: a wanted comment is made or missed, none is forgotten,
and an error is reported if one was missed.

### Conventions

- **Steps.** A reconciler is cut where another process can come in between: at each
  call to the API server or to GitHub. `worker[c].pc` names the place: `get`,
  `read`, `create`, `check`, `comment`, `post`, `patch`. What lies between two calls
  is one step. In the comment loops one step is one source; a crash may leave any
  part of a source's comments behind (`Stop`).
- **The object.** An object is a record of the fields the code reads. Phases, health
  statuses and annotations are members of small sets; `Progressing` stands for every
  health status no reconciler names. `phase = ""` is an object without an
  `OperationState`. `Revisions` is modelled with the nil slice as the empty sequence.
- **Time.** Each start and each end of an operation takes the next natural number as
  its stamp (`operationAt`). `settled[a]` is the last stamp at least 30 seconds old,
  `expired[a]` the last one at least 10 minutes old; `Settle` and `Expire` move them.
  `time.Since(t) < 30s` is `t > settled[a]`. A delayed requeue fires once the stamp
  that was current when it was set has settled. Nothing else of time is kept, so two
  requeues in a row take the place of any number of them.
- **The watch.** It delivers the updates of an object in order and nothing here
  writes an Application in answer to a controller. A watch that lags is therefore the
  same as Argo CD writing later, and the model lets an object be written again only
  when its last update is delivered. The exception is the fault `gap`: the watch
  broke, and the relist skips a state.
- **Faults** are counted by kind and bounded by `MaxFaults`: `crash` (the process
  dies, or exits after a lost leader election), `gap`, `stale` (the record is read
  from a cache that lags), `api` (the API server refuses a create or a patch),
  `github` (a call to GitHub fails).
- **Names.** A removed name does not come back with a new object.
- **Paths.** A path is a sequence of elements; names are model values, and the relation
  `StartsWith` says which name is the beginning of which other one, so that
  `strings.HasPrefix` is modelled by what it does. Only the host, the scheme and the
  number of elements are kept of a repository URL.
- **Data left out.** Bodies, descriptions, log and event texts, the Argo CD URL.
- `\* Mutant:` marks a changed form of the next definition; nothing refers to it but
  the `mutants` of `PROJECT.json`, which TLC must refute.

### Correspondence

| Code | Model |
|---|---|
| `r.Get(ctx, req.NamespacedName, &app)` and the early returns after it | `GetApplication` |
| `r.Get` / `r.Create` of the `ApplicationHealth` | `ReadRecord`, `CreateRecord`, `CreateFails` |
| the checks between the record and the comments | `Evaluate`, `MayBeEvaluated`, `JustFinished` |
| a round of the loop of `CreateCommentsOn...Changed` | `CommentOnSource` |
| `createComment`, `ListPullRequests` | `ListPullRequests`, `ListFiles`, `Filter`, `OrCommit`, `CreateComment` |
| `filterPullRequestsRelatedToEvent` and below | `Related`, `isPullRequestRelatedToEvent`, `getManifestGeneratePaths`, `Canonical`, `HasPrefix` |
| `r.Client.Status().Patch` | `PatchRecord`, `PatchFails` |
| `CheckIfDeploymentIsAlreadyHealthy`, the 404 retry | `Check`, `AfterCheck`, `MayRetry` |
| `CreateDeploymentStatusOn...` | `Post` |
| `ctrl.Result{}`, `{RequeueAfter}`, an error | `Return`, `ReturnRequeueAfter`, `ReturnError` |
| `WithEventFilter(ApplicationChanged(filter...))` | `Deliver`, `ApplicationChanged`, `Filter` |

An error of a call that the code only turns into a Kubernetes event (a refused
comment or status) does not change the flow. An error of the check other than 404
leaves `deploymentIsAlreadyHealthy` false and is not looked at: `Check` goes on with
the answer "no". A malformed annotation is not looked up and nothing is posted.

## 3. Runs

Each run is one question. The passing runs are complete explorations; every one
has one Application, and the columns say what else it may do.

| Run | Bounds | States | Shows |
|---|---|---|---|
| `hc_faults` | two revisions in one pull request; a sync that succeeds or fails and the start of another; one crash, one refused write, one refused comment; fairness | 0.56 M | the record follows the comments; repetitions have a reason; unless something was lost for good a revision that stays healthy is recorded in the end, and it is on record whenever the controller is at rest; the controller comes to rest |
| `hc_sources` | two sources with two revisions in either order, one of them without a pull request (a comment on the commit); two syncs that succeed; health flips between healthy and degraded; deletion and removal; one stale read | 1.73 M | no comment and no record mixes states of the object, or is made before the 30 seconds are over; repetitions have a reason; the abstract ledger is implemented |
| `ds_sync` | phase and health controller on one deployment that may be created late; a sync that succeeds or fails; health flips; one failed call | 0.45 M | truth; success is left only where the code cannot help it; a success that is due is not forgotten; the abstract board is implemented |
| `ds_deletion` | health and deletion controller; the object goes missing, is deleted or removed; one crash; fairness | 0.55 M | truth; inactive in the end, not forgotten on the way, and not left any more |
| `ds_liveness` | health controller; the annotation moves between two deployments, each of which may be missing for a while; fairness | 0.23 M | truth of the deployment named; convergence; retries end |
| `pc_phases` | an operation with two sources or without `Sync`, with every end and termination; deletion; a crash, a refused comment, a watch gap; three stamps; fairness | 0.30 M | truth, a pass per change, the end of a sync is commented, and already is whenever the controller is at rest |
| `cc_calls` | one or two sources (a chart without a path, a directory, a link that is no repository, `https` and `ssh`), five annotations, up to three pull requests with pages of two, files in, above and beside the directories; either host; two failed calls | 0.07 M | the promise is kept; who touches the object is told; who is told is related; the commit is the last resort; the call comes to its end |

Violations: each states what the repository says of itself and TLC refutes it.

| Run | Says | Happens |
|---|---|---|
| `hc_second` | `README.md:10` | the second source moves on, the first stays: "current revision is already healthy" |
| `ds_overwritten` | `applicationdeploymentstatus_test.go:114` "Should not create any deployment status after healthy" | check of the phase controller, `success` of the health controller, `in_progress` of the phase controller |
| `ds_late` | `applicationdeploymentstatus_test.go:230`, `:263` "Should finally create a deployment status" | the annotation comes after the last change the filters look at |
| `cc_alike` | `internal/notification/pull_test.go:53` "no match" for files of other Applications | `/app10` begins with `/app1` |
| `cc_enterprise` | `README.md:200` "GitHub Enterprise Server", `:202` "Set the environment variable" | the REST calls go to that host, but its repository URLs are not parsed |

Other ways in which nothing is posted need no run, since they follow from one line:
a refused comment is not retried although its revision is recorded, a restart queues
nothing, an object that is removed before it is read is not reported, and a sync that
ends before it is read has no "Syncing" comment. They are on the list of hazards, and
the properties take them into account: `RecordedIsAttempted` counts refused comments,
the convergence properties have the premise that nothing was lost (`NoLoss`),
`DeletionConverges` also that the object stays there, and `SyncedIsCommented` that no
fault happens, and speaks of the end of a sync.

Every property of a passing run has a mutant of the code, defined next to what it
changes, that TLC refutes under the bounds of that run.

### Why the bounds are enough

The hazards are small. One name suffices for everything an Application does to
itself: the controllers never relate two names. Two names on one deployment meet in
its statuses; the safety of that is proved for any number of names (section 4). Two
revisions show a move and a
rollback of the record. Two stamps are one whole sync, a third the start of the next,
four two syncs. One fault of a kind separates the code from its mutants. In
`CreateComments`, a loop over two sources shows what one leaves behind for the next;
three pull requests are one more than a page; two failures are one in each of two
sources, or two in one. Of the names only `app1` and `app10` begin alike. The
annotation `BadURL`, the watch gaps seen by the health and deployment controllers, and
everything beyond these bounds are covered by the theorems of section 4, for the
properties stated there.

Deadlock is checked in the runs whose instance always has something left to do.
`CHECK_DEADLOCK FALSE` is in `hc_sources` and `ds_deletion`, where the object may
be removed, in `pc_phases`, where the stamps run out, and in the runs of
`CreateComments`, where the call returns: there the system really stops.

### Fairness

`FairSpec` assumes of the program and of controller-runtime what they do: a
reconciler's next step is taken (one worker per controller, calls return: the code sets
no timeout for them, which is on the list of hazards), the
informers deliver, a due delayed requeue is queued, a name that is in the queue
again and again is taken (the queue is first in first out, hence strong fairness),
a dead process is restarted, time passes. Nothing is assumed of Argo CD, users,
deployments or faults. Faults are finite in number.

The convergence properties name their exceptions instead of assuming them away:
`Overtaking` (a run that checked before the final status was written),
`RetryTimesOut` (10 minutes are over) and `NoLoss`. The first two are code behaviour that
the violation runs and hazards describe. `NoLoss` names the faults that nothing makes
good: a crash, because a name lost with its queue is not queued again; a watch gap, which
may skip the change that a filter looks for; for the health comments a stale read of the
record, for the deployments a failed call to GitHub, since a refused status is not posted
again. It is a premise of `HealthyIsRecorded`, `DeploymentConverges` and
`DeletionConverges`, whether or not the bounds of a run let the fault happen; as the
counts of faults only grow, that it holds in the end means that it always did. A call to
comment needs no fairness: its properties say what holds when it returns, and that each of
its steps brings it nearer to that.

## 4. Theorems

All are of the specification for every value of the constants that satisfies the
modules' assumptions: any numbers of Applications, revisions, sources, pull requests,
deployments, stamps and faults. The assumptions only keep the "none" values apart from
the real ones, give the constants their types, and say which controllers are registered.

**Types** (`TypeCorrect` in each of the three `_proofs` modules). `TypeOK` is inductive
by itself: besides types it has the shape of a run (what the worker's copy satisfies at
each place, among it that the 30 seconds after the sync are over before health is reported), which is what the steps need to stay well-typed. The steps of the manager
are typed once, in `ControllerManager_proofs`.

**Truth.** A comment, a status, a record and the worker's copy are made from states at
different times. The invariants (`TruthInv`) say that the histories cover them: every
object in the API server, in the cache and in the worker's hands is in `facts`.
- `HealthComment`: once the loop is past the first source, the healthy comments of that
  source are in `comments` or `unreached`; records are of such revisions. This implies
  `CommentsTruthful`, `RecordedWasHealthy` and `RecordedIsAttempted`. The cached copies
  of the record need no part in it: a stale one only decides whether to comment.
- `PhaseComment`: what the loop is about to post is in `facts`; `CommentsTruthful`.
- `DeploymentStatus`: what any of the three workers is about to write is a fact of its
  object, for the health controller because the phase was checked, for the deletion
  controller because the deletion was seen (`DeletionSeen`); `StatusesTruthful`.

**Duplicates** (`DuplicateInvariant`). `DuplicatesBounded` alone is not inductive: a run
that has seen an old record is about to post. `DuplicateInv` adds the passes already
announced but not recorded to the count, so that a post is paid for either by the
record the run will write or by the fault that kept it from being written or seen.

**The ledger** (`LedgerIsKept`). `HealthComment` implements `HealthLedger` under the mapping
that reads a worker at `comment` or `patch` as a pass for its copy's first revision, and a
comment made or refused as an announcement. A pass begins with the step that compares the
record with that revision: what it read is the record, or a stale read that is counted. The
patch is the entry: by `TruthInv` the comments due for the revision were attempted and it
was healthy. A return without a patch, a refused patch and a crash end the pass without
one; garbage collection strikes the entry.

**Causes** (`PassesAreCaused`). `OnePassPerChange` counts a name in the queue and a name
in the worker's hands as passes to come, which makes it inductive with the types.

**The seal** (`SuccessStaysSealed`). `SuccessIsSealed` is a property of steps; the type
invariant is all it needs, since the check and the shape of a run carry it.

**Final** (`InactiveStaysFinal`). `InactiveIsFinal` is the same for the end of a deployment:
it is closed when every copy of an Application that goes by it is of a deleted object and
no run on an older one is under way. The type invariant suffices again: the health and the
phase controller do not go on with a deleted object, a delivery or a restart copies
objects that are deleted, and the deletion controller writes what is there already.

**The board** (`BoardIsKept`). `DeploymentStatus` implements `DeploymentBoard` under the
mapping that reads a worker at `post` with a status to write as the holder of a permit.
Initial states map to initial states; every step is a step of the board or a stutter: the
step that comes to `post` is a grant, because the check has just seen the deployment, or
failed, or because the writer is the blind deletion controller, and what is granted is a
fact by the truth invariant; the post spends the permit; a return or a crash withdraws it.

**The promise** (`PromiseIsKept`). `CreateComments` implements `CommentService`: what the
caller wants is what the lists, as far as they are read, select of each source; a list
that fails misses all of its source at once. The invariant (`PromiseInv`) relates the
loop variables to the two ends: of the sources behind the loop every selected comment was
attempted or its list failed, of those ahead none was touched, and of the current one the
targets are what is left. `TouchingGetsComment` and `CommitComesLast` follow from it and
from `DirectoryIsPrefix`: a path that is an initial piece of a file's path is a prefix of
it as a string.

**Paths** (`ManifestGeneratePathsAreCanonical`, `SpellingIsIgnored`, `CommentedTouches`). `Canonical` is
a recursive function over the elements of a path. The library's induction takes a
predicate, which the provers cannot instantiate, so `InductionOnNat` states it of a set,
and proves it from the well-foundedness of `<` on the naturals; the sets it is used with
are those of the lengths up to which a path can be walked. As lemmas, a canonical
path has no dots, is its own canonical path (`CanonicalIsCanonical`), and does not change
if the source's path is cleaned before a relative path is joined to it
(`JoinIsFromSource`). For the code of `pull.go` it follows that `getManifestGeneratePaths`
returns canonical paths, as its comment says, and that how a source's path is spelled
changes nothing about who is told. A canonical path that is a prefix of a file's path is
an initial piece of it or one but for a last name that begins alike, which is
`CommentedIsRelated`. The last theorem needs of the inputs that paths consist of names and
dots, nothing of the annotation's form.

**At rest** (`SyncedAtRestIsCommented`, `HealthyAtRestIsRecorded`). `CommentedAtRest` and
`RecordedAtRest` say nothing of a controller that is busy, so they are far from inductive.
`RestInv` speaks of the object as the informer knows it, which is the object itself at rest,
and says where a comment that is due may be (`Owed`): in the queue, in the delayed queue, or
in a run that has yet to read the object, or has done the sources before its place in the
loop; and that a run which works on an outdated copy has an entry of the queue behind it
(`Fresh`). Whether a delivery queues the name depends on the copy it replaces; `CacheFollows`,
in `ControllerManager_proofs`, says that while no watch gap occurs the copy is at most one
write behind, and what one write may do (`ArgoCDFollows`). For the health controller `RestInv`
also has that an operation that ended has a stamp, so that the 30 seconds mean something,
and that a run about to patch finds a record (`HasRecord`). Faults that lose something for good
are named in the property: `NoFault` for phase comments, `NoLoss` (no crash, gap or stale
read) for health comments, where refused writes and comments are allowed. With
`RecordedIsAttempted` it follows that at rest the comments were made or refused by GitHub
(`HealthyAtRestIsAnnounced`).

**What is owed** (`SuccessStaysOwed`, `InactiveStaysOwed`). For the deployments the same is
said of steps, since other Applications and controllers may overwrite a status at any time
and the annotation may move: while the Application is healthy (deleted, missing) on an
existing deployment, each step without a fault leaves the status shown, or on its way, or
overwritten. A write that makes the object healthy makes the success owed, because
the filter lets it through (`HealthyCalls`). A call stays until a `Get` answers it (`CallStays`);
the run that answers it sees the object, or a copy older than the object, and then the next
update is still to come. This needs that copies are never newer than objects, whatever fails
(`CacheIsOlder`, an invariant of its own: `CacheStaysOlder`). The check either finds the
success or goes on, within 30 seconds by a requeue.

**The end of a call** (`CallKeepsAdvancing`, `TodoStaysFinite`). A call to comment holds the
only worker of its controller. `CallAdvances` gives a measure: the source, the place in its
round, and what is left to read or to comment, which each step changes in that order. The
sources are a finite list, the places are five, and what is left is finite because it is
part of a page (`PromiseInv`), so a call has finitely many steps. That a single REST call
returns is not said: the clients have no timeout.

**Checked by TLC only.** Liveness under fairness, and what needs ENABLED, are not provable
with the installed provers: `HealthyIsRecorded`, `ComesToRest`, `DeploymentConverges`,
`DeletionConverges`, `SyncedIsCommented`. The theorems on what is at rest and what is owed
are their safety part: nothing is forgotten. That something happens at all is left to TLC.

## 5. Not modelled

- The relation of pull requests inside the runs of the controllers, where it is the
  constant `RelatedPulls`: `CreateComments` models it, and composing the two would
  multiply the states without a new interaction, since a call shares no state.
- The five controllers in one run. The comment controllers share nothing with the
  deployment controllers but the objects they read and the process they die with; the
  deployment controllers are checked in pairs, and proved for any subset of them.
- Changes of the sources of an Application. `GetSourceRevisions` pairs the revisions of
  the last sync with the sources of the *current* spec (`application.go:24`), which a
  user may edit after the sync. `SourceCount`, `RelatedPulls` and `GitHubSources` are
  constants: what an edit in the middle of a run does to a comment is not covered.
- The empty revision of an operation without one, in the runs: the theorems cover it.
- Two Applications in one run. The theorems of safety hold for any number; liveness with
  two of them on one deployment has no answer in the code: each overwrites the other's.
- The authentication of the GitHub client, and its HTTP cache: `internal/github/client.go:21`
  stores the caching transport under the key `oauth2.HTTPClient`, where oauth2 looks for
  an `*http.Client`, so no call goes through it.
- Texts and links: bodies, descriptions (`trimDescription`), the Argo CD and external URLs.
- GitHub setting older deployments of an environment to `inactive` by itself.
- Clock skew between Argo CD and the controller.
- Errors of a cached `Get` other than NotFound; the length of a back-off.
- `cmd/main.go` beyond what it starts (flags, TLS, metrics and health endpoints),
  generated deep copies and the scheme, manifests, the GitHub mock of the tests and the
  `waitforapp` tool of the end-to-end tests: no part of what the controllers do.

## 6. Plan

Done, in the order of importance: `Application`, `ControllerManager`, `Notification`,
`HealthComment`, `DeploymentStatus`, `PhaseComment`; then `PullRequestRelation` and
`CreateComments` with the abstract `CommentService`, then the abstract `DeploymentBoard`
and `HealthLedger`; proofs of every safety property of the four components and of the
three refinements, the paths included; then the properties that nothing gets lost and
that a call ends, and their proofs.

Left: the safety part of `ComesToRest`, a measure of the requeues under way. Section 5 gives
the reasons for what is not composed.
