------------------------- MODULE DeploymentStatus -------------------------
(***************************************************************************)
(* The three controllers that write the statuses of the GitHub deployment  *)
(* an Application is annotated with: ApplicationPhaseDeploymentReconciler, *)
(* ApplicationHealthDeploymentReconciler and                               *)
(* ApplicationDeletionDeploymentReconciler.  Each has a worker of its own; *)
(* they meet in GitHub only, where the first two check whether the latest  *)
(* status is "success" before they write theirs.                           *)
(***************************************************************************)
EXTENDS ControllerManager, Notification

CONSTANT NoDeployment \* the deployment does not exist

ASSUME NoDeploymentAssumption == NoDeployment \notin DeploymentStates

\* The names SetupWithManager gives the controllers.
PhaseDeployment == "applicationPhaseDeployment"
HealthDeployment == "applicationHealthDeployment"
DeletionDeployment == "applicationDeletionDeployment"

ASSUME DeploymentControllersAssumption ==
    Controllers \subseteq {PhaseDeployment, HealthDeployment, DeletionDeployment}

VARIABLES
    latest,  \* the state of each deployment's latest status
    expired, \* per name, the last stamp at least 10 minutes old
    facts    \* history: <deployment, state> pairs some object stood for

vars == << managerVars, latest, expired, facts >>

-----------------------------------------------------------------------------
\* The states an object stands for, with the deployment it names at the
\* same time.
StatesOf(obj) ==
    (IF obj.phase = "Running" THEN {"queued"} ELSE {})
    \cup (IF obj.phase = "Succeeded" THEN {"in_progress"} ELSE {})
    \cup (IF obj.phase \in {"Failed", "Error"} THEN {"failure"} ELSE {})
    \cup (IF obj.phase = "Succeeded" /\ obj.health = "Healthy"
          THEN {"success"} ELSE {})
    \cup (IF obj.phase = "Succeeded" /\ obj.health = "Degraded"
          THEN {"failure"} ELSE {})
    \cup (IF obj.deleting \/ obj.health = "Missing" THEN {"inactive"} ELSE {})

Facts(obj) ==
    IF obj.exists /\ obj.url \in Deployments
    THEN {[deployment |-> obj.url, state |-> s] : s \in StatesOf(obj)}
    ELSE {}

\* A deployment exists when the program starts, or is created later.
Init ==
    /\ ManagerInit
    /\ latest \in [Deployments -> {NoState, NoDeployment}]
    /\ expired = [a \in Apps |-> 0]
    /\ facts = UNION {Facts(app[a]) : a \in Apps}

-----------------------------------------------------------------------------
(* Reconcile: up to the first call to GitHub.                              *)

PhaseMayGoOn(obj) ==
    /\ ~obj.deleting
    /\ GetSyncOperationPhase(obj) # ""
    /\ GetDeploymentURL(obj) # NoURL

\* Mutant: the deletion timestamp is not looked at.
HealthMayGoOnIfDeleting(obj) == GetDeploymentURL(obj) # NoURL

HealthMayGoOn(obj) ==
    ~obj.deleting /\ GetDeploymentURL(obj) # NoURL

isApplicationDeleting(obj) == obj.deleting \/ obj.health = "Missing"

DeletionMayGoOn(obj) ==
    GetDeploymentURL(obj) # NoURL /\ isApplicationDeleting(obj)

MayGoOn(c, obj) ==
    \/ c = PhaseDeployment /\ PhaseMayGoOn(obj)
    \/ c = HealthDeployment /\ HealthMayGoOn(obj)
    \/ c = DeletionDeployment /\ DeletionMayGoOn(obj)

GetApplication(c) ==
    /\ worker[c].pc = "get"
    /\ LET obj == cached[worker[c].key] IN
       \/ /\ ~(obj.exists /\ MayGoOn(c, obj))
          /\ Return(c)
       \/ /\ obj.exists /\ MayGoOn(c, obj)
          /\ GotApplication(c, obj, IF c = DeletionDeployment THEN "post" ELSE "check")
    /\ UNCHANGED << app, cached, up, settled, faults, latest, expired, facts >>

-----------------------------------------------------------------------------
(* Reconcile: the check.                                                   *)

\* Mutant: the wrong state is compared.
CheckIfDeploymentIsInProgress(url) ==
    IF ~ParsesDeploymentURL(url) THEN "no"
    ELSE CASE latest[url] = NoDeployment  -> "not found"
           [] latest[url] = "in_progress" -> "yes"
           [] OTHER                       -> "no"

\* The answer of GitHub: an unparsable URL is not looked up.
CheckIfDeploymentIsAlreadyHealthy(url) ==
    IF ~ParsesDeploymentURL(url) THEN "no"
    ELSE CASE latest[url] = NoDeployment -> "not found"
           [] latest[url] = "success"    -> "yes"
           [] OTHER                      -> "no"

\* Mutant: the retries never end.
MayRetryForever(a, obj) == TRUE

\* time.Since(lastOperationAt) < 10m
MayRetry(a, obj) == GetLastOperationAt(obj) > expired[a]

\* Mutant: the 30 seconds are not waited for.
NeverJustFinished(a, obj) == FALSE

\* time.Since(finishedAt) < 30s
JustFinished(a, obj) == GetSyncOperationFinishedAt(obj) > settled[a]

\* Mutant: the phase is not checked.
HealthAfterCheckInAnyPhase(a, obj) ==
    IF JustFinished(a, obj)
    THEN ReturnRequeueAfter(HealthDeployment)
    ELSE Goto(HealthDeployment, "post") /\ UNCHANGED << queue, timer >>

\* Mutant: an object whose sync has just finished is not looked at again.
HealthAfterCheckOnce(a, obj) ==
    IF GetSyncOperationPhase(obj) # "Succeeded" \/ JustFinished(a, obj)
    THEN Return(HealthDeployment)
    ELSE Goto(HealthDeployment, "post") /\ UNCHANGED << queue, timer >>

\* The health controller evaluates the status after a finished sync only.
HealthAfterCheck(a, obj) ==
    \/ /\ GetSyncOperationPhase(obj) # "Succeeded"
       /\ Return(HealthDeployment)
    \/ /\ GetSyncOperationPhase(obj) = "Succeeded"
       /\ JustFinished(a, obj)
       /\ ReturnRequeueAfter(HealthDeployment)
    \/ /\ GetSyncOperationPhase(obj) = "Succeeded"
       /\ ~JustFinished(a, obj)
       /\ Goto(HealthDeployment, "post")
       /\ UNCHANGED << queue, timer >>

\* Mutant: a missing deployment is not looked for again.
AfterCheckWithoutRetry(c, answer) ==
    \/ /\ answer \in {"not found", "yes"}
       /\ Return(c)
    \/ /\ answer = "no"
       /\ c = PhaseDeployment
       /\ Goto(c, "post")
       /\ UNCHANGED << queue, timer >>
    \/ /\ answer = "no"
       /\ c = HealthDeployment
       /\ HealthAfterCheck(worker[c].key, worker[c].obj)

AfterCheck(c, answer) ==
    \/ /\ answer = "not found"
       /\ IF MayRetry(worker[c].key, worker[c].obj)
          THEN ReturnRequeueAfter(c)
          ELSE Return(c)
    \/ /\ answer = "yes"
       /\ Return(c)
    \/ /\ answer = "no"
       /\ c = PhaseDeployment
       /\ Goto(c, "post")
       /\ UNCHANGED << queue, timer >>
    \/ /\ answer = "no"
       /\ c = HealthDeployment
       /\ HealthAfterCheck(worker[c].key, worker[c].obj)

\* Any error but 404 leaves the answer false, and is not looked at.
Check(c) ==
    /\ worker[c].pc = "check"
    /\ \/ /\ AfterCheck(c, CheckIfDeploymentIsAlreadyHealthy(worker[c].obj.url))
          /\ UNCHANGED faults
       \/ /\ ParsesDeploymentURL(worker[c].obj.url)
          /\ Fault("github")
          /\ AfterCheck(c, "no")
    /\ UNCHANGED << app, cached, up, settled, latest, expired, facts >>

-----------------------------------------------------------------------------
(* Reconcile: the status.                                                  *)

DeploymentState(c, obj) ==
    CASE c = PhaseDeployment    -> PhaseDeploymentState(obj)
      [] c = HealthDeployment   -> HealthDeploymentState(obj)
      [] c = DeletionDeployment -> DeletionDeploymentState(obj)

\* There is a deployment and a status for it.
HasStatus(c, obj) ==
    ParsesDeploymentURL(obj.url) /\ DeploymentState(c, obj) # NoState

\* Mutant: the object is read again before the status.
PostReread(c) ==
    /\ worker[c].pc = "post"
    /\ LET obj == cached[worker[c].key] IN
       \/ /\ HasStatus(c, obj) => latest[obj.url] = NoDeployment
          /\ UNCHANGED << latest, faults >>
       \/ /\ HasStatus(c, obj) /\ latest[obj.url] # NoDeployment
          /\ latest' = [latest EXCEPT ![obj.url] = DeploymentState(c, obj)]
          /\ UNCHANGED faults
    /\ Return(c)
    /\ UNCHANGED << app, cached, up, settled, expired, facts >>

\* A status that is not created, because the deployment does not exist or
\* for another reason, is only recorded as an event.
Post(c) ==
    /\ worker[c].pc = "post"
    /\ LET obj == worker[c].obj IN
       \/ /\ HasStatus(c, obj) => latest[obj.url] = NoDeployment
          /\ UNCHANGED << latest, faults >>
       \/ /\ HasStatus(c, obj) /\ latest[obj.url] # NoDeployment
          /\ latest' = [latest EXCEPT ![obj.url] = DeploymentState(c, obj)]
          /\ UNCHANGED faults
       \/ /\ HasStatus(c, obj)
          /\ Fault("github")
          /\ UNCHANGED latest
    /\ Return(c)
    /\ UNCHANGED << app, cached, up, settled, expired, facts >>

Reconcile(c) == GetApplication(c) \/ Check(c) \/ Post(c)

-----------------------------------------------------------------------------
(* GitHub, Kubernetes and time.                                            *)

CreateDeployment(d) ==
    /\ latest[d] = NoDeployment
    /\ latest' = [latest EXCEPT ![d] = NoState]
    /\ UNCHANGED << managerVars, expired, facts >>

Environment(a) ==
    /\ ArgoCD(a)
    /\ facts' = facts \cup Facts(app'[a])
    /\ UNCHANGED << latest, expired >>

\* Ten minutes have passed since some start or end of an operation.
Expire(a) ==
    /\ \E s \in (expired[a] + 1) .. settled[a] :
          expired' = [expired EXCEPT ![a] = s]
    /\ UNCHANGED << managerVars, latest, facts >>

Watch(a) == Deliver(a) /\ UNCHANGED << latest, expired, facts >>
Wait(a) == Settle(a) /\ UNCHANGED << latest, expired, facts >>
Requeue(c, a) == TimerFires(c, a) /\ UNCHANGED << latest, expired, facts >>
Take(c, a) == Dequeue(c, a) /\ UNCHANGED << latest, expired, facts >>
Stop == Crash /\ UNCHANGED << latest, expired, facts >>
Restart == Start /\ UNCHANGED << latest, expired, facts >>

Next ==
    \/ \E a \in Apps : Environment(a) \/ Watch(a) \/ Wait(a) \/ Expire(a)
    \/ \E c \in Controllers :
          \/ \E a \in Apps : Requeue(c, a) \/ Take(c, a)
          \/ Reconcile(c)
    \/ \E d \in Deployments : CreateDeployment(d)
    \/ Stop
    \/ Restart

\* As in HealthComment: the environment owes nothing.
Fairness ==
    /\ WF_vars(Restart)
    /\ \A a \in Apps : WF_vars(Watch(a)) /\ WF_vars(Wait(a)) /\ WF_vars(Expire(a))
    /\ \A c \in Controllers :
          /\ WF_vars(Reconcile(c))
          /\ \A a \in Apps : WF_vars(Requeue(c, a)) /\ SF_vars(Take(c, a))

Spec == Init /\ [][Next]_vars

FairSpec == Spec /\ Fairness

-----------------------------------------------------------------------------
(* The promise to the users of the deployments.                            *)

NoPermit == [deployment |-> NoURL, state |-> NoState]

\* The status a run is about to create.
Permit(c) ==
    LET w == worker[c] IN
    IF w.pc = "post" /\ HasStatus(c, w.obj)
    THEN [deployment |-> w.obj.url, state |-> DeploymentState(c, w.obj)]
    ELSE NoPermit

Board == INSTANCE DeploymentBoard WITH
    Writers  <- Controllers,
    Blind    <- {DeletionDeployment},
    NoStatus <- NoState,
    Missing  <- NoDeployment,
    permits  <- [c \in Controllers |-> Permit(c)],
    failures <- faults["github"]

\* What is written is what a check allowed or a deletion asked for, was
\* true, and is written once; between the check and the status the run
\* does not change its mind.
KeepsBoard == Board!Spec

-----------------------------------------------------------------------------
(* Properties.                                                             *)

RunShape(c) ==
    LET w == worker[c] IN
    /\ w.pc \in {"idle", "get", "check", "post"}
    /\ w.pc = "idle" <=> w.key = NoApp
    /\ w.pc \in {"check", "post"} => w.obj.exists /\ w.obj.url # NoURL
    /\ c = DeletionDeployment => w.pc # "check"
    /\ c # DeletionDeployment /\ w.pc \in {"check", "post"} => ~w.obj.deleting
    /\ c = HealthDeployment /\ w.pc = "post" =>
          w.obj.phase = "Succeeded" /\ w.obj.operationAt <= settled[w.key]

\* Types, and the shape of a reconcile: only a deletion is reported of a
\* deleted object, without a check, and health is reported only of an
\* object whose sync succeeded at least 30 seconds before.
TypeOK ==
    /\ ManagerTypeOK
    /\ latest \in [Deployments -> DeploymentStates \cup {NoDeployment}]
    /\ expired \in [Apps -> Stamps]
    /\ facts \subseteq [deployment : Deployments, state : DeploymentStates]
    /\ \A c \in Controllers : RunShape(c)

\* The latest status of a deployment tells the truth: some object stood for
\* that state while it named that deployment, at one and the same time; a
\* "success" in particular is never put together from a phase and a health
\* or an annotation that were not there at once.
StatusesTruthful ==
    \A d \in Deployments :
        latest[d] \notin {NoState, NoDeployment} =>
            [deployment |-> d, state |-> latest[d]] \in facts

\* Nobody is about to write a status of d that was successful when checked.
Sealed(d) ==
    /\ latest[d] = "success"
    /\ \A c \in Controllers : ~(worker[c].pc = "post" /\ worker[c].obj.url = d)

\* No Application that goes by d is alive, as far as anybody knows, and no
\* run that read a live one is in flight.
Closed(d) ==
    /\ latest[d] = "inactive"
    /\ \A a \in Apps : \A obj \in {app[a], cached[a]} :
          obj.exists /\ obj.url = d => obj.deleting
    /\ \A c \in Controllers \ {DeletionDeployment} :
          ~(worker[c].pc \in {"check", "post"} /\ worker[c].obj.url = d)

\* Inactive is final: neither a requeue from before the deletion, nor a late
\* update, a lost one or a restart brings a deleted Application's deployment
\* back to another status, until a live Application goes by it.
InactiveIsFinal ==
    [][\A d \in Deployments :
         Closed(d) =>
            \/ Closed(d)'
            \/ \E a \in Apps :
                  app'[a].exists /\ app'[a].url = d /\ ~app'[a].deleting]_vars

\* The check works: a success that no run in flight can overtake is left
\* only through a check that failed or through the deletion controller,
\* which does not check.
SuccessIsSealed ==
    [][\A d \in Deployments :
         Sealed(d) =>
            \/ Sealed(d)'
            \/ faults'["github"] > faults["github"]
            \/ /\ DeletionDeployment \in Controllers
               /\ worker'[DeletionDeployment].pc = "post"]_vars

IsHealthy(a) ==
    /\ app[a].exists /\ ~app[a].deleting
    /\ app[a].phase = "Succeeded" /\ app[a].health = "Healthy"

IsDeleting(a) == app[a].exists /\ isApplicationDeleting(app[a])

\* The informer knows by which deployment the Application goes.
NamedOn(a, d) ==
    app[a].url = d /\ cached[a].url = d /\ latest[d] # NoDeployment

\* Something on its way makes the controller look at the object.
Undelivered(c, a) == ApplicationChanged(c, cached[a], app[a])

Called(c, a) ==
    \/ Undelivered(c, a)
    \/ a \in queue[c]
    \/ timer[c][a] # NoTimer
    \/ worker[c].key = a /\ worker[c].pc = "get"

OwesSuccess(a, d) ==
    LET w == worker[HealthDeployment] IN
    \/ latest[d] = "success"
    \/ Called(HealthDeployment, a)
    \/ /\ w.key = a /\ w.obj.url = d
       /\ w.obj.phase = "Succeeded" /\ w.obj.health = "Healthy"

OwesInactive(a, d) ==
    \/ latest[d] = "inactive"
    \/ Called(DeletionDeployment, a)
    \/ worker[DeletionDeployment].key = a /\ worker[DeletionDeployment].obj.url = d

\* A step of the running process in which nothing fails and a keeps its
\* deployment d.
Undisturbed(a, d) ==
    up /\ UNCHANGED faults /\ NamedOn(a, d) /\ NamedOn(a, d)'

\* Another run's status is written over this one.
Overwritten(d, state) == latest[d] = state /\ latest'[d] # state

\* No success gets lost between the filter, the queue, the check and the 30
\* seconds: a healthy Application's deployment shows success or the health
\* controller still owes it, and no step ends that but a fault or another
\* run's status written over the success.
SuccessIsOwed ==
    [][\A a \in Apps, d \in Deployments :
         (/\ HealthDeployment \in Controllers
          /\ Undisturbed(a, d)
          /\ IsHealthy(a)'
          /\ IsHealthy(a) => OwesSuccess(a, d))
         => OwesSuccess(a, d)' \/ Overwritten(d, "success")]_vars

\* The same of an Application that is deleted or missing, and "inactive".
InactiveIsOwed ==
    [][\A a \in Apps, d \in Deployments :
         (/\ DeletionDeployment \in Controllers
          /\ Undisturbed(a, d)
          /\ IsDeleting(a)'
          /\ IsDeleting(a) => OwesInactive(a, d))
         => OwesInactive(a, d)' \/ Overwritten(d, "inactive")]_vars

\* "Should not create any deployment status after healthy"
\* (applicationdeploymentstatus_test.go:114).
NoStatusAfterHealthy ==
    [][\A d \in Deployments : latest[d] = "success" => latest'[d] = "success"]_vars

\* A run that checked, or read its object, before the final status was
\* written is about to overwrite it.
Overtaking(d) ==
    \E c \in Controllers \ {DeletionDeployment} :
        LET w == worker[c] IN
        /\ w.pc = "post" /\ w.obj.url = d
        /\ HasStatus(c, w.obj) /\ DeploymentState(c, w.obj) # latest[d]
        /\ \/ latest[d] = "success"
           \/ latest[d] = "inactive" /\ app[w.key].deleting

\* A run gives up: the deployment its object names is missing, 10 minutes
\* after the object's last operation.
RetryTimesOut(a) ==
    \E c \in Controllers :
        LET w == worker[c] IN
        /\ w.pc = "check" /\ w.key = a /\ GetSyncOperationPhase(w.obj) # ""
        /\ CheckIfDeploymentIsAlreadyHealthy(w.obj.url) = "not found"
        /\ ~MayRetry(a, w.obj)

HealthyOn(a, d) ==
    IsHealthy(a) /\ app[a].url = d /\ latest[d] # NoDeployment

\* What the controllers do not make good has not happened.
NoLoss == faults["crash"] = 0 /\ faults["gap"] = 0 /\ faults["github"] = 0

AnotherExists(d) == \E e \in Deployments \ {d} : latest[e] # NoDeployment

\* "Retry until the application is synced with a valid GitHub Deployment"
\* (applicationhealthdeployment_controller.go:81): an Application that stays
\* synced and healthy on a deployment shows success on it in the end, also
\* if the deployment was missing for a while or a missing one was named
\* before it, unless the retries ran out, an older run overwrote it, a call
\* to GitHub failed or an update was lost.
DeploymentConverges ==
    \A a \in Apps, d \in Deployments :
        []~(Overtaking(d) \/ RetryTimesOut(a) \/ AnotherExists(d))
        /\ <>[](NoLoss /\ HealthyOn(a, d))
            => <>[](latest[d] = "success")

\* "Should finally create a deployment status" when "an application was
\* synced before the deployment annotation is updated"
\* (applicationdeploymentstatus_test.go:230, 263).
FinallyDeployed ==
    \A a \in Apps, d \in Deployments :
        <>[]HealthyOn(a, d) => <>[](latest[d] = "success")

DeletedOn(a, d) ==
    app[a].exists /\ app[a].deleting /\ app[a].url = d

\* "It creates a deployment status when the Application is deleting"
\* (applicationdeletiondeployment_controller.go:36): a deployment that is
\* there from the start is inactive in the end, unless an older run
\* overwrote it, a call to GitHub failed or the process died.
DeletionConverges ==
    \A a \in Apps, d \in Deployments :
        [](latest[d] # NoDeployment) /\ []~Overtaking(d)
        /\ <>[](NoLoss /\ DeletedOn(a, d))
            => <>[](latest[d] = "inactive")

Quiet == \A c \in Controllers :
            /\ queue[c] = {} /\ worker[c].pc = "idle"
            /\ \A a \in Apps : timer[c][a] = NoTimer

\* The 30-second requeues end after 10 minutes, also if the deployment never
\* appears: once Argo CD writes nothing more, the controllers come to rest.
ComesToRest == []<><<TRUE>>_app \/ <>[]Quiet

=============================================================================
